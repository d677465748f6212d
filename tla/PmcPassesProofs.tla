---------------------------- MODULE PmcPassesProofs ----------------------------
(***************************************************************************)
(* For any passes whose counters fit the registers, any benchmarks, any    *)
(* number of samples and interruptions, and either way of reading a        *)
(* counter: whatever fails to open, no descriptor leaks or is closed       *)
(* twice; all counters of a pass count at the same time until one is       *)
(* evicted; and what is printed is the benchmark's own count as long as    *)
(* fewer than half of the samples are disturbed or read in another way.    *)
(***************************************************************************)
EXTENDS PmcPasses, Facts, SequenceTheorems

LEMMA PassType ==
  ASSUME NEW p \in 1..Len(Passes)
  PROVE  Passes[p].width \in Nat \ {0} /\ Passes[p].system \in BOOLEAN
<1> DEFINE S == [width : Nat \ {0}, system : BOOLEAN]
<1>1. Passes \in Seq(S)
  BY PassesAssumption
<1>2. Passes[p] \in S
  <2> HIDE DEF S
  <2> QED BY <1>1
<1> QED BY <1>2

LEMMA Lengths ==
  /\ Len(Passes) \in Nat \ {0} /\ Len(Work) \in Nat \ {0}
  /\ \A b \in 1..Len(Work) : Work[b] \in Nat
<1> DEFINE S == [width : Nat \ {0}, system : BOOLEAN]
<1>1. Passes \in Seq(S) /\ Passes # <<>> /\ Work \in Seq(Nat) /\ Work # <<>>
  BY PassesAssumption
<1> HIDE DEF S
<1>2. Len(Passes) \in Nat \ {0}
  BY <1>1
<1>3. Len(Work) \in Nat \ {0} /\ \A b \in 1..Len(Work) : Work[b] \in Nat
  BY <1>1
<1> QED BY <1>2, <1>3

LEMMA ConstantTypes ==
  /\ NumRegs \in Nat /\ Others \subseteq Nat /\ Samples \in Nat \ {0}
  /\ Loop \in Nat /\ Noise \in Nat /\ MaxDisturb \in Nat
  /\ ReadCost \in [Ways -> Nat]
  /\ HwSize \in Nat \ {0} /\ WordSize \in Nat \ {0} /\ HwSize <= WordSize
BY PassesAssumption, CountAssumption

LEMMA WidthType ==
  ASSUME PlaceInv
  PROVE  Width \in Nat \ {0} /\ i \in 1..Width /\ Counters = 1..Width
BY PassType DEF PlaceInv, Width, Counters

\* The counters of a pass stay the same to its end.
LEMMA SamePass ==
  ASSUME pass' = pass
  PROVE  Width' = Width /\ Counters' = Counters
BY DEF Width, Counters

LEMMA CallCostType ==
  ASSUME PlaceInv
  PROVE  CallCost \in Nat /\ WarmupCalls * CallCost \in Nat
<1>1. bench # 0 => Work[bench] \in Nat
  BY Lengths DEF PlaceInv
<1>2. CallCost \in Nat
  BY <1>1, ConstantTypes DEF CallCost
<1>3. WarmupCalls \in Nat
  BY DEF WarmupCalls
<1>4. \A m, n \in Nat : m * n \in Nat
  OBVIOUS
<1> QED BY <1>2, <1>3, <1>4

-------------------------------------------------------------------------------
(* Where main is. *)

LEMMA PlaceInit == Init => PlaceInv
<1> SUFFICES ASSUME Init PROVE PlaceInv
  OBVIOUS
<1>1. pass \in 1..Len(Passes) /\ Passes[pass].width \in Nat \ {0}
  BY Lengths, PassType DEF Init
<1>2. i \in Counters
  BY <1>1 DEF Init, Counters, Width
<1>3. bench \in 0..Len(Work)
  BY Lengths DEF Init
<1>4. disturbs \in 0..MaxDisturb
  BY ConstantTypes DEF Init
<1> QED BY <1>1, <1>2, <1>3, <1>4 DEF Init, PlaceInv, Places

LEMMA PlaceStep ==
  ASSUME PlaceInv, [Next]_vars
  PROVE  PlaceInv'
<1> DEFINE M == Len(Work)
           P == Len(Passes)
           W == Width
<1>1. /\ M \in Nat \ {0} /\ P \in Nat \ {0} /\ W \in Nat \ {0} /\ MaxDisturb \in Nat
      /\ pass \in 1..P /\ i \in 1..W /\ bench \in 0..M /\ disturbs \in 0..MaxDisturb
      /\ 1 \in 1..W /\ 1 \in 0..M /\ ok \in BOOLEAN
  <2>1. M \in Nat \ {0} /\ P \in Nat \ {0} /\ W \in Nat \ {0} /\ MaxDisturb \in Nat
    BY Lengths, ConstantTypes, WidthType
  <2>2. /\ pass \in 1..P /\ i \in 1..W /\ bench \in 0..M /\ disturbs \in 0..MaxDisturb
        /\ ok \in BOOLEAN
    BY WidthType DEF PlaceInv
  <2> HIDE DEF M, P, W
  <2>3. 1 \in 1..W /\ 1 \in 0..M
    BY <2>1
  <2> QED BY <2>1, <2>2, <2>3
<1>2. pass' = pass => Counters' = 1..W
  BY SamePass DEF Counters
<1>3. SUFFICES /\ pass' \in 1..P
               /\ pc' \in Places
               /\ i' \in Counters' /\ ok' \in BOOLEAN /\ bench' \in 0..M
               /\ disturbs' \in 0..MaxDisturb
               /\ pc' = "open" => bench' = 0 /\ disturbs' = 0
               /\ pc' \in {"warmup", "run", "medians", "print"} => i' = 1
               /\ pc' = "print" => bench' # 0
  BY DEF PlaceInv, Places
<1> HIDE DEF M, P, W
<1>4. i < W => i + 1 \in 1..W
  BY <1>1
<1>5. CASE OpenCounter
  <2>1. pc = "open" /\ bench = 0 /\ disturbs = 0
    BY <1>5 DEF OpenCounter, PlaceInv
  <2>2. /\ pass' = pass /\ bench' = 0 /\ disturbs' = 0 /\ ok' \in BOOLEAN
        /\ \/ i < W /\ i' = i + 1 /\ pc' = "open"
           \/ i' = 1 /\ pc' \in {"warmup", "close"}
    BY <1>1, <1>5, <2>1 DEF OpenCounter, ghostVars, W
  <2> QED BY <1>1, <1>2, <1>4, <2>2 DEF Places
<1>6. CASE CloseCounter
  <2>1. pc = "close"
    BY <1>6 DEF CloseCounter
  <2>2. CASE i < W /\ i' = i + 1 /\ UNCHANGED <<pass, pc, ok, bench, ghostVars>>
    BY <1>1, <1>2, <1>4, <2>1, <2>2 DEF ghostVars, Places
  <2>3. CASE /\ pass < P /\ pass' = pass + 1 /\ pc' = "open" /\ i' = 1 /\ ok' = TRUE
             /\ bench' = 0 /\ disturbs' = 0
    <3>1. pass' \in 1..P
      BY <1>1, <2>3
    <3>2. Passes[pass'].width \in Nat \ {0}
      BY <3>1, PassType DEF P
    <3>3. i' \in Counters'
      BY <2>3, <3>2 DEF Counters, Width
    <3>4. bench' \in 0..M /\ disturbs' \in 0..MaxDisturb
      BY <1>1, <2>3
    <3> QED BY <2>3, <3>1, <3>3, <3>4 DEF Places
  <2>4. CASE pc' = "done" /\ UNCHANGED <<pass, i, ok, bench, ghostVars>>
    BY <1>1, <1>2, <2>4 DEF ghostVars, Places
  <2> QED BY <1>6, <2>2, <2>3, <2>4 DEF CloseCounter, W, P
<1>7. CASE Warmup
  <2>1. UNCHANGED <<pass, i, ok, bench, disturbs>> /\ pc' = "before"
    BY <1>7 DEF Warmup, ghostVars
  <2> QED BY <1>1, <1>2, <2>1 DEF Places
<1>8. CASE ReadBefore
  <2>1. /\ UNCHANGED <<pass, ok, bench, disturbs>>
        /\ \/ i < W /\ i' = i + 1 /\ pc' = "before"
           \/ i' = 1 /\ pc' = "run"
    BY <1>8 DEF ReadBefore, W
  <2> QED BY <1>1, <1>2, <1>4, <2>1 DEF Places
<1>9. CASE Run
  <2>1. UNCHANGED <<pass, i, ok, bench, disturbs>> /\ pc' = "after"
    BY <1>9 DEF Run, ghostVars
  <2> QED BY <1>1, <1>2, <2>1 DEF Places
<1>10. CASE ReadAfter
  <2>1. /\ UNCHANGED <<pass, ok, bench, disturbs>>
        /\ \/ i < W /\ i' = i + 1 /\ pc' = "after"
           \/ i' = 1 /\ pc' \in {"medians", "before"}
    BY <1>10 DEF ReadAfter, W
  <2> QED BY <1>1, <1>2, <1>4, <2>1 DEF Places
<1>11. CASE Medians
  <2>1. pc = "medians" /\ i = 1
    BY <1>11 DEF Medians, PlaceInv
  <2>2. /\ UNCHANGED <<pass, i, ok, disturbs>>
        /\ \/ bench' = 1 /\ pc' = "warmup"
           \/ bench # 0 /\ bench' = bench /\ pc' = "print"
    BY <1>11 DEF Medians
  <2> QED BY <1>1, <1>2, <2>1, <2>2 DEF Places
<1>12. CASE PrintRow
  <2>1. /\ UNCHANGED <<pass, i, ok, disturbs>> /\ i = 1
        /\ \/ bench < M /\ bench' = bench + 1 /\ pc' = "warmup"
           \/ bench' = bench /\ pc' = "close"
    BY <1>12 DEF PrintRow, PlaceInv, M
  <2>2. bench' \in 0..M
    BY <1>1, <2>1
  <2> QED BY <1>1, <1>2, <2>1, <2>2 DEF Places
<1>13. CASE Interrupt \/ Evict
  <2>1. /\ disturbs < MaxDisturb /\ disturbs' = disturbs + 1
        /\ pc # "open" /\ UNCHANGED <<pass, pc, i, ok, bench>>
    BY <1>13 DEF Interrupt, Evict, Sampling, Measuring
  <2>2. disturbs' \in 0..MaxDisturb
    BY <1>1, <2>1
  <2>3. /\ pc' \in Places
        /\ pc' \in {"warmup", "run", "medians", "print"} => i' = 1
        /\ pc' = "print" => bench' # 0
    BY <2>1 DEF PlaceInv
  <2> QED BY <1>1, <1>2, <2>1, <2>2, <2>3
<1>14. CASE UNCHANGED vars
  <2>1. UNCHANGED <<pass, pc, i, ok, bench, disturbs>>
    BY <1>14 DEF vars, ghostVars
  <2>2. /\ pc' \in Places
        /\ pc' = "open" => bench' = 0 /\ disturbs' = 0
        /\ pc' \in {"warmup", "run", "medians", "print"} => i' = 1
        /\ pc' = "print" => bench' # 0
    BY <2>1 DEF PlaceInv
  <2> QED BY <1>1, <1>2, <2>1, <2>2
<1> QED BY <1>5, <1>6, <1>7, <1>8, <1>9, <1>10, <1>11, <1>12, <1>13, <1>14 DEF Next

-------------------------------------------------------------------------------
(* Descriptors. *)

\* There is always a free descriptor, and the kernel finds it.
LEMMA FreeFdIsFree ==
  ASSUME IsFiniteSet(DOMAIN events)
  PROVE  FreeFd \in Nat /\ FreeFd \notin DOMAIN events
<1> DEFINE D == DOMAIN events
           n == Cardinality(D)
           T == (3..(3 + n)) \ D
           lowest(f) == f \notin D /\ \A g \in 3..(f - 1) : g \in D
<1>1. n \in Nat
  BY FS_CardinalityType
<1>2. T # {}
  <2>1. SUFFICES ASSUME 3..(3 + n) \subseteq D PROVE FALSE
    OBVIOUS
  <2>2. Cardinality(3..(3 + n)) <= n
    BY <2>1, FS_Subset
  <2> HIDE DEF n
  <2>3. Cardinality(3..(3 + n)) = n + 1
    <3>1. 3 \in Int /\ 3 + n \in Int /\ ~(3 > 3 + n) /\ (3 + n) - 3 + 1 = n + 1
      BY <1>1
    <3> QED BY <3>1, FS_Interval
  <2> QED BY <1>1, <2>2, <2>3
<1>3. T \in SUBSET Nat
  <2> HIDE DEF n
  <2> QED BY <1>1
<1>4. PICK f \in T : \A g \in T : f <= g
  BY <1>2, <1>3, LeastNat
<1>5. f \in 3..(3 + n) /\ lowest(f)
  <2> HIDE DEF D, n
  <2>1. f \in 3..(3 + n) /\ f \notin D
    OBVIOUS
  <2>2. ASSUME NEW g \in 3..(f - 1) PROVE g \in D
    BY <1>1, <1>4, <2>1
  <2> QED BY <2>1, <2>2
<1>6. FreeFd = CHOOSE x \in 3..(3 + n) : lowest(x)
  BY DEF FreeFd
<1> HIDE DEF lowest
<1>7. FreeFd \in 3..(3 + n) /\ lowest(FreeFd)
  BY <1>5, <1>6
<1> HIDE DEF D, n
<1> QED BY <1>1, <1>7 DEF lowest, D

LEMMA FdInit == Init => FdInv
<1> SUFFICES ASSUME Init PROVE FdInv
  OBVIOUS
<1>1. DOMAIN events = {} /\ i = 1 /\ pc = "open" /\ \A k \in Counters : fd[k] = -1
  BY DEF Init, Each
<1>2. OwnedFds
  BY <1>1 DEF OwnedFds
<1>3. fd \in [Counters -> {-1} \cup Nat] /\ rdpmcOk \in [Counters -> BOOLEAN]
  BY DEF Init, Each
<1>4. IsFiniteSet({}) /\ Cardinality({}) = 0
  BY FS_EmptySet
<1>5. \A k \in Counters : ~(k < 1)
  BY Lengths, PassType DEF Init, Counters, Width
<1> QED BY <1>1, <1>2, <1>3, <1>4, <1>5 DEF FdInv, Measuring, Sampling

LEMMA FdOpen ==
  ASSUME PlaceInv, FdInv, EventsInv, OpenCounter
  PROVE  FdInv'
<1> DEFINE D == DOMAIN events
           W == Width
<1>1. W \in Nat \ {0} /\ i \in 1..W /\ Counters = 1..W /\ Counters' = 1..W
  BY WidthType, SamePass DEF OpenCounter
<1>2. pc = "open"
  BY DEF OpenCounter
<1>3. /\ {fd[k] : k \in 1..W} \ {-1} = D
      /\ \A k, l \in 1..W : fd[k] = fd[l] => k = l \/ fd[k] = -1
      /\ fd \in [1..W -> {-1} \cup Nat]
  BY <1>1 DEF FdInv, OwnedFds
<1>4. /\ IsFiniteSet(D) /\ Cardinality(D) < i
      /\ \A k \in 1..W : IF k < i THEN ok => fd[k] # -1 ELSE fd[k] = -1
  BY <1>1, <1>2 DEF FdInv
<1>5. FreeFd \in Nat /\ FreeFd \notin D
  BY <1>4, FreeFdIsFree
<1>6. fd[i] = -1
  BY <1>1, <1>4
<1>7. Cardinality(D) \in Nat
  BY <1>4, FS_CardinalityType
<1>8. /\ OwnedFds' /\ (fd \in [Counters -> {-1} \cup Nat])' /\ IsFiniteSet(DOMAIN events')
      /\ Cardinality(DOMAIN events') <= i
      /\ \A k \in 1..W : IF k <= i THEN ok' => fd'[k] # -1 ELSE fd'[k] = -1
  <2>1. CASE events' = events /\ fd' = fd /\ ok' = FALSE
    <3>1. OwnedFds' /\ (fd \in [Counters -> {-1} \cup Nat])'
      BY <1>1, <1>3, <2>1 DEF OwnedFds
    <3>2. \A k \in 1..W : IF k <= i THEN ok' => fd'[k] # -1 ELSE fd'[k] = -1
      BY <1>1, <1>4, <2>1
    <3> QED BY <1>1, <1>4, <1>7, <2>1, <3>1, <3>2
  <2>2. CASE /\ DOMAIN events' = D \cup {FreeFd}
             /\ fd' = [fd EXCEPT ![i] = FreeFd] /\ ok' = ok
    <3> DEFINE F == FreeFd
    <3> HIDE DEF F, D
    <3>1. F \in Nat /\ F \notin D /\ F # -1 /\ DOMAIN events' = D \cup {F}
      BY <1>5, <2>2 DEF F, D
    <3>2. /\ fd' \in [1..W -> {-1} \cup Nat]
          /\ \A k \in 1..W : fd'[k] = IF k = i THEN F ELSE fd[k]
      BY <1>3, <2>2, <3>1 DEF F
    <3>3. \A k \in 1..W : fd[k] # F
      BY <1>3, <3>1
    <3>4. {fd'[k] : k \in 1..W} \ {-1} = D \cup {F}
      BY <1>1, <1>3, <1>6, <3>1, <3>2
    <3>5. \A k, l \in 1..W : fd'[k] = fd'[l] => k = l \/ fd'[k] = -1
      BY <1>3, <3>2, <3>3
    <3>6. IsFiniteSet(D \cup {F}) /\ Cardinality(D \cup {F}) = Cardinality(D) + 1
      BY <1>4, <3>1, FS_AddElement
    <3>7. \A k \in 1..W : IF k <= i THEN ok' => fd'[k] # -1 ELSE fd'[k] = -1
      BY <1>1, <1>4, <2>2, <3>1, <3>2
    <3>8. Cardinality(DOMAIN events') <= i
      BY <1>1, <1>4, <1>7, <3>1, <3>6
    <3> QED BY <1>1, <3>1, <3>2, <3>4, <3>5, <3>6, <3>7, <3>8 DEF OwnedFds
  <2>3. \/ events' = events /\ fd' = fd /\ ok' = FALSE
        \/ /\ DOMAIN events' = D \cup {FreeFd}
           /\ fd' = [fd EXCEPT ![i] = FreeFd] /\ ok' = ok
    <3>1. [fd EXCEPT ![i] = -1] = fd
      BY <1>1, <1>3, <1>6
    <3> QED BY <3>1 DEF OpenCounter, FdAfterFailedMmap, counterVars
  <2> QED BY <2>1, <2>2, <2>3
<1>9. (rdpmcOk \in [Counters -> BOOLEAN])'
  <2>1. rdpmcOk \in [1..W -> BOOLEAN]
    BY <1>1 DEF FdInv
  <2>2. \/ rdpmcOk' = rdpmcOk
        \/ \E b : rdpmcOk' = [rdpmcOk EXCEPT ![i] = b] /\ b \in BOOLEAN
    <3>1. capRdpmc \in BOOLEAN /\ NewEvent.on \in BOOLEAN /\ Passes[pass].system \in BOOLEAN
      BY PassType DEF PlaceInv, EventsInv, NewEvent
    <3> QED BY <3>1 DEF OpenCounter, counterVars
  <2> QED BY <1>1, <2>1, <2>2
<1>10. CASE i < W /\ i' = i + 1 /\ pc' = pc
  <2>1. Cardinality(DOMAIN events') \in Nat
    BY <1>8, FS_CardinalityType
  <2>2. Cardinality(DOMAIN events') < i'
    BY <1>1, <1>8, <1>10, <2>1
  <2>3. \A k \in 1..W : IF k < i' THEN ok' => fd'[k] # -1 ELSE fd'[k] = -1
    BY <1>1, <1>8, <1>10
  <2> QED BY <1>1, <1>2, <1>8, <1>9, <1>10, <2>2, <2>3 DEF FdInv, Measuring, Sampling
<1>11. CASE i = W /\ i' = 1 /\ pc' = IF ok' THEN "warmup" ELSE "close"
  <2>1. \A k \in 1..W : ok' => fd'[k] # -1
    BY <1>1, <1>8, <1>11
  <2>2. \A k \in 1..W : ~(k < i')
    BY <1>1, <1>11
  <2> QED BY <1>1, <1>8, <1>9, <1>11, <2>1, <2>2 DEF FdInv, Measuring, Sampling
<1> QED BY <1>10, <1>11 DEF OpenCounter, W

LEMMA FdClose ==
  ASSUME PlaceInv, FdInv, CloseCounter
  PROVE  FdInv'
<1> DEFINE D == DOMAIN events
           W == Width
           fd2 == [fd EXCEPT ![i] = -1]
<1>1. W \in Nat \ {0} /\ i \in 1..W /\ Counters = 1..W
  BY WidthType
<1>2. pc = "close"
  BY DEF CloseCounter
<1>3. /\ {fd[k] : k \in 1..W} \ {-1} = D
      /\ \A k, l \in 1..W : fd[k] = fd[l] => k = l \/ fd[k] = -1
      /\ fd \in [1..W -> {-1} \cup Nat]
  BY <1>1 DEF FdInv, OwnedFds
<1>4. IsFiniteSet(D) /\ \A k \in 1..W : k < i => fd[k] = -1
  BY <1>1, <1>2 DEF FdInv
<1>5. DOMAIN events' = D \ {fd[i]}
  <2>1. CASE fd[i] >= 0
    BY <2>1 DEF CloseCounter, EventsAfterClose, CloseFd
  <2>2. CASE ~(fd[i] >= 0)
    <3>1. fd[i] = -1
      BY <1>1, <1>3, <2>2
    <3>2. -1 \notin D
      BY <1>3
    <3>3. DOMAIN events' = D
      BY <2>2 DEF CloseCounter
    <3> QED BY <3>1, <3>2, <3>3
  <2> QED BY <2>1, <2>2
<1>6. IsFiniteSet(DOMAIN events')
  <2>1. D \ {fd[i]} \in SUBSET D
    OBVIOUS
  <2> QED BY <1>4, <1>5, <2>1, FS_Subset
<1> HIDE DEF D
<1>7. /\ fd2 \in [1..W -> {-1} \cup Nat]
      /\ \A k \in 1..W : fd2[k] = IF k = i THEN -1 ELSE fd[k]
  BY <1>1, <1>3
<1> HIDE DEF fd2
<1>8. /\ {fd2[k] : k \in 1..W} \ {-1} = DOMAIN events'
      /\ \A k, l \in 1..W : fd2[k] = fd2[l] => k = l \/ fd2[k] = -1
  <2>1. \A x \in D \ {fd[i]} : \E k \in 1..W : fd2[k] = x
    BY <1>1, <1>3, <1>7
  <2>2. -1 \notin D
    BY <1>3
  <2>3. ASSUME NEW k \in 1..W, fd2[k] # -1 PROVE fd2[k] \in D \ {fd[i]}
    <3>1. k # i /\ fd2[k] = fd[k] /\ fd[k] \in D
      BY <1>3, <1>7, <2>3
    <3>2. fd[k] # fd[i]
      BY <1>1, <1>3, <2>3, <3>1
    <3> QED BY <3>1, <3>2
  <2>4. {fd2[k] : k \in 1..W} \ {-1} = D \ {fd[i]}
    BY <2>1, <2>2, <2>3
  <2>5. \A k, l \in 1..W : fd2[k] = fd2[l] => k = l \/ fd2[k] = -1
    BY <1>3, <1>7
  <2> QED BY <1>5, <2>4, <2>5
<1>9. \A k \in 1..W : k <= i => fd2[k] = -1
  BY <1>1, <1>4, <1>7
<1>10. CASE i < W /\ i' = i + 1 /\ fd' = fd2 /\ UNCHANGED <<pass, pc, rdpmcOk>>
  <2>1. Counters' = 1..W
    BY <1>1, <1>10, SamePass
  <2>2. \A k \in 1..W : k < i' => fd'[k] = -1
    BY <1>1, <1>9, <1>10
  <2> QED BY <1>1, <1>2, <1>6, <1>7, <1>8, <1>10, <2>1, <2>2
          DEF FdInv, OwnedFds, Measuring, Sampling
<1>11. CASE /\ i = W /\ pc' = "open" /\ i' = 1
            /\ pass' \in 1..Len(Passes) /\ fd' = [k \in 1..Passes[pass'].width |-> -1]
            /\ rdpmcOk' = [k \in 1..Passes[pass'].width |-> FALSE]
  <2>1. DOMAIN events' = {}
    <3>1. \A k \in 1..W : fd2[k] = -1
      BY <1>1, <1>9, <1>11
    <3> QED BY <1>8, <3>1
  <2>2. Counters' = 1..Passes[pass'].width
    BY DEF Counters, Width
  <2>3. /\ (fd \in [Counters -> {-1} \cup Nat])' /\ (rdpmcOk \in [Counters -> BOOLEAN])'
        /\ \A k \in Counters' : fd'[k] = -1
    BY <1>11, <2>2
  <2>4. OwnedFds'
    BY <2>1, <2>3 DEF OwnedFds
  <2>5. \A k \in Counters' : ~(k < i')
    BY <1>11, <2>2, PassType
  <2>6. Cardinality(DOMAIN events') = 0
    BY <2>1, FS_EmptySet
  <2>7. pc' = "open" /\ Cardinality(DOMAIN events') < i'
    BY <1>11, <2>6
  <2>8. \A k \in Counters' : IF k < i' THEN ok' => fd'[k] # -1 ELSE fd'[k] = -1
    BY <2>3, <2>5
  <2> QED BY <1>6, <2>3, <2>4, <2>7, <2>8 DEF FdInv, Measuring, Sampling
<1>12. CASE i = W /\ pc' = "done" /\ fd' = fd2 /\ UNCHANGED <<pass, rdpmcOk>>
  <2>1. Counters' = 1..W
    BY <1>1, <1>12, SamePass
  <2>2. \A k \in 1..W : fd'[k] = -1
    BY <1>1, <1>9, <1>12
  <2> QED BY <1>1, <1>6, <1>7, <1>8, <1>12, <2>1, <2>2
          DEF FdInv, OwnedFds, Measuring, Sampling
<1>13. pass < Len(Passes) => pass + 1 \in 1..Len(Passes)
  BY Lengths DEF PlaceInv
<1> QED BY <1>10, <1>11, <1>12, <1>13 DEF CloseCounter, W, fd2

LEMMA FdStep ==
  ASSUME PlaceInv, FdInv, EventsInv, [Next]_vars
  PROVE  FdInv'
<1>1. ASSUME DOMAIN events' = DOMAIN events, UNCHANGED <<pass, fd, rdpmcOk>>,
             \/ Measuring /\ (Measuring' \/ (pc' = "close" /\ i' = 1))
             \/ UNCHANGED <<pc, i, ok>>
      PROVE  FdInv'
  <2>1. Counters' = Counters /\ fd' = fd /\ rdpmcOk' = rdpmcOk
    BY <1>1, SamePass
  <2>2. /\ OwnedFds' /\ (fd \in [Counters -> {-1} \cup Nat])'
        /\ (rdpmcOk \in [Counters -> BOOLEAN])' /\ IsFiniteSet(DOMAIN events')
    BY <1>1, <2>1 DEF FdInv, OwnedFds
  <2>3. CASE Measuring /\ (Measuring' \/ (pc' = "close" /\ i' = 1))
    <3>1. \A k \in Counters : ~(k < 1)
      BY WidthType
    <3>2. \A k \in Counters : fd[k] # -1
      BY <2>3 DEF FdInv
    <3> QED BY <2>1, <2>2, <2>3, <3>1, <3>2 DEF FdInv, Measuring, Sampling
  <2>4. CASE UNCHANGED <<pc, i, ok>>
    BY <1>1, <2>1, <2>2, <2>4 DEF FdInv, Measuring, Sampling
  <2> QED BY <1>1, <2>3, <2>4
<1>2. \A n : DOMAIN CountAll(n) = DOMAIN events
  BY DEF CountAll
<1>3. CASE Warmup \/ ReadBefore \/ Run
  <2>1. /\ UNCHANGED <<pass, fd, rdpmcOk>> /\ DOMAIN events' = DOMAIN events
        /\ Measuring /\ Measuring'
    BY <1>2, <1>3 DEF Warmup, ReadBefore, Run, counterVars, Measuring, Sampling
  <2> QED BY <1>1, <2>1
<1>4. CASE ReadAfter
  <2>1. /\ UNCHANGED <<pass, fd, rdpmcOk>> /\ DOMAIN events' = DOMAIN events
        /\ pc = "after" /\ pc' \in {"before", "after", "medians"}
    BY <1>2, <1>4 DEF ReadAfter, counterVars
  <2>2. Measuring /\ Measuring'
    BY <2>1 DEF Measuring, Sampling
  <2> QED BY <1>1, <2>1, <2>2
<1>5. CASE Medians
  <2>1. /\ UNCHANGED <<pass, fd, rdpmcOk, events>>
        /\ pc = "medians" /\ pc' \in {"warmup", "print"}
    BY <1>5 DEF Medians, kernelVars, counterVars
  <2>2. Measuring /\ Measuring'
    BY <2>1 DEF Measuring, Sampling
  <2> QED BY <1>1, <2>1, <2>2
<1>6. CASE PrintRow
  <2>1. /\ UNCHANGED <<pass, fd, rdpmcOk, events>>
        /\ pc = "print" /\ i' = i /\ i = 1 /\ pc' \in {"warmup", "close"}
    BY <1>6 DEF PrintRow, kernelVars, counterVars, PlaceInv
  <2>2. Measuring /\ (Measuring' \/ (pc' = "close" /\ i' = 1))
    BY <2>1 DEF Measuring, Sampling
  <2> QED BY <1>1, <2>1, <2>2
<1>7. CASE Interrupt
  BY <1>1, <1>2, <1>7 DEF Interrupt, counterVars
<1>8. CASE Evict
  BY <1>1, <1>8 DEF Evict, counterVars
<1>9. CASE UNCHANGED vars
  BY <1>1, <1>9 DEF vars, kernelVars, counterVars
<1> QED BY <1>3, <1>4, <1>5, <1>6, <1>7, <1>8, <1>9, FdOpen, FdClose DEF Next

-------------------------------------------------------------------------------
(* Events. *)

Event == [on : BOOLEAN, system : BOOLEAN, total : Nat]

\* What counting does to an event.
LEMMA Counted ==
  ASSUME EventsInv, NEW n \in Nat, NEW f \in DOMAIN events
  PROVE  /\ f \in DOMAIN CountAll(n) /\ CountAll(n)[f] \in Event
         /\ CountAll(n)[f].on = events[f].on
         /\ events[f].on => CountAll(n)[f].total = events[f].total + n
<1>1. ASSUME NEW e \in Event, NEW c, c = IF e.on THEN [e EXCEPT !.total = @ + n] ELSE e
      PROVE  c \in Event /\ c.on = e.on /\ (e.on => c.total = e.total + n)
  BY <1>1 DEF Event
<1>2. events[f] \in Event
  BY DEF EventsInv, Event
<1>3. f \in DOMAIN CountAll(n)
      /\ CountAll(n)[f] = IF events[f].on THEN [events[f] EXCEPT !.total = @ + n] ELSE events[f]
  BY DEF CountAll
<1> QED BY <1>1, <1>2, <1>3, Zenon

LEMMA EventsInit == Init => EventsInv
<1> SUFFICES ASSUME Init PROVE EventsInv
  OBVIOUS
<1>1. DOMAIN events = {} /\ others \in Others /\ capRdpmc \in BOOLEAN
  BY DEF Init
<1> QED BY <1>1 DEF EventsInv

\* A counter of the pass finds a register.
LEMMA RegisterFree ==
  ASSUME PlaceInv, FdInv, EventsInv, pc = "open"
  PROVE  NewEvent \in Event /\ NewEvent.on
<1> DEFINE D == DOMAIN events
           used == {f \in D : events[f].on /\ ~events[f].system}
           W == Width
<1>1. pass \in 1..Len(Passes) /\ others \in Others /\ others \in Nat /\ NumRegs \in Nat
  BY ConstantTypes DEF PlaceInv, EventsInv
<1>2. W \in Nat \ {0} /\ i \in 1..W
  BY WidthType
<1>3. IsFiniteSet(D) /\ Cardinality(D) < i
  BY DEF FdInv
<1>4. Cardinality(D) \in Nat /\ Cardinality(used) \in Nat /\ Cardinality(used) <= Cardinality(D)
  <2>1. used \in SUBSET D
    OBVIOUS
  <2> HIDE DEF used, D
  <2> QED BY <1>3, <2>1, FS_Subset, FS_CardinalityType
<1>5. Passes[pass].system \in BOOLEAN
  BY <1>1, PassType
<1>6. Passes[pass].system \/ W + others <= NumRegs
  BY <1>1, RegistersAssumption DEF Width
<1>7. InUse = others + Cardinality(used)
  BY DEF InUse
<1> HIDE DEF D, used, W
<1>8. Passes[pass].system \/ InUse < NumRegs
  BY <1>1, <1>2, <1>3, <1>4, <1>6, <1>7
<1> QED BY <1>5, <1>8 DEF NewEvent, Event

LEMMA EventsStep ==
  ASSUME PlaceInv, FdInv, EventsInv, [Next]_vars
  PROVE  EventsInv'
<1>1. /\ others \in Others /\ capRdpmc \in BOOLEAN
      /\ \A f \in DOMAIN events : events[f] \in Event
      /\ disturbs = 0 => \A f \in DOMAIN events : events[f].on
  BY DEF EventsInv, Event
<1>2. others' = others /\ capRdpmc' = capRdpmc
  BY DEF Next, OpenCounter, CloseCounter, Warmup, ReadBefore, Run, ReadAfter, Medians, PrintRow,
         Interrupt, Evict, vars, kernelVars
<1>3. SUFFICES /\ \A f \in DOMAIN events' : events'[f] \in Event
               /\ disturbs' = 0 => \A f \in DOMAIN events' : events'[f].on
  BY <1>1, <1>2 DEF EventsInv, Event
<1>4. ASSUME NEW n \in Nat, events' = CountAll(n), disturbs' = 0 => disturbs = 0
      PROVE  /\ \A f \in DOMAIN events' : events'[f] \in Event
             /\ disturbs' = 0 => \A f \in DOMAIN events' : events'[f].on
  <2>1. DOMAIN events' = DOMAIN events
    BY <1>4 DEF CountAll
  <2> QED BY <1>1, <1>4, <2>1, Counted
<1>5. CASE OpenCounter
  <2>1. /\ disturbs' = disturbs
        /\ \/ events' = events
           \/ events' = [f \in DOMAIN events \cup {FreeFd} |->
                           IF f = FreeFd THEN NewEvent ELSE events[f]]
    BY <1>5 DEF OpenCounter, ghostVars
  <2>2. NewEvent \in Event /\ NewEvent.on
    BY <1>5, RegisterFree DEF OpenCounter
  <2> QED BY <1>1, <2>1, <2>2
<1>6. CASE CloseCounter
  <2>1. events' = events \/ events' = CloseFd(fd[i])
    BY <1>6 DEF CloseCounter, EventsAfterClose
  <2>2. \/ disturbs' = disturbs
        \/ /\ fd' = [k \in 1..Passes[pass + 1].width |-> -1] /\ pass' = pass + 1
    BY <1>6 DEF CloseCounter, ghostVars
  <2>3. CASE disturbs' = disturbs
    BY <1>1, <2>1, <2>3 DEF CloseFd
  <2>4. CASE /\ fd' = [k \in 1..Passes[pass + 1].width |-> -1]
             /\ pass' = pass + 1
    <3>1. \A k \in Counters' : fd'[k] = -1
      BY <2>4 DEF Counters, Width
    <3>2. FdInv'
      BY <1>6, FdClose
    <3>3. DOMAIN events' = {}
      BY <3>1, <3>2 DEF FdInv, OwnedFds
    <3> QED BY <3>3
  <2> QED BY <2>2, <2>3, <2>4
<1>7. CASE ReadBefore \/ ReadAfter
  <2>1. ReadCost[Way(i)] \in Nat
    BY ConstantTypes DEF Way, Ways
  <2>2. events' = CountAll(ReadCost[Way(i)]) /\ disturbs' = disturbs
    BY <1>7 DEF ReadBefore, ReadAfter
  <2> QED BY <1>4, <2>1, <2>2
<1>8. CASE Run \/ Warmup
  <2>1. /\ disturbs' = disturbs
        /\ events' = CountAll(CallCost) \/ events' = CountAll(WarmupCalls * CallCost)
    BY <1>8 DEF Run, Warmup, ghostVars
  <2> QED BY <1>4, <2>1, CallCostType
<1>9. CASE Medians \/ PrintRow
  <2>1. events' = events /\ disturbs' = disturbs
    BY <1>9 DEF Medians, PrintRow, kernelVars
  <2> QED BY <1>1, <2>1
<1>10. CASE Interrupt \/ Evict
  <2>1. disturbs' = disturbs + 1 /\ disturbs \in 0..MaxDisturb /\ MaxDisturb \in Nat
    BY <1>10, ConstantTypes DEF Interrupt, Evict, PlaceInv
  <2>2. disturbs' # 0
    BY <2>1
  <2>3. CASE Interrupt
    BY <1>4, <2>2, <2>3, ConstantTypes DEF Interrupt
  <2>4. CASE Evict
    <3>1. PICK k \in Counters : events' = [events EXCEPT ![fd[k]].on = FALSE]
      BY <2>4 DEF Evict
    <3>2. \A f \in DOMAIN events : [events[f] EXCEPT !.on = FALSE] \in Event
      BY <1>1 DEF Event
    <3>3. \A f \in DOMAIN events' : events'[f] \in Event
      BY <1>1, <3>1, <3>2
    <3> QED BY <2>2, <3>3
  <2> QED BY <1>10, <2>3, <2>4
<1>11. CASE UNCHANGED vars
  <2>1. events' = events /\ disturbs' = disturbs
    BY <1>11 DEF vars, kernelVars, ghostVars
  <2> QED BY <1>1, <2>1
<1> QED BY <1>5, <1>6, <1>7, <1>8, <1>9, <1>10, <1>11 DEF Next

-------------------------------------------------------------------------------
(* Samples. *)

Words == 0..(WordSize - 1)

SampleTypes ==
  /\ before \in [Counters -> Words] /\ after \in [Counters -> Words]
  /\ deltas \in [Counters -> Seq(Words)]
  /\ empties \in [Counters -> Int] /\ result \in [Counters -> Int]
  /\ bad \in [Counters -> SUBSET (1..Samples)] /\ badEmpty \in [Counters -> SUBSET (1..Samples)]
  /\ started \in [Counters -> Nat]
  /\ ways \in Seq([Counters -> Ways]) /\ waysEmpty \in Seq([Counters -> Ways])

SampleLengths ==
  \A k \in Counters :
    /\ Len(deltas[k]) = Len(deltas[1])
    /\ Sampling => Len(deltas[k]) < Samples
    /\ pc = "medians" => Len(deltas[k]) = Samples
    /\ ~Sampling /\ pc # "medians" => deltas[k] = <<>>

WaysLengths ==
  /\ pc # "print" => Len(ways) = Len(deltas[1])
  /\ pc = "print" => Len(ways) = Samples
  /\ bench # 0 => Len(waysEmpty) = Samples

LEMMA SamplesParts == SamplesInv <=> SampleTypes /\ SampleLengths /\ WaysLengths
BY DEF SamplesInv, SampleTypes, SampleLengths, WaysLengths, Words

LEMMA WayType == \A k : Way(k) \in Ways /\ ReadCost[Way(k)] \in Nat
<1>1. \A k : Way(k) \in Ways
  BY DEF Way, Ways
<1> QED BY <1>1, ConstantTypes

LEMMA ModulusType == \A k : Modulus(k) \in Nat \ {0} /\ Modulus(k) <= WordSize
BY ConstantTypes DEF Modulus

\* The event behind a counter that is open, and what reading it returns.
LEMMA ReadType ==
  ASSUME PlaceInv, FdInv, EventsInv, NEW k \in Counters, Measuring
  PROVE  fd[k] \in DOMAIN events /\ events[fd[k]] \in Event /\ Read(k) \in Words
<1>1. fd[k] # -1 /\ fd[k] \in {fd[l] : l \in Counters} \ {-1}
  BY DEF FdInv
<1>2. fd[k] \in DOMAIN events
  BY <1>1 DEF FdInv, OwnedFds
<1>3. events[fd[k]] \in Event
  BY <1>2 DEF EventsInv, Event
<1>4. events[fd[k]].total \in Int
  BY <1>3 DEF Event
<1>5. 0 \in Words
  BY ConstantTypes DEF Words
<1>6. \A t \in Int : t % Modulus(k) \in Words
  <2>1. ASSUME NEW m \in Nat \ {0}, m <= WordSize, NEW t \in Int PROVE t % m \in Words
    <3>1. t % m \in 0..(m - 1)
      BY DivMod
    <3>2. \A r \in 0..(m - 1) : r \in Words
      BY <2>1, ConstantTypes DEF Words
    <3> QED BY <3>1, <3>2
  <2> QED BY <2>1, ModulusType
<1> QED BY <1>2, <1>3, <1>4, <1>5, <1>6 DEF Read

\* While samples are taken, there is one more to take.
LEMMA SampleNumber ==
  ASSUME PlaceInv, SampleTypes, SampleLengths, Sampling
  PROVE  Sample \in 1..Samples /\ Len(deltas[1]) \in Nat /\ Sample = Len(deltas[1]) + 1
<1>1. 1 \in Counters
  BY WidthType
<1>2. deltas[1] \in Seq(Words) /\ Len(deltas[1]) < Samples
  BY <1>1 DEF SampleTypes, SampleLengths
<1> DEFINE n == Len(deltas[1])
<1>3. n \in Nat /\ n < Samples /\ Samples \in Nat /\ Sample = n + 1
  BY <1>2, ConstantTypes DEF Sample
<1> HIDE DEF n
<1>4. Sample \in 1..Samples
  BY <1>3
<1> QED BY <1>3, <1>4 DEF n

LEMMA SamplesInit == Init => SampleTypes /\ SampleLengths /\ WaysLengths
<1> SUFFICES ASSUME Init PROVE SampleTypes /\ SampleLengths /\ WaysLengths
  OBVIOUS
<1>1. 0 \in Words
  BY ConstantTypes DEF Words
<1>2. SampleTypes
  <2>1. <<>> \in Seq([Counters -> Ways])
    OBVIOUS
  <2> QED BY <1>1, <2>1 DEF Init, Each, SampleTypes
<1>3. 1 \in Counters
  BY Lengths, PassType DEF Init, Counters, Width
<1>4. \A k \in Counters : deltas[k] = <<>>
  BY DEF Init, Each
<1>5. pc = "open" /\ ways = <<>> /\ bench = 0
  BY DEF Init
<1> QED BY <1>2, <1>3, <1>4, <1>5 DEF SampleLengths, WaysLengths, Sampling

LEMMA SampleTypesStep ==
  ASSUME PlaceInv, FdInv, EventsInv, SampleTypes, SampleLengths, [Next]_vars
  PROVE  SampleTypes'
<1> DEFINE C == Counters
           B == SUBSET (1..Samples)
           Q == Seq([C -> Ways])
<1>1. /\ before \in [C -> Words] /\ after \in [C -> Words] /\ deltas \in [C -> Seq(Words)]
      /\ empties \in [C -> Int] /\ result \in [C -> Int]
      /\ bad \in [C -> B] /\ badEmpty \in [C -> B]
      /\ started \in [C -> Nat] /\ ways \in Q /\ waysEmpty \in Q
  BY DEF SampleTypes
<1>2. 0 \in Words /\ WordSize \in Nat \ {0}
  BY ConstantTypes DEF Words
<1>3. ASSUME pass' = pass,
             before' \in [C -> Words], after' \in [C -> Words], deltas' \in [C -> Seq(Words)],
             empties' \in [C -> Int], result' \in [C -> Int],
             bad' \in [C -> B], badEmpty' \in [C -> B],
             started' \in [C -> Nat], ways' \in Q, waysEmpty' \in Q
      PROVE  SampleTypes'
  <2>1. Counters' = C /\ Words' = Words
    BY <1>3, SamePass DEF Words
  <2> QED BY <1>3, <2>1 DEF SampleTypes
<1>4. Each({}) \in [C -> B] /\ Each(<<>>) \in [C -> Seq(Words)] /\ Each(0) \in [C -> Int]
      /\ Each(0) \in [C -> Nat] /\ <<>> \in Q
  BY DEF Each
<1> HIDE DEF C, B, Q
<1>5. CASE pass' = pass /\ UNCHANGED <<sampleVars, ghostVars>>
  BY <1>1, <1>3, <1>5 DEF sampleVars, ghostVars
<1>6. CASE OpenCounter \/ Warmup \/ Run
  BY <1>5, <1>6 DEF OpenCounter, Warmup, Run
<1>7. CASE CloseCounter
  <2>1. CASE /\ before' = [k \in 1..Passes[pass'].width |-> 0]
             /\ after' = [k \in 1..Passes[pass'].width |-> 0]
             /\ deltas' = [k \in 1..Passes[pass'].width |-> <<>>]
             /\ empties' = [k \in 1..Passes[pass'].width |-> 0]
             /\ result' = [k \in 1..Passes[pass'].width |-> 0]
             /\ bad' = [k \in 1..Passes[pass'].width |-> {}]
             /\ badEmpty' = [k \in 1..Passes[pass'].width |-> {}]
             /\ started' = [k \in 1..Passes[pass'].width |-> 0]
             /\ ways' = <<>> /\ waysEmpty' = <<>>
    <3>1. Counters' = 1..Passes[pass'].width /\ Words' = Words
      BY DEF Counters, Width, Words
    <3>2. <<>> \in Seq([Counters' -> Ways])
      OBVIOUS
    <3> QED BY <1>2, <2>1, <3>1, <3>2 DEF SampleTypes
  <2> QED BY <1>5, <1>7, <2>1 DEF CloseCounter
<1>8. CASE ReadBefore
  <2>1. Read(i) \in Words /\ events[fd[i]].total \in Nat
    <3>1. Measuring /\ i \in Counters
      BY <1>8 DEF ReadBefore, PlaceInv, Measuring, Sampling
    <3> QED BY <3>1, ReadType DEF Event
  <2>2. before' \in [C -> Words] /\ started' \in [C -> Nat]
    BY <1>1, <1>8, <2>1 DEF ReadBefore
  <2> QED BY <1>1, <1>3, <1>8, <2>2 DEF ReadBefore
<1>9. CASE ReadAfter
  <2>1. Read(i) \in Words /\ Sample \in 1..Samples
    <3>1. Sampling /\ Measuring /\ i \in Counters
      BY <1>9 DEF ReadAfter, PlaceInv, Measuring, Sampling
    <3> QED BY <3>1, ReadType, SampleNumber
  <2>2. after' \in [C -> Words]
    BY <1>1, <1>9, <2>1 DEF ReadAfter
  <2>3. \A k \in C : Delta(after'[k], before[k]) \in Words
    <3>1. \A k \in C : after'[k] - before[k] \in Int
      BY <1>1, <2>2 DEF Words
    <3> QED BY <1>2, <3>1, DivMod DEF Delta, Words
  <2>4. \/ UNCHANGED <<deltas, started, ways>>
        \/ /\ deltas' = [k \in C |-> Append(deltas[k], Delta(after'[k], before[k]))]
           /\ started' = Each(0) /\ ways' = Append(ways, [k \in C |-> Way(k)])
    BY <1>9 DEF ReadAfter, C
  <2>5. deltas' \in [C -> Seq(Words)]
    <3>1. \A k \in C : Append(deltas[k], Delta(after'[k], before[k])) \in Seq(Words)
      BY <1>1, <2>3
    <3> QED BY <1>1, <2>4, <3>1
  <2>6. started' \in [C -> Nat]
    BY <1>1, <1>4, <2>4
  <2>7. ways' \in Q
    <3>1. [k \in C |-> Way(k)] \in [C -> Ways]
      BY WayType
    <3>2. Append(ways, [k \in C |-> Way(k)]) \in Q
      BY <1>1, <3>1, AppendProperties DEF Q
    <3> QED BY <1>1, <2>4, <3>2
  <2>8. bad' \in [C -> B]
    <3>1. bad' = bad \/ bad' = [bad EXCEPT ![i] = @ \cup {Sample}]
      <4>1. [bad EXCEPT ![i] = @] = bad
        BY <1>1
      <4> QED BY <1>9, <4>1 DEF ReadAfter
    <3>2. \A b \in B : b \cup {Sample} \in B
      BY <2>1 DEF B
    <3>3. bad[i] \cup {Sample} \in B
      <4>1. i \in C
        BY DEF PlaceInv, C
      <4> QED BY <1>1, <3>2, <4>1
    <3>4. \A b \in B : [bad EXCEPT ![i] = b] \in [C -> B]
      BY <1>1
    <3> QED BY <1>1, <3>1, <3>3, <3>4
  <2> QED BY <1>1, <1>3, <1>9, <2>2, <2>5, <2>6, <2>7, <2>8 DEF ReadAfter
<1>10. CASE Medians
  <2>1. \A k \in C : TwiceMedian(deltas[k]) \in Int
    <3>1. \A k \in C : Len(deltas[k]) = Samples
      BY <1>10 DEF Medians, SampleLengths, Sampling, C
    <3>2. \A k \in C : deltas[k] \in Seq(Int)
      <4>1. Words \subseteq Int
        BY <1>2 DEF Words
      <4>2. ASSUME NEW s \in Seq(Words) PROVE s \in Seq(Int)
        <5>1. PICK n \in Nat : s \in [1..n -> Words]
          BY <4>2, SeqDef
        <5>2. s \in [1..n -> Int]
          BY <4>1, <5>1
        <5> QED BY <5>2
      <4> QED BY <1>1, <4>2
    <3> QED BY <3>1, <3>2, ConstantTypes, MedianType
  <2>2. \/ empties' = [k \in C |-> TwiceMedian(deltas[k])] /\ result' = result
        \/ empties' = empties /\ result' = [k \in C |-> TwiceMedian(deltas[k]) - empties[k]]
    BY <1>10 DEF Medians, C
  <2>3. empties' \in [C -> Int] /\ result' \in [C -> Int]
    BY <1>1, <2>1, <2>2
  <2>4. deltas' \in [C -> Seq(Words)]
    BY <1>4, <1>10 DEF Medians
  <2>5. /\ bad' \in [C -> B] /\ badEmpty' \in [C -> B]
        /\ ways' \in Q /\ waysEmpty' \in Q
    BY <1>1, <1>4, <1>10 DEF Medians
  <2> QED BY <1>1, <1>3, <1>10, <2>3, <2>4, <2>5 DEF Medians
<1>11. CASE PrintRow
  <2>1. result' \in [C -> Int] /\ bad' \in [C -> B] /\ ways' \in Q
    BY <1>4, <1>11 DEF PrintRow
  <2> QED BY <1>1, <1>3, <1>11, <2>1 DEF PrintRow
<1>12. CASE Interrupt \/ Evict
  <2>1. bad' = bad \/ (Sampling /\ bad' = [k \in C |-> bad[k] \cup {Sample}])
    BY <1>12 DEF Interrupt, Evict, BadSample, C
  <2>2. Sampling => Sample \in 1..Samples
    BY SampleNumber
  <2>3. bad' \in [C -> B]
    BY <1>1, <2>1, <2>2 DEF B
  <2> QED BY <1>1, <1>3, <1>12, <2>3 DEF Interrupt, Evict, sampleVars
<1>13. CASE UNCHANGED vars
  BY <1>5, <1>13 DEF vars
<1> QED BY <1>6, <1>7, <1>8, <1>9, <1>10, <1>11, <1>12, <1>13 DEF Next

\* A counter's sequence of samples when one more is taken.
LEMMA OneMore ==
  ASSUME SampleTypes, SampleTypes', PlaceInv, ReadAfter, i = Width
  PROVE  /\ deltas' \in [Counters -> Seq(Words)]
         /\ \A k \in Counters :
              /\ Len(deltas[k]) \in Nat /\ Len(deltas'[k]) = Len(deltas[k]) + 1
              /\ deltas'[k][Len(deltas'[k])] = Delta(after'[k], before[k])
              /\ \A n \in 1..Len(deltas[k]) : deltas'[k][n] = deltas[k][n]
<1>1. deltas' = [k \in Counters |-> Append(deltas[k], Delta(after'[k], before[k]))]
  <2>1. ~(i < Width)
    BY WidthType
  <2> QED BY <2>1 DEF ReadAfter
<1>2. ASSUME NEW S, NEW s \in Seq(S), NEW d \in S
      PROVE  /\ Append(s, d) \in Seq(S) /\ Len(s) \in Nat /\ Len(Append(s, d)) = Len(s) + 1
             /\ Append(s, d)[Len(Append(s, d))] = d
             /\ \A n \in 1..Len(s) : Append(s, d)[n] = s[n]
  OBVIOUS
<1>3. \A k \in Counters : Delta(after'[k], before[k]) \in Words
  <2>1. before \in [Counters -> Words] /\ after' \in [Counters -> Words]
    BY SamePass DEF SampleTypes, ReadAfter, Words
  <2>2. \A x, y \in Words : Delta(x, y) \in Words
    <3>1. \A x, y \in Words : x - y \in Int
      BY ConstantTypes DEF Words
    <3> QED BY <3>1, ConstantTypes, DivMod DEF Delta, Words
  <2> QED BY <2>1, <2>2
<1>4. \A k \in Counters : deltas[k] \in Seq(Words)
  BY DEF SampleTypes
<1> QED BY <1>1, <1>2, <1>3, <1>4

LEMMA SampleLengthsStep ==
  ASSUME PlaceInv, PlaceInv', FdInv, EventsInv, SampleTypes, SampleTypes', SampleLengths,
         [Next]_vars
  PROVE  SampleLengths'
<1>1. 1 \in Counters /\ 1 \in Counters'
  <2>1. Width' \in Nat \ {0} /\ Counters' = 1..Width'
    BY PassType DEF PlaceInv, Width, Counters
  <2> QED BY <2>1, WidthType
<1>2. ASSUME \A k \in Counters' : deltas'[k] = <<>>, pc' # "medians"
      PROVE  SampleLengths'
  <2>1. Len(<<>>) = 0 /\ 0 < Samples
    BY ConstantTypes
  <2> QED BY <1>1, <1>2, <2>1 DEF SampleLengths
<1>3. ASSUME pass' = pass, deltas' = deltas,
             pc' = pc \/ (Sampling /\ pc' \in {"before", "run", "after"})
      PROVE  SampleLengths'
  <2>1. Counters' = Counters
    BY <1>3, SamePass
  <2>2. Sampling' = Sampling /\ (pc' = "medians" <=> pc = "medians")
    BY <1>3 DEF Sampling
  <2> QED BY <1>3, <2>1, <2>2 DEF SampleLengths
<1>4. ASSUME pass' = pass, deltas' = deltas, pc \in {"open", "warmup", "print", "close"},
             pc' # "medians"
      PROVE  SampleLengths'
  <2>1. Counters' = Counters
    BY <1>4, SamePass
  <2>2. \A k \in Counters : deltas[k] = <<>>
    BY <1>4 DEF SampleLengths, Sampling
  <2> QED BY <1>2, <1>4, <2>1, <2>2
<1>5. CASE OpenCounter
  <2>1. pc = "open" /\ pc' # "medians" /\ pass' = pass /\ deltas' = deltas
    BY <1>5 DEF OpenCounter, sampleVars
  <2> QED BY <1>4, <2>1
<1>6. CASE CloseCounter
  <2>1. CASE pc' = "open" /\ deltas' = [k \in 1..Passes[pass'].width |-> <<>>]
    <3>1. \A k \in Counters' : deltas'[k] = <<>>
      BY <2>1 DEF Counters, Width
    <3> QED BY <1>2, <2>1, <3>1
  <2>2. CASE pc' \in {"close", "done"} /\ pass' = pass /\ deltas' = deltas
    <3>1. pc = "close"
      BY <1>6 DEF CloseCounter
    <3> QED BY <1>4, <2>2, <3>1
  <2>3. \/ pc' \in {"close", "done"} /\ pass' = pass /\ deltas' = deltas
        \/ pc' = "open" /\ deltas' = [k \in 1..Passes[pass'].width |-> <<>>]
    BY <1>6 DEF CloseCounter, sampleVars
  <2> QED BY <2>1, <2>2, <2>3
<1>7. CASE Warmup
  <2>1. pc = "warmup" /\ pc' = "before" /\ pass' = pass /\ deltas' = deltas
    BY <1>7 DEF Warmup, sampleVars
  <2> QED BY <1>4, <2>1
<1>8. CASE ReadBefore \/ Run \/ Interrupt \/ Evict
  <2>1. /\ pass' = pass /\ deltas' = deltas
        /\ pc' = pc \/ (Sampling /\ pc' \in {"before", "run", "after"})
    BY <1>8 DEF ReadBefore, Run, Interrupt, Evict, Sampling, sampleVars
  <2> QED BY <1>3, <2>1
<1>9. CASE ReadAfter
  <2>1. CASE pass' = pass /\ pc' = pc /\ deltas' = deltas
    BY <1>3, <2>1
  <2>2. CASE /\ i = Width /\ pass' = pass
             /\ pc' = IF Len(deltas'[1]) = Samples THEN "medians" ELSE "before"
    <3>1. \A k \in Counters : /\ Len(deltas[k]) \in Nat
                              /\ Len(deltas'[k]) = Len(deltas[k]) + 1
                              /\ Len(deltas[k]) = Len(deltas[1]) /\ Len(deltas[k]) < Samples
      BY <1>9, <2>2, OneMore DEF SampleLengths, Sampling, ReadAfter
    <3>2. /\ Len(deltas'[1]) <= Samples
          /\ \A k \in Counters : Len(deltas'[k]) = Len(deltas'[1]) /\ Len(deltas'[1]) \in Nat
      <4> DEFINE m(k) == Len(deltas[k])
                 n(k) == Len(deltas'[k])
      <4>1. \A k \in Counters : m(k) \in Nat /\ n(k) = m(k) + 1 /\ m(k) = m(1) /\ m(k) < Samples
        BY <3>1
      <4> HIDE DEF m, n
      <4>2. n(1) <= Samples /\ \A k \in Counters : n(k) = n(1) /\ n(1) \in Nat
        BY <1>1, <4>1, ConstantTypes
      <4> QED BY <4>2 DEF n
    <3>3. CASE Len(deltas'[1]) = Samples
      <4>1. pc' = "medians"
        BY <2>2, <3>3
      <4> QED BY <2>2, <3>2, <3>3, <4>1, SamePass DEF SampleLengths, Sampling
    <3>4. CASE Len(deltas'[1]) # Samples
      <4>1. pc' = "before"
        BY <2>2, <3>4
      <4>2. Len(deltas'[1]) < Samples
        <5> DEFINE n == Len(deltas'[1])
        <5>1. n \in Nat /\ n <= Samples /\ n # Samples
          BY <1>1, <3>2, <3>4
        <5> HIDE DEF n
        <5>2. n < Samples
          BY <5>1, ConstantTypes
        <5> QED BY <5>2 DEF n
      <4> QED BY <2>2, <3>2, <4>1, <4>2, SamePass DEF SampleLengths, Sampling
    <3> QED BY <3>3, <3>4
  <2> QED BY <1>9, <2>1, <2>2 DEF ReadAfter
<1>10. CASE Medians
  <2>1. pass' = pass /\ pc' \in {"warmup", "print"} /\ deltas' = [k \in Counters |-> <<>>]
    BY <1>10 DEF Medians, Each
  <2>2. Counters' = Counters
    BY <2>1, SamePass
  <2> QED BY <1>2, <2>1, <2>2
<1>11. CASE PrintRow
  <2>1. pc = "print" /\ pc' # "medians" /\ pass' = pass /\ deltas' = deltas
    BY <1>11 DEF PrintRow
  <2> QED BY <1>4, <2>1
<1>12. CASE UNCHANGED vars
  <2>1. pass' = pass /\ pc' = pc /\ deltas' = deltas
    BY <1>12 DEF vars, sampleVars
  <2> QED BY <1>3, <2>1
<1> QED BY <1>5, <1>6, <1>7, <1>8, <1>9, <1>10, <1>11, <1>12 DEF Next

\* The ways of the samples are kept as long as the samples.
LEMMA WaysLengthsStep ==
  ASSUME PlaceInv, SampleTypes, SampleTypes', SampleLengths, WaysLengths, [Next]_vars
  PROVE  WaysLengths'
<1>1. 1 \in Counters
  BY WidthType
<1>2. ASSUME ways' = <<>>, deltas'[1] = <<>>, pc' # "print",
             bench' # 0 => Len(waysEmpty') = Samples
      PROVE  WaysLengths'
  BY <1>2 DEF WaysLengths
<1>3. ASSUME ways' = ways, waysEmpty' = waysEmpty, deltas' = deltas, bench' = bench,
             pc' = "print" <=> pc = "print"
      PROVE  WaysLengths'
  BY <1>3 DEF WaysLengths
<1>4. CASE OpenCounter \/ Warmup \/ ReadBefore \/ Run \/ Interrupt \/ Evict
  <2>1. ways' = ways /\ waysEmpty' = waysEmpty /\ deltas' = deltas /\ bench' = bench
    BY <1>4 DEF OpenCounter, Warmup, ReadBefore, Run, Interrupt, Evict, sampleVars, ghostVars
  <2>2. pc' = "print" <=> pc = "print"
    BY <1>4 DEF OpenCounter, Warmup, ReadBefore, Run, Interrupt, Evict
  <2> QED BY <1>3, <2>1, <2>2
<1>5. CASE CloseCounter
  <2>1. CASE UNCHANGED <<bench, sampleVars, ghostVars>> /\ pc' # "print"
    <3>1. ways' = ways /\ waysEmpty' = waysEmpty /\ deltas' = deltas /\ bench' = bench
      BY <2>1 DEF sampleVars, ghostVars
    <3>2. pc # "print"
      BY <1>5 DEF CloseCounter
    <3> QED BY <1>3, <2>1, <3>1, <3>2
  <2>2. CASE /\ pass < Len(Passes) /\ pass' = pass + 1 /\ pc' = "open" /\ bench' = 0
             /\ ways' = <<>> /\ deltas' = [k \in 1..Passes[pass + 1].width |-> <<>>]
    <3>1. pass + 1 \in 1..Len(Passes)
      BY <2>2, Lengths DEF PlaceInv
    <3>2. 1 \in 1..Passes[pass + 1].width
      BY <3>1, PassType
    <3> QED BY <1>2, <2>2, <3>2
  <2>3. pc = "close"
    BY <1>5 DEF CloseCounter
  <2> QED BY <1>5, <2>1, <2>2, <2>3 DEF CloseCounter
<1>6. CASE ReadAfter
  <2>1. pc = "after" /\ pc' # "print" /\ bench' = bench /\ waysEmpty' = waysEmpty
    BY <1>6 DEF ReadAfter
  <2>2. CASE i < Width
    <3>1. ways' = ways /\ deltas' = deltas
      BY <1>6, <2>2, WidthType DEF ReadAfter
    <3> QED BY <1>3, <2>1, <3>1
  <2>3. CASE i = Width
    <3>1. ways' = Append(ways, [k \in Counters |-> Way(k)])
      <4>1. ~(i < Width)
        BY <2>3, WidthType
      <4> QED BY <1>6, <4>1 DEF ReadAfter
    <3>2. ways \in Seq([Counters -> Ways]) /\ [k \in Counters |-> Way(k)] \in [Counters -> Ways]
      BY WayType DEF SampleTypes
    <3>3. Len(ways') = Len(ways) + 1
      BY <3>1, <3>2, AppendProperties
    <3>4. Len(deltas'[1]) = Len(deltas[1]) + 1
      BY <1>1, <1>6, <2>3, OneMore
    <3> QED BY <2>1, <3>3, <3>4 DEF WaysLengths
  <2> QED BY <1>6, <2>2, <2>3 DEF ReadAfter
<1>7. CASE Medians
  <2>1. Len(ways) = Samples /\ pc = "medians" /\ deltas'[1] = <<>>
    BY <1>1, <1>7 DEF Medians, Each, WaysLengths, SampleLengths
  <2>2. CASE bench = 0
    <3>1. waysEmpty' = ways /\ ways' = <<>> /\ pc' = "warmup"
      BY <1>7, <2>2 DEF Medians
    <3> QED BY <1>2, <2>1, <3>1
  <2>3. CASE bench # 0
    <3>1. waysEmpty' = waysEmpty /\ ways' = ways /\ pc' = "print" /\ bench' = bench
      BY <1>7, <2>3 DEF Medians
    <3> QED BY <2>1, <2>3, <3>1 DEF WaysLengths
  <2> QED BY <2>2, <2>3
<1>8. CASE PrintRow
  <2>1. /\ ways' = <<>> /\ waysEmpty' = waysEmpty /\ deltas' = deltas
        /\ pc' # "print" /\ pc = "print"
    BY <1>8 DEF PrintRow
  <2>2. deltas[1] = <<>> /\ bench # 0
    BY <1>1, <2>1 DEF SampleLengths, Sampling, PlaceInv
  <2> QED BY <1>2, <2>1, <2>2 DEF WaysLengths
<1>9. CASE UNCHANGED vars
  BY <1>3, <1>9 DEF vars, sampleVars, ghostVars
<1> QED BY <1>4, <1>5, <1>6, <1>7, <1>8, <1>9 DEF Next

-------------------------------------------------------------------------------
(* What the reads of some counters cost. *)

LEMMA GoingType ==
  ASSUME NEW w, NEW S, IsFiniteSet(S), NEW way
  PROVE  IsFiniteSet({k \in S : w[k] = way}) /\ Going(w, S, way) \in Nat
<1>1. {k \in S : w[k] = way} \in SUBSET S
  OBVIOUS
<1>2. IsFiniteSet({k \in S : w[k] = way})
  BY <1>1, FS_Subset
<1> QED BY <1>2, FS_CardinalityType DEF Going

LEMMA CostTypes ==
  /\ ReadCost["rdpmc"] \in Nat /\ ReadCost["taken"] \in Nat
  /\ ReadCost["read"] \in Nat /\ ReadCost["eof"] \in Nat
BY ConstantTypes DEF Ways

LEMMA Products ==
  /\ \A m, n \in Nat : m * n \in Nat
  /\ \A m, n, c \in Nat : (m + n) * c = m * c + n * c
  /\ \A c \in Nat : 1 * c = c /\ 0 * c = 0
OBVIOUS

LEMMA CostType ==
  ASSUME NEW w, NEW S, IsFiniteSet(S)
  PROVE  Cost(w, S) \in Nat
<1>1. \A way : Going(w, S, way) \in Nat
  BY GoingType
<1>2. /\ Going(w, S, "rdpmc") * ReadCost["rdpmc"] \in Nat
      /\ Going(w, S, "taken") * ReadCost["taken"] \in Nat
      /\ Going(w, S, "read") * ReadCost["read"] \in Nat
      /\ Going(w, S, "eof") * ReadCost["eof"] \in Nat
  BY <1>1, CostTypes, Products
<1> QED BY <1>2 DEF Cost

\* The reads of counters that are read one after the other.
LEMMA CostSplits ==
  ASSUME NEW w, NEW S, NEW T, IsFiniteSet(S), IsFiniteSet(T), S \cap T = {}
  PROVE  Cost(w, S \cup T) = Cost(w, S) + Cost(w, T)
<1>1. ASSUME NEW way
      PROVE  /\ Going(w, S, way) \in Nat /\ Going(w, T, way) \in Nat
             /\ Going(w, S \cup T, way) = Going(w, S, way) + Going(w, T, way)
  <2> DEFINE A == {k \in S : w[k] = way}
             B == {k \in T : w[k] = way}
  <2>1. /\ IsFiniteSet(A) /\ IsFiniteSet(B)
        /\ Going(w, S, way) \in Nat /\ Going(w, T, way) \in Nat
    BY GoingType
  <2>2. A \cap B = {} /\ {k \in S \cup T : w[k] = way} = A \cup B
    OBVIOUS
  <2>3. Cardinality(A) = Going(w, S, way) /\ Cardinality(B) = Going(w, T, way)
        /\ Cardinality(A \cup B) = Going(w, S \cup T, way)
    BY <2>2 DEF Going
  <2> HIDE DEF A, B
  <2>4. Cardinality(A \cup B) = Cardinality(A) + Cardinality(B) - Cardinality({})
    BY <2>1, <2>2, FS_Union
  <2>5. Cardinality({}) = 0
    BY FS_EmptySet
  <2> QED BY <2>1, <2>3, <2>4, <2>5
<1> DEFINE part(U, way) == Going(w, U, way) * ReadCost[way]
<1>2. ASSUME NEW way \in Ways
      PROVE  /\ part(S, way) \in Nat /\ part(T, way) \in Nat
             /\ part(S \cup T, way) = part(S, way) + part(T, way)
  <2>1. ReadCost[way] \in Nat
    BY ConstantTypes
  <2>2. /\ Going(w, S, way) \in Nat /\ Going(w, T, way) \in Nat
        /\ Going(w, S \cup T, way) = Going(w, S, way) + Going(w, T, way)
    BY <1>1
  <2> DEFINE g == Going(w, S, way)
             h == Going(w, T, way)
             c == ReadCost[way]
  <2>3. /\ part(S, way) = g * c /\ part(T, way) = h * c
        /\ part(S \cup T, way) = (g + h) * c
    BY <2>2
  <2>4. g \in Nat /\ h \in Nat /\ c \in Nat
    BY <2>1, <2>2
  <2> HIDE DEF g, h, c, part
  <2> QED BY <2>3, <2>4, Products
<1>3. \A U : Cost(w, U) = part(U, "rdpmc") + part(U, "taken") + part(U, "read") + part(U, "eof")
  BY DEF Cost
<1>4. {"rdpmc", "taken", "read", "eof"} = Ways
  BY DEF Ways
<1> DEFINE adds(way) == /\ part(S, way) \in Nat /\ part(T, way) \in Nat
                        /\ part(S \cup T, way) = part(S, way) + part(T, way)
<1>5. adds("rdpmc") /\ adds("taken") /\ adds("read") /\ adds("eof")
  BY <1>2, <1>4
<1> HIDE DEF part
<1> QED BY <1>3, <1>5

LEMMA CostOfOne ==
  ASSUME NEW w, NEW x, w[x] \in Ways
  PROVE  Cost(w, {x}) = ReadCost[w[x]]
<1>1. ASSUME NEW way
      PROVE  Going(w, {x}, way) = IF w[x] = way THEN 1 ELSE 0
  <2>1. Cardinality({}) = 0 /\ Cardinality({x}) = 1
    BY FS_EmptySet, FS_Singleton
  <2>2. {k \in {x} : w[k] = way} = IF w[x] = way THEN {x} ELSE {}
    OBVIOUS
  <2> QED BY <2>1, <2>2 DEF Going
<1> DEFINE part(way) == Going(w, {x}, way) * ReadCost[way]
<1>2. ASSUME NEW way \in Ways
      PROVE  part(way) = IF w[x] = way THEN ReadCost[way] ELSE 0
  <2>1. ReadCost[way] \in Nat
    BY ConstantTypes
  <2>2. CASE w[x] = way
    BY <1>1, <2>1, <2>2, Products
  <2>3. CASE w[x] # way
    BY <1>1, <2>1, <2>3, Products
  <2> QED BY <2>2, <2>3
<1>3. Cost(w, {x}) = part("rdpmc") + part("taken") + part("read") + part("eof")
  BY DEF Cost
<1> HIDE DEF part
<1>4. \/ w[x] = "rdpmc" \/ w[x] = "taken" \/ w[x] = "read" \/ w[x] = "eof"
  BY DEF Ways
<1> QED BY <1>2, <1>3, <1>4, CostTypes DEF Ways

LEMMA CostOfNone ==
  ASSUME NEW w
  PROVE  Cost(w, {}) = 0
<1>1. \A way : Going(w, {}, way) = 0
  <2>1. \A way : {k \in {} : w[k] = way} = {}
    OBVIOUS
  <2> QED BY <2>1, FS_EmptySet DEF Going
<1> QED BY <1>1, CostTypes, Products DEF Cost

\* One more counter.
LEMMA CostGrows ==
  ASSUME NEW w, NEW m \in Int, NEW n \in Int, m <= n, w[n] \in Ways
  PROVE  Cost(w, m..n) = Cost(w, m..(n - 1)) + ReadCost[w[n]]
<1>1. IsFiniteSet(m..(n - 1)) /\ IsFiniteSet({n})
  <2>1. n - 1 \in Int
    OBVIOUS
  <2> QED BY <2>1, FS_Interval, FS_Singleton
<1>2. (m..(n - 1)) \cap {n} = {} /\ (m..(n - 1)) \cup {n} = m..n
  OBVIOUS
<1>3. Cost(w, (m..(n - 1)) \cup {n}) = Cost(w, m..(n - 1)) + Cost(w, {n})
  BY <1>1, <1>2, CostSplits
<1> QED BY <1>2, <1>3, CostOfOne

-------------------------------------------------------------------------------
(* What an undisturbed sample counts. *)

\* The two things CountInv says of a counter.
TotalIs(k) ==
  k < i \/ pc # "before" =>
    /\ events[fd[k]].total = started[k] + Since(k)
    /\ before[k] = started[k] % Modulus(k)

AfterIs(k) ==
  k < i /\ pc = "after" =>
    /\ after[k] = (started[k] + Whole(Now)) % Modulus(k)
    /\ rdpmcOk[k] => (started[k] + Whole(Now)) \div HwSize = started[k] \div HwSize

LEMMA CountParts ==
  CountInv <=> (Sampling => \A k \in Counters : events[fd[k]].on /\ Sample \notin bad[k] =>
                              TotalIs(k) /\ AfterIs(k))
BY DEF CountInv, TotalIs, AfterIs

\* A step that takes no event away leaves the ways as they are.
LEMMA NowSame ==
  ASSUME pass' = pass, fd' = fd, rdpmcOk' = rdpmcOk,
         \A k \in Counters : events'[fd[k]].on = events[fd[k]].on
  PROVE  Now' = Now /\ \A k : Modulus(k)' = Modulus(k)
<1>1. Counters' = Counters
  BY SamePass
<1>2. \A k : Modulus(k)' = Modulus(k)
  BY DEF Modulus
<1>3. \A k \in Counters : Way(k)' = Way(k)
  BY DEF Way
<1> QED BY <1>1, <1>2, <1>3 DEF Now

LEMMA NowType ==
  /\ Now \in [Counters -> Ways]
  /\ \A k \in Counters : Now[k] = Way(k) /\ ReadCost[Now[k]] \in Nat
BY WayType DEF Now

\* Counting takes no event away.
LEMMA CountedNow ==
  ASSUME PlaceInv, FdInv, EventsInv, Measuring, NEW n \in Nat, events' = CountAll(n),
         UNCHANGED <<pass, fd, rdpmcOk>>, NEW k \in Counters
  PROVE  /\ Now' = Now /\ Modulus(k)' = Modulus(k) /\ Width' = Width /\ Counters' = Counters
         /\ events'[fd'[k]].on = events[fd[k]].on
         /\ events[fd[k]].on => events'[fd'[k]].total = events[fd[k]].total + n
<1>1. ASSUME NEW l \in Counters
      PROVE  /\ events'[fd[l]].on = events[fd[l]].on
             /\ events[fd[l]].on => events'[fd[l]].total = events[fd[l]].total + n
  <2>1. fd[l] \in DOMAIN events
    BY ReadType
  <2> QED BY <2>1, Counted
<1> QED BY <1>1, NowSame, SamePass

\* An event that is on, and what reading it returns.
LEMMA OnType ==
  ASSUME PlaceInv, FdInv, EventsInv, SampleTypes, Measuring, NEW k \in Counters,
         events[fd[k]].on
  PROVE  /\ events[fd[k]].total \in Nat /\ started[k] \in Nat
         /\ Read(k) = events[fd[k]].total % Modulus(k)
<1>1. events[fd[k]] \in Event
  BY ReadType
<1> QED BY <1>1 DEF Read, Event, SampleTypes

\* The costs of the counters in a range, in the order of the reads.
LEMMA RangeCost ==
  ASSUME NEW m \in Int, NEW n \in Int
  PROVE  IsFiniteSet(m..n) /\ Cost(Now, m..n) \in Nat /\ (m > n => Cost(Now, m..n) = 0)
<1>1. IsFiniteSet(m..n)
  BY FS_Interval
<1>2. m > n => m..n = {}
  OBVIOUS
<1> QED BY <1>1, <1>2, CostType, CostOfNone

LEMMA RangeCostBelow ==
  ASSUME NEW m \in Int, NEW n \in Int
  PROVE  /\ IsFiniteSet(m..(n - 1)) /\ Cost(Now, m..(n - 1)) \in Nat
         /\ (m >= n => Cost(Now, m..(n - 1)) = 0)
<1>1. n - 1 \in Int /\ (m >= n => m > n - 1)
  OBVIOUS
<1> QED BY <1>1, RangeCost

\* Reading counter i adds to what was read from counter m on.
LEMMA ReadCosts ==
  ASSUME PlaceInv, NEW m \in Int, m <= i
  PROVE  Cost(Now, m..i) = Cost(Now, m..(i - 1)) + ReadCost[Way(i)]
<1>1. i \in Counters /\ i \in Int
  BY WidthType
<1>2. Now[i] \in Ways /\ Now[i] = Way(i)
  BY <1>1, NowType
<1> QED BY <1>1, <1>2, CostGrows

LEMMA CountReadBefore ==
  ASSUME PlaceInv, FdInv, EventsInv, SampleTypes, CountInv, ReadBefore, NEW k \in Counters,
         events[fd[k]].on, Sample \notin bad[k]
  PROVE  TotalIs(k)' /\ AfterIs(k)'
<1> DEFINE t == events[fd[k]].total
           c == ReadCost[Way(i)]
<1>1. Sampling /\ Measuring /\ pc = "before"
  BY DEF ReadBefore, Sampling, Measuring
<1>2. t \in Nat /\ started[k] \in Nat /\ Read(k) = t % Modulus(k)
  BY <1>1, OnType
<1>3. /\ c \in Nat /\ Now' = Now /\ Modulus(k)' = Modulus(k) /\ Width' = Width
      /\ events'[fd'[k]].total = t + c
  <2>1. events' = CountAll(c) /\ UNCHANGED <<pass, fd, rdpmcOk>>
    BY DEF ReadBefore, counterVars
  <2> QED BY <1>1, <2>1, WayType, CountedNow
<1>4. Width \in Nat \ {0} /\ k \in 1..Width /\ i \in 1..Width
  BY WidthType
<1>5. /\ before' = [before EXCEPT ![i] = Read(i)] /\ before \in [Counters -> Words]
      /\ started' = [started EXCEPT ![i] = events[fd[i]].total] /\ started \in [Counters -> Nat]
  BY DEF ReadBefore, SampleTypes
<1>6. Since(k)' = Cost(Now, k..i) \/ k > i
  <2>1. CASE i' = i + 1 /\ pc' = "before"
    <3>1. i' - 1 = i
      BY <1>4, <2>1
    <3> QED BY <1>3, <2>1, <3>1 DEF Since
  <2>2. CASE i = Width /\ pc' = "run"
    BY <1>3, <2>2 DEF Since
  <2>3. (i' = i + 1 /\ pc' = "before") \/ (i = Width /\ pc' = "run")
    BY <1>1 DEF ReadBefore
  <2> QED BY <2>1, <2>2, <2>3
<1>7. k <= i => Cost(Now, k..i) = Cost(Now, k..(i - 1)) + c
  BY <1>4, ReadCosts
<1>8. pc' # "after" /\ (pc' = "before" => i' = i + 1) /\ (k > i => pc' = "before")
  BY <1>4 DEF ReadBefore
<1>9. CASE k < i
  <2>1. t = started[k] + Cost(Now, k..(i - 1)) /\ before[k] = started[k] % Modulus(k)
    BY <1>1, <1>9, CountParts DEF TotalIs, Since
  <2>2. started'[k] = started[k] /\ before'[k] = before[k]
    BY <1>4, <1>5, <1>9
  <2>3. Cost(Now, k..(i - 1)) \in Nat
    BY <1>4, RangeCostBelow
  <2>4. Since(k)' = Cost(Now, k..(i - 1)) + c
    BY <1>4, <1>6, <1>7, <1>9
  <2> HIDE DEF t, c
  <2>5. t + c = started[k] + (Cost(Now, k..(i - 1)) + c)
    BY <1>2, <1>3, <2>1, <2>3
  <2> QED BY <1>3, <1>8, <2>1, <2>2, <2>4, <2>5 DEF TotalIs, AfterIs
<1>10. CASE k = i
  <2>1. started'[k] = t /\ before'[k] = Read(k)
    BY <1>5, <1>10
  <2>2. Since(k)' = c
    <3>1. Cost(Now, k..(i - 1)) = 0
      BY <1>4, <1>10, RangeCostBelow
    <3> HIDE DEF c
    <3> QED BY <1>3, <1>4, <1>6, <1>7, <1>10, <3>1
  <2> HIDE DEF t, c
  <2> QED BY <1>2, <1>3, <1>8, <2>1, <2>2 DEF TotalIs, AfterIs
<1>11. CASE k > i
  <2>1. pc' = "before" /\ ~(k < i')
    BY <1>4, <1>8, <1>11
  <2> QED BY <2>1 DEF TotalIs, AfterIs
<1> QED BY <1>4, <1>9, <1>10, <1>11

LEMMA CountRun ==
  ASSUME PlaceInv, FdInv, EventsInv, SampleTypes, CountInv, Run, NEW k \in Counters,
         events[fd[k]].on, Sample \notin bad[k]
  PROVE  TotalIs(k)' /\ AfterIs(k)'
<1> DEFINE t == events[fd[k]].total
           c == Cost(Now, k..Width)
<1>1. Sampling /\ Measuring /\ pc = "run" /\ i = 1
  BY DEF Run, Sampling, Measuring, PlaceInv
<1>2. t \in Nat /\ started[k] \in Nat
  BY <1>1, OnType
<1>3. /\ CallCost \in Nat /\ Now' = Now /\ Modulus(k)' = Modulus(k) /\ Width' = Width
      /\ events'[fd'[k]].total = t + CallCost
  <2>1. events' = CountAll(CallCost) /\ UNCHANGED <<pass, fd, rdpmcOk>>
    BY DEF Run, counterVars
  <2> QED BY <1>1, <2>1, CallCostType, CountedNow
<1>4. Width \in Nat \ {0} /\ k \in 1..Width
  BY WidthType
<1>5. c \in Nat /\ Cost(Now, 1..0) = 0
  <2>1. c \in Nat
    <3>1. k \in Int /\ Width \in Int
      BY <1>4
    <3> QED BY <3>1, RangeCost
  <2>2. Cost(Now, 1..0) = 0
    <3>1. 1..0 = {}
      OBVIOUS
    <3> QED BY <3>1, CostOfNone
  <2> QED BY <2>1, <2>2
<1>6. pc' = "after" /\ i' = 1 /\ started' = started /\ before' = before /\ CallCost' = CallCost
  BY <1>1 DEF Run, sampleVars, ghostVars, CallCost
<1>7. Since(k)' = c + CallCost
  <2>1. Since(k)' = c + CallCost + Cost(Now, 1..0)
    <3>1. i' - 1 = 0
      BY <1>6
    <3> QED BY <1>3, <1>6, <3>1 DEF Since
  <2> HIDE DEF c
  <2> QED BY <1>3, <1>5, <2>1
<1>8. t = started[k] + c /\ before[k] = started[k] % Modulus(k)
  BY <1>1, CountParts DEF TotalIs, Since
<1> HIDE DEF t, c
<1>9. t + CallCost = started[k] + (c + CallCost)
  BY <1>2, <1>3, <1>5, <1>8
<1>10. ~(k < i')
  BY <1>4, <1>6
<1> QED BY <1>3, <1>6, <1>7, <1>8, <1>9, <1>10 DEF TotalIs, AfterIs

\* What counter k has counted when it is read again.
LEMMA SinceIsWhole ==
  ASSUME PlaceInv, pc = "after", NEW k \in Counters, i = k
  PROVE  Since(k) = Whole(Now) /\ Whole(Now) \in Nat
<1>1. Width \in Nat \ {0} /\ k \in 1..Width /\ Counters = 1..Width /\ CallCost \in Nat
  BY WidthType, CallCostType
<1>2. IsFiniteSet(k..Width) /\ IsFiniteSet(1..(k - 1))
  <2>1. IsFiniteSet(k..Width)
    BY <1>1, RangeCost
  <2>2. IsFiniteSet(1..(k - 1))
    BY <1>1, RangeCostBelow
  <2> QED BY <2>1, <2>2
<1>3. (k..Width) \cap (1..(k - 1)) = {} /\ (k..Width) \cup (1..(k - 1)) = 1..Width
  BY <1>1
<1>4. Cost(Now, (k..Width) \cup (1..(k - 1))) = Cost(Now, k..Width) + Cost(Now, 1..(k - 1))
  BY <1>2, <1>3, CostSplits
<1>5. Cost(Now, k..Width) \in Nat /\ Cost(Now, 1..(k - 1)) \in Nat
  <2>1. Cost(Now, k..Width) \in Nat
    <3>1. k \in Int /\ Width \in Int
      BY <1>1
    <3> QED BY <3>1, RangeCost
  <2>2. Cost(Now, 1..(k - 1)) \in Nat
    BY <1>1, RangeCostBelow
  <2> QED BY <2>1, <2>2
<1>6. Whole(Now) = Cost(Now, k..Width) + Cost(Now, 1..(k - 1)) + CallCost
  BY <1>1, <1>3, <1>4 DEF Whole
<1>7. Since(k) = Cost(Now, k..Width) + CallCost + Cost(Now, 1..(k - 1))
  BY DEF Since
<1> QED BY <1>1, <1>5, <1>6, <1>7

\* An undisturbed counter when it has been read again.
LEMMA ReadAgain ==
  ASSUME PlaceInv, FdInv, EventsInv, SampleTypes, CountInv, ReadAfter, NEW k \in Counters,
         k <= i, events[fd[k]].on, Sample \notin bad'[k]
  PROVE  /\ before[k] = started[k] % Modulus(k) /\ started[k] \in Nat
         /\ after'[k] = (started[k] + Whole(Now)) % Modulus(k)
         /\ rdpmcOk[k] => (started[k] + Whole(Now)) \div HwSize = started[k] \div HwSize
<1>1. Sampling /\ Measuring /\ pc = "after"
  BY DEF ReadAfter, Sampling, Measuring
<1>2. /\ after' = [after EXCEPT ![i] = Read(i)] /\ after \in [Counters -> Words]
      /\ bad' = [bad EXCEPT ![i] = IF Wrapped(i) THEN @ \cup {Sample} ELSE @]
      /\ bad \in [Counters -> SUBSET (1..Samples)] /\ i \in Counters
  BY DEF ReadAfter, SampleTypes, PlaceInv
<1>3. Sample \notin bad[k] /\ (k = i => ~Wrapped(k))
  BY <1>2
<1>4. TotalIs(k) /\ AfterIs(k)
  BY <1>1, <1>3, CountParts
<1>5. before[k] = started[k] % Modulus(k) /\ started[k] \in Nat
  BY <1>1, <1>4, OnType DEF TotalIs
<1>6. k \in Int /\ i \in Int
  BY WidthType
<1>7. CASE k < i
  <2>1. k # i
    BY <1>7, <1>6
  <2>2. after'[k] = after[k]
    BY <1>2, <2>1
  <2> QED BY <1>1, <1>4, <1>5, <1>7, <2>2 DEF AfterIs
<1>8. CASE k = i
  <2>1. events[fd[k]].total = started[k] + Whole(Now)
    BY <1>1, <1>4, <1>8, SinceIsWhole DEF TotalIs
  <2>2. after'[k] = events[fd[k]].total % Modulus(k)
    BY <1>1, <1>2, <1>8, OnType
  <2>3. rdpmcOk[k] => events[fd[k]].total \div HwSize = started[k] \div HwSize
    BY <1>3, <1>8 DEF Wrapped
  <2> QED BY <1>5, <2>1, <2>2, <2>3
<1> QED BY <1>6, <1>7, <1>8

LEMMA CountReadAfter ==
  ASSUME PlaceInv, FdInv, EventsInv, SampleTypes, CountInv, ReadAfter, i < Width,
         NEW k \in Counters, events[fd[k]].on, Sample \notin bad'[k]
  PROVE  TotalIs(k)' /\ AfterIs(k)'
<1> DEFINE t == events[fd[k]].total
           c == ReadCost[Way(i)]
           s == Cost(Now, k..Width)
<1>1. Sampling /\ Measuring /\ pc = "after"
  BY DEF ReadAfter, Sampling, Measuring
<1>2. t \in Nat /\ started[k] \in Nat
  BY <1>1, OnType
<1>3. /\ c \in Nat /\ Now' = Now /\ Modulus(k)' = Modulus(k) /\ Width' = Width
      /\ Counters' = Counters /\ rdpmcOk' = rdpmcOk /\ events'[fd'[k]].total = t + c
  <2>1. events' = CountAll(c) /\ UNCHANGED <<pass, fd, rdpmcOk>>
    BY DEF ReadAfter, counterVars
  <2> QED BY <1>1, <2>1, WayType, CountedNow
<1>4. Width \in Nat \ {0} /\ k \in 1..Width /\ i \in 1..Width /\ CallCost \in Nat
  BY WidthType, CallCostType
<1>5. /\ i' = i + 1 /\ pc' = "after" /\ started' = started /\ before' = before
      /\ CallCost' = CallCost
  <2>1. i # Width
    BY <1>4
  <2> QED BY <1>1, <2>1 DEF ReadAfter, CallCost
<1>6. Whole(Now)' = Whole(Now)
  BY <1>3, <1>5 DEF Whole
<1>7. Cost(Now, 1..i) = Cost(Now, 1..(i - 1)) + c
  BY <1>4, ReadCosts
<1>8. s \in Nat /\ Cost(Now, 1..(i - 1)) \in Nat
  <2>1. s \in Nat
    <3>1. k \in Int /\ Width \in Int
      BY <1>4
    <3> QED BY <3>1, RangeCost
  <2>2. Cost(Now, 1..(i - 1)) \in Nat
    <3>1. i \in Int
      BY <1>4
    <3> QED BY <3>1, RangeCostBelow
  <2> QED BY <2>1, <2>2
<1>9. Since(k)' = s + CallCost + Cost(Now, 1..i)
  <2>1. i' - 1 = i
    BY <1>4, <1>5
  <2> QED BY <1>3, <1>5, <2>1 DEF Since
<1>10. bad[k] \subseteq bad'[k]
  BY DEF ReadAfter, SampleTypes
<1>11. TotalIs(k)
  BY <1>1, <1>10, CountParts
<1>12. t = started[k] + (s + CallCost + Cost(Now, 1..(i - 1)))
       /\ before[k] = started[k] % Modulus(k)
  BY <1>1, <1>11 DEF TotalIs, Since
<1> HIDE DEF t, s, c
<1>13. t + c = started[k] + (s + CallCost + Cost(Now, 1..i))
  BY <1>2, <1>3, <1>4, <1>7, <1>8, <1>12
<1>14. TotalIs(k)'
  BY <1>3, <1>5, <1>9, <1>12, <1>13 DEF TotalIs
<1>15. AfterIs(k)'
  <2>1. k < i' => k <= i
    BY <1>4, <1>5
  <2> QED BY <1>3, <1>5, <1>6, <2>1, ReadAgain DEF AfterIs
<1> QED BY <1>14, <1>15

LEMMA CountStep ==
  ASSUME PlaceInv, PlaceInv', FdInv, EventsInv, SampleTypes, SampleLengths, CountInv,
         [Next]_vars
  PROVE  CountInv'
<1>1. SUFFICES ASSUME Sampling', NEW k \in Counters', events'[fd'[k]].on, Sample' \notin bad'[k]
               PROVE  TotalIs(k)' /\ AfterIs(k)'
  BY DEF CountInv, TotalIs, AfterIs
<1>2. Sampling' <=> pc' \in {"before", "run", "after"}
  BY DEF Sampling
<1>3. ASSUME pc' = "before", i' = 1 PROVE TotalIs(k)' /\ AfterIs(k)'
  <2>1. ~(k < i')
    <3>1. Width' \in Nat \ {0} /\ k \in 1..Width'
      BY PassType DEF PlaceInv, Width, Counters
    <3> QED BY <1>3, <3>1
  <2> QED BY <1>3, <2>1 DEF TotalIs, AfterIs
<1>4. pass' = pass => k \in Counters
  BY SamePass
<1>5. ASSUME Sampling, NEW n \in Nat, events' = CountAll(n), UNCHANGED <<pass, fd, rdpmcOk>>
      PROVE  k \in Counters /\ events[fd[k]].on
  <2>1. k \in Counters /\ Measuring
    BY <1>4, <1>5 DEF Measuring
  <2> QED BY <1>1, <1>5, <2>1, CountedNow
<1>6. CASE OpenCounter \/ CloseCounter \/ Medians \/ PrintRow
  <2>1. pc' \notin {"before", "run", "after"}
    BY <1>6 DEF OpenCounter, CloseCounter, Medians, PrintRow
  <2> QED BY <1>1, <1>2, <2>1
<1>7. CASE Warmup
  <2>1. pc' = "before" /\ i' = 1
    BY <1>7 DEF Warmup, PlaceInv
  <2> QED BY <1>3, <2>1
<1>8. CASE ReadBefore
  <2>1. /\ Sampling /\ events' = CountAll(ReadCost[Way(i)]) /\ UNCHANGED <<pass, fd, rdpmcOk>>
        /\ deltas' = deltas /\ bad' = bad
    BY <1>8 DEF ReadBefore, counterVars, Sampling
  <2>2. k \in Counters /\ events[fd[k]].on
    BY <1>5, <2>1, WayType
  <2>3. Sample' = Sample
    BY <2>1 DEF Sample
  <2> QED BY <1>1, <1>8, <2>1, <2>2, <2>3, CountReadBefore
<1>9. CASE Run
  <2>1. /\ Sampling /\ events' = CountAll(CallCost) /\ UNCHANGED <<pass, fd, rdpmcOk>>
        /\ deltas' = deltas /\ bad' = bad
    BY <1>9 DEF Run, counterVars, sampleVars, ghostVars, Sampling
  <2>2. k \in Counters /\ events[fd[k]].on
    BY <1>5, <2>1, CallCostType
  <2>3. Sample' = Sample
    BY <2>1 DEF Sample
  <2> QED BY <1>1, <1>9, <2>1, <2>2, <2>3, CountRun
<1>10. CASE ReadAfter
  <2>1. Sampling /\ events' = CountAll(ReadCost[Way(i)]) /\ UNCHANGED <<pass, fd, rdpmcOk>>
    BY <1>10 DEF ReadAfter, counterVars, Sampling
  <2>2. k \in Counters /\ events[fd[k]].on
    BY <1>5, <2>1, WayType
  <2>3. CASE i < Width
    <3>1. deltas' = deltas
      BY <1>10, <2>3, WidthType DEF ReadAfter
    <3>2. Sample' = Sample
      BY <3>1 DEF Sample
    <3> QED BY <1>1, <1>10, <2>2, <2>3, <3>2, CountReadAfter
  <2>4. CASE i = Width
    <3>1. i' = 1 /\ pc' \in {"medians", "before"}
      <4>1. ~(i < Width)
        BY <2>4, WidthType
      <4> QED BY <1>10, <4>1 DEF ReadAfter
    <3> QED BY <1>1, <1>2, <1>3, <3>1
  <2> QED BY <1>10, <2>3, <2>4 DEF ReadAfter
<1>11. CASE Interrupt \/ Evict
  <2>1. Sampling /\ k \in Counters /\ Sample' = Sample
    BY <1>1, <1>4, <1>11 DEF Interrupt, Evict, sampleVars, Sampling, Sample
  <2>2. Sample \in bad'[k]
    BY <1>11, <2>1 DEF Interrupt, Evict, BadSample
  <2> QED BY <1>1, <2>1, <2>2
<1>12. CASE UNCHANGED vars
  <2>1. /\ UNCHANGED <<pass, pc, i, fd, rdpmcOk, events, bench, before, after, deltas>>
        /\ started' = started /\ bad' = bad
    BY <1>12 DEF vars, kernelVars, counterVars, sampleVars, ghostVars
  <2>2. Sampling /\ Sample' = Sample /\ k \in Counters
    BY <1>1, <1>4, <2>1 DEF Sample, Sampling
  <2>3. TotalIs(k) /\ AfterIs(k)
    BY <1>1, <2>1, <2>2, CountParts
  <2>4. /\ Width' = Width /\ Counters' = Counters /\ CallCost' = CallCost /\ Now' = Now
        /\ Modulus(k)' = Modulus(k)
    BY <2>1, SamePass, NowSame DEF CallCost
  <2>5. Since(k)' = Since(k) /\ Whole(Now)' = Whole(Now)
    BY <2>1, <2>4 DEF Since, Whole
  <2> QED BY <2>1, <2>3, <2>4, <2>5 DEF TotalIs, AfterIs
<1> QED BY <1>6, <1>7, <1>8, <1>9, <1>10, <1>11, <1>12 DEF Next

\* The difference of two reads with w events between them: of whole words,
LEMMA DeltaIs ==
  ASSUME NEW s \in Nat, NEW w \in Nat, w < WordSize
  PROVE  Delta((s + w) % WordSize, s % WordSize) = w
<1> DEFINE a == (s + w) % WordSize
           b == s % WordSize
<1>1. WordSize \in Nat \ {0} /\ s + w \in Int /\ w \in 0..(WordSize - 1)
  BY ConstantTypes
<1>2. a \in 0..(WordSize - 1) /\ b \in 0..(WordSize - 1) /\ a \in Int /\ b \in Int /\ -b \in Int
  BY <1>1, DivMod
<1>3. a % WordSize = (s + w) % WordSize /\ b % WordSize = s % WordSize
  <2>1. \A r \in 0..(WordSize - 1) : r % WordSize = r
    BY <1>1, ModSmall
  <2> QED BY <1>2, <2>1
<1>4. (b + w) % WordSize = (s + w) % WordSize
  <2>1. b % WordSize = s % WordSize /\ s \in Int /\ w \in Int
    BY <1>3
  <2> HIDE DEF a, b
  <2> QED BY <1>1, <1>2, <2>1, ModAdd
<1>5. (a + (-b)) % WordSize = ((b + w) + (-b)) % WordSize
  <2>1. b + w \in Int /\ a % WordSize = (b + w) % WordSize
    BY <1>2, <1>3, <1>4
  <2> HIDE DEF a, b
  <2> QED BY <1>1, <1>2, <2>1, ModAdd
<1>6. (b + w) + (-b) = w /\ a + (-b) = a - b
  <2> HIDE DEF a, b
  <2> QED BY <1>2
<1>7. w % WordSize = w
  BY <1>1, ModSmall
<1> QED BY <1>5, <1>6, <1>7 DEF Delta

LEMMA Quotient ==
  ASSUME NEW s \in Nat, NEW m \in Nat \ {0}
  PROVE  s \div m \in Int /\ s % m \in Nat /\ s = m * (s \div m) + (s % m)
OBVIOUS

\* and of the bits of a register that has not begun anew.
LEMMA MaskedDeltaIs ==
  ASSUME NEW s \in Nat, NEW w \in Nat, w < WordSize,
         (s + w) \div HwSize = s \div HwSize
  PROVE  Delta((s + w) % HwSize, s % HwSize) = w
<1> DEFINE q == HwSize * (s \div HwSize)
           a == (s + w) % HwSize
           b == s % HwSize
<1>1. HwSize \in Nat \ {0} /\ WordSize \in Nat \ {0} /\ s + w \in Nat
  BY ConstantTypes
<1>2. s = q + b /\ s + w = q + a /\ a \in Nat /\ b \in Nat /\ q \in Int
  <2>1. s \div HwSize \in Int /\ b \in Nat /\ s = q + b
    BY <1>1, Quotient
  <2>2. a \in Nat /\ s + w = q + a
    BY <1>1, Quotient
  <2>3. \A m, n \in Int : m * n \in Int
    OBVIOUS
  <2> QED BY <1>1, <2>1, <2>2, <2>3
<1> HIDE DEF q, a, b
<1>3. a - b = w
  BY <1>2
<1>4. w \in 0..(WordSize - 1)
  BY <1>1
<1>5. w % WordSize = w
  BY <1>1, <1>4, ModSmall
<1> QED BY <1>3, <1>5 DEF Delta, a, b

LEMMA WholeFits ==
  ASSUME PlaceInv, NEW w \in [Counters -> Ways]
  PROVE  Whole(w) \in Nat /\ Whole(w) < WordSize
<1>1. /\ pass \in 1..Len(Passes) /\ bench \in 0..Len(Work) /\ Len(Work) \in Nat \ {0}
      /\ \A b \in 1..Len(Work) : Work[b] \in Nat
  BY Lengths DEF PlaceInv
<1>2. \A b \in 1..Len(Work) : Cost(w, Counters) + Loop + Work[b] < HwSize
  BY <1>1, CountAssumption DEF Width, Counters
<1> DEFINE x == Cost(w, Counters)
<1>3. x \in Nat /\ Loop \in Nat /\ HwSize \in Nat /\ WordSize \in Nat /\ HwSize <= WordSize
  <2>1. IsFiniteSet(Counters)
    BY WidthType, FS_Interval
  <2> QED BY <2>1, CostType, ConstantTypes
<1>4. Whole(w) = x + (Loop + IF bench = 0 THEN 0 ELSE Work[bench])
  BY DEF Whole, CallCost
<1> HIDE DEF x
<1>5. CASE bench = 0
  <2>1. 1 \in 1..Len(Work) /\ Work[1] \in Nat
    BY <1>1
  <2>2. x + Loop + Work[1] < HwSize /\ Whole(w) = x + (Loop + 0)
    BY <1>2, <1>4, <1>5, <2>1 DEF x
  <2> QED BY <1>3, <2>1, <2>2
<1>6. CASE bench # 0
  <2>1. bench \in 1..Len(Work) /\ Work[bench] \in Nat
    BY <1>1, <1>6
  <2>2. x + Loop + Work[bench] < HwSize /\ Whole(w) = x + (Loop + Work[bench])
    BY <1>2, <1>4, <1>6, <2>1 DEF x
  <2> QED BY <1>3, <2>1, <2>2
<1> QED BY <1>5, <1>6

\* When the last counter has been read, an undisturbed sample is what a whole
\* sample counts, for every counter that is on.
LEMMA SampleIsWhole ==
  ASSUME PlaceInv, FdInv, EventsInv, SampleTypes, CountInv, ReadAfter, i = Width,
         NEW k \in Counters, events[fd[k]].on, Sample \notin bad'[k]
  PROVE  Delta(after'[k], before[k]) = Whole(Now)
<1>1. k <= i
  BY WidthType
<1>2. /\ before[k] = started[k] % Modulus(k) /\ started[k] \in Nat
      /\ after'[k] = (started[k] + Whole(Now)) % Modulus(k)
      /\ rdpmcOk[k] => (started[k] + Whole(Now)) \div HwSize = started[k] \div HwSize
  BY <1>1, ReadAgain
<1>3. Whole(Now) \in Nat /\ Whole(Now) < WordSize
  BY NowType, WholeFits
<1>4. CASE rdpmcOk[k]
  BY <1>2, <1>3, <1>4, MaskedDeltaIs DEF Modulus
<1>5. CASE ~rdpmcOk[k]
  BY <1>2, <1>3, <1>5, DeltaIs DEF Modulus
<1> QED BY <1>4, <1>5

LEMMA DeltasStep ==
  ASSUME PlaceInv, PlaceInv', FdInv, EventsInv, SampleTypes, SampleTypes', SampleLengths,
         WaysLengths, CountInv, DeltasInv, [Next]_vars
  PROVE  DeltasInv'
<1>1. ASSUME \A k \in Counters' : deltas'[k] = <<>>
      PROVE  DeltasInv'
  <2>1. 1..Len(<<>>) = {}
    OBVIOUS
  <2> QED BY <1>1, <2>1 DEF DeltasInv
<1>2. ASSUME pass' = pass, deltas' = deltas, ways' = ways, bench' = bench,
             \A k \in Counters : bad[k] \subseteq bad'[k]
      PROVE  DeltasInv'
  <2>1. Counters' = Counters /\ CallCost' = CallCost
    BY <1>2, SamePass DEF CallCost
  <2> QED BY <1>2, <2>1 DEF DeltasInv, Whole
<1>3. ASSUME pass' = pass, deltas' = deltas, pc \in {"open", "warmup", "print", "close"}
      PROVE  DeltasInv'
  <2>1. \A k \in Counters : deltas[k] = <<>>
    BY <1>3 DEF SampleLengths, Sampling
  <2> QED BY <1>1, <1>3, <2>1, SamePass
<1>4. CASE OpenCounter \/ Warmup \/ PrintRow
  BY <1>3, <1>4 DEF OpenCounter, Warmup, PrintRow, sampleVars
<1>5. CASE CloseCounter
  <2>1. CASE deltas' = [k \in 1..Passes[pass'].width |-> <<>>]
    <3>1. \A k \in Counters' : deltas'[k] = <<>>
      BY <2>1 DEF Counters, Width
    <3> QED BY <1>1, <3>1
  <2>2. CASE pass' = pass /\ deltas' = deltas
    <3>1. pc = "close"
      BY <1>5 DEF CloseCounter
    <3> QED BY <1>3, <2>2, <3>1
  <2>3. \/ pass' = pass /\ deltas' = deltas
        \/ deltas' = [k \in 1..Passes[pass'].width |-> <<>>]
    BY <1>5 DEF CloseCounter, sampleVars
  <2> QED BY <2>1, <2>2, <2>3
<1>6. CASE ReadBefore
  BY <1>2, <1>6 DEF ReadBefore
<1>7. CASE Run
  BY <1>2, <1>7 DEF Run, ghostVars, sampleVars
<1>8. CASE ReadAfter
  <2>1. pass' = pass /\ bench' = bench /\ \A k \in Counters : bad[k] \subseteq bad'[k]
    BY <1>8 DEF ReadAfter, SampleTypes
  <2>2. CASE i < Width
    <3>1. deltas' = deltas /\ ways' = ways
      BY <1>8, <2>2, WidthType DEF ReadAfter
    <3> QED BY <1>2, <2>1, <3>1
  <2>3. CASE i = Width
    <3>1. Counters' = Counters /\ CallCost' = CallCost /\ 1 \in Counters
      BY <2>1, SamePass, WidthType DEF CallCost
    <3>2. ways' = Append(ways, Now) /\ ways \in Seq([Counters -> Ways])
      <4>1. ~(i < Width)
        BY <2>3, WidthType
      <4> QED BY <1>8, <4>1 DEF ReadAfter, Now, SampleTypes
    <3>3. SUFFICES ASSUME NEW k \in Counters, NEW n \in (1..Len(deltas'[k])) \ bad'[k],
                          ways'[n][k] \in Counting
                   PROVE  deltas'[k][n] = Cost(ways'[n], Counters) + CallCost
      BY <3>1 DEF DeltasInv, Whole
    <3>4. /\ Len(deltas[k]) \in Nat /\ Len(deltas'[k]) = Len(deltas[k]) + 1
          /\ deltas'[k][Len(deltas'[k])] = Delta(after'[k], before[k])
          /\ \A m \in 1..Len(deltas[k]) : deltas'[k][m] = deltas[k][m]
      BY <1>8, <2>3, OneMore
    <3>5. Len(deltas[k]) = Len(ways) /\ Len(deltas'[k]) = Sample
      <4>1. pc = "after" /\ Len(deltas[k]) = Len(deltas[1])
        BY <1>8 DEF ReadAfter, SampleLengths
      <4> QED BY <3>4, <4>1 DEF Sample, WaysLengths
    <3>6. n \in 1..Len(deltas[k]) \/ n = Len(deltas'[k])
      BY <3>4
    <3>7. /\ Now \in [Counters -> Ways] /\ ways'[Len(ways) + 1] = Now
          /\ \A m \in 1..Len(ways) : ways'[m] = ways[m]
      <4>1. Now \in [Counters -> Ways]
        BY NowType
      <4> QED BY <3>2, <4>1, AppendProperties
    <3>8. CASE n \in 1..Len(deltas[k])
      <4>1. ways'[n] = ways[n] /\ deltas'[k][n] = deltas[k][n] /\ n \notin bad[k]
        BY <2>1, <3>4, <3>5, <3>7, <3>8
      <4> QED BY <3>3, <3>8, <4>1 DEF DeltasInv, Whole
    <3>9. CASE n = Len(deltas'[k])
      <4>1. ways'[n] = Now /\ Sample \notin bad'[k]
        BY <3>3, <3>4, <3>5, <3>7, <3>9
      <4>2. events[fd[k]].on
        BY <3>3, <4>1, NowType DEF Way, Counting
      <4> QED BY <1>8, <2>3, <3>4, <3>9, <4>1, <4>2, SampleIsWhole DEF Whole
    <3> QED BY <3>6, <3>8, <3>9
  <2> QED BY <1>8, <2>2, <2>3 DEF ReadAfter
<1>9. CASE Medians
  <2>1. pass' = pass /\ \A k \in Counters : deltas'[k] = <<>>
    BY <1>9 DEF Medians, Each
  <2> QED BY <1>1, <2>1, SamePass
<1>10. CASE Interrupt \/ Evict
  <2>1. \A k \in Counters : bad[k] \subseteq bad'[k]
    BY <1>10 DEF Interrupt, Evict, BadSample
  <2> QED BY <1>2, <1>10, <2>1 DEF Interrupt, Evict, sampleVars
<1>11. CASE UNCHANGED vars
  BY <1>2, <1>11 DEF vars, sampleVars, ghostVars
<1> QED BY <1>4, <1>5, <1>6, <1>7, <1>8, <1>9, <1>10, <1>11 DEF Next

-------------------------------------------------------------------------------
(* The medians. *)

LEMMA MedianOfSamples ==
  ASSUME PlaceInv, SampleTypes, SampleLengths, WaysLengths, DeltasInv, pc = "medians",
         NEW k \in Counters, NEW n \in 1..Samples, ways[n][k] \in Counting,
         Mostly(k, bad, ways, ways[n])
  PROVE  TwiceMedian(deltas[k]) = 2 * Whole(ways[n]) /\ Whole(ways[n]) \in Nat
<1> DEFINE other == bad[k] \cup {m \in 1..Samples : ways[m] # ways[n]}
<1>1. deltas[k] \in Seq(Int)
  <2>1. Words \subseteq Int
    BY ConstantTypes DEF Words
  <2>2. PICK l \in Nat : deltas[k] \in [1..l -> Words]
    BY SeqDef DEF SampleTypes
  <2>3. deltas[k] \in [1..l -> Int]
    BY <2>1, <2>2
  <2> QED BY <2>3
<1>2. Len(deltas[k]) = Samples /\ Samples \in Nat \ {0}
  BY ConstantTypes DEF SampleLengths
<1>3. other \in SUBSET (1..Samples) /\ 2 * Cardinality(other) < Samples
  BY DEF SampleTypes, Mostly
<1>4. Whole(ways[n]) \in Nat
  <2>1. Len(ways) = Samples
    BY <1>2 DEF WaysLengths, SampleLengths
  <2>2. ways[n] \in [Counters -> Ways]
    BY <2>1 DEF SampleTypes
  <2> QED BY <2>2, WholeFits
<1>5. ASSUME NEW m \in (1..Samples) \ other
      PROVE  deltas[k][m] = Whole(ways[n])
  <2>1. m \in (1..Len(deltas[k])) \ bad[k] /\ ways[m] = ways[n]
    BY <1>2
  <2> QED BY <2>1 DEF DeltasInv
<1> HIDE DEF other
<1>6. TwiceMedian(deltas[k]) = 2 * Whole(ways[n])
  <2> DEFINE w == Whole(ways[n])
  <2>1. w \in Int /\ \A m \in (1..Samples) \ other : deltas[k][m] = w
    BY <1>4, <1>5
  <2> HIDE DEF w
  <2>2. TwiceMedian(deltas[k]) = 2 * w
    BY <1>1, <1>2, <1>3, <2>1, MedianIsUndisturbed
  <2> QED BY <2>2 DEF w
<1> QED BY <1>4, <1>6

LEMMA EmptiesStep ==
  ASSUME PlaceInv, SampleTypes, SampleLengths, WaysLengths, DeltasInv, EmptiesInv, [Next]_vars
  PROVE  EmptiesInv'
<1>1. ASSUME pass' = pass, empties' = empties, badEmpty' = badEmpty, waysEmpty' = waysEmpty,
             bench' # 0 => bench # 0
      PROVE  EmptiesInv'
  BY <1>1, SamePass DEF EmptiesInv, Mostly
<1>2. ASSUME bench' = 0 PROVE EmptiesInv'
  BY <1>2 DEF EmptiesInv
<1>3. CASE \/ OpenCounter \/ Warmup \/ ReadBefore \/ Run \/ ReadAfter \/ Interrupt \/ Evict
           \/ UNCHANGED vars
  <2>1. /\ pass' = pass /\ empties' = empties /\ badEmpty' = badEmpty
        /\ waysEmpty' = waysEmpty /\ bench' = bench
    BY <1>3 DEF OpenCounter, Warmup, ReadBefore, Run, ReadAfter, Interrupt, Evict, vars,
                sampleVars, ghostVars
  <2> QED BY <1>1, <2>1
<1>4. CASE CloseCounter
  <2>1. \/ /\ pass' = pass /\ empties' = empties /\ badEmpty' = badEmpty
           /\ waysEmpty' = waysEmpty /\ bench' = bench
        \/ bench' = 0
    BY <1>4 DEF CloseCounter, sampleVars, ghostVars
  <2> QED BY <1>1, <1>2, <2>1
<1>5. CASE Medians
  <2>1. CASE bench = 0
    <3>1. /\ pass' = pass /\ badEmpty' = bad /\ waysEmpty' = ways /\ pc = "medians"
          /\ empties' = [k \in Counters |-> TwiceMedian(deltas[k])]
      BY <1>5, <2>1 DEF Medians
    <3>2. Counters' = Counters
      BY <3>1, SamePass
    <3>3. SUFFICES ASSUME NEW k \in Counters, NEW n \in 1..Samples, ways[n][k] \in Counting,
                          Mostly(k, bad, ways, ways[n])
                   PROVE  empties'[k] = 2 * (Cost(ways[n], Counters) + Loop)
      BY <3>1, <3>2 DEF EmptiesInv, Mostly
    <3>4. CallCost = Loop
      BY <2>1, ConstantTypes DEF CallCost
    <3>5. TwiceMedian(deltas[k]) = 2 * Whole(ways[n])
      BY <3>1, <3>3, MedianOfSamples
    <3> QED BY <3>1, <3>4, <3>5 DEF Whole
  <2>2. CASE bench # 0
    BY <1>1, <1>5, <2>2 DEF Medians
  <2> QED BY <2>1, <2>2
<1>6. CASE PrintRow
  <2>1. bench # 0
    BY <1>6 DEF PrintRow, PlaceInv
  <2> QED BY <1>1, <1>6, <2>1 DEF PrintRow
<1> QED BY <1>3, <1>4, <1>5, <1>6 DEF Next

LEMMA MedianStep ==
  ASSUME PlaceInv, SampleTypes, SampleLengths, WaysLengths, DeltasInv, EmptiesInv,
         MedianIsWork, [Next]_vars
  PROVE  MedianIsWork'
<1>1. ASSUME pc' # "print" PROVE MedianIsWork'
  BY <1>1 DEF MedianIsWork
<1>2. CASE Medians
  <2>1. CASE bench = 0
    BY <1>1, <1>2, <2>1 DEF Medians
  <2>2. CASE bench # 0
    <3>1. /\ pass' = pass /\ bad' = bad /\ badEmpty' = badEmpty /\ bench' = bench
          /\ ways' = ways /\ waysEmpty' = waysEmpty /\ pc = "medians"
          /\ result' = [k \in Counters |-> TwiceMedian(deltas[k]) - empties[k]]
      BY <1>2, <2>2 DEF Medians
    <3>2. Counters' = Counters
      BY <3>1, SamePass
    <3>3. SUFFICES ASSUME NEW k \in Counters, NEW m \in 1..Samples, NEW n \in 1..Samples,
                          ways[m][k] \in Counting, waysEmpty[n][k] \in Counting,
                          Mostly(k, bad, ways, ways[m]),
                          Mostly(k, badEmpty, waysEmpty, waysEmpty[n])
                   PROVE  result'[k] = 2 * (Work[bench] + Cost(ways[m], Counters)
                                              - Cost(waysEmpty[n], Counters))
      BY <3>1, <3>2 DEF MedianIsWork, Mostly
    <3> DEFINE x == Cost(ways[m], Counters)
               y == Cost(waysEmpty[n], Counters)
    <3>4. x \in Nat /\ y \in Nat /\ Loop \in Nat /\ Work[bench] \in Nat
      <4>1. IsFiniteSet(Counters)
        BY WidthType, FS_Interval
      <4>2. Work[bench] \in Nat
        BY <2>2, Lengths DEF PlaceInv
      <4> QED BY <4>1, <4>2, CostType, ConstantTypes
    <3>5. TwiceMedian(deltas[k]) = 2 * (x + (Loop + Work[bench]))
      BY <2>2, <3>1, <3>3, MedianOfSamples DEF Whole, CallCost
    <3>6. empties[k] = 2 * (y + Loop)
      BY <2>2, <3>3 DEF EmptiesInv
    <3> HIDE DEF x, y
    <3>7. 2 * (x + (Loop + Work[bench])) - 2 * (y + Loop) = 2 * (Work[bench] + x - y)
      BY <3>4
    <3> QED BY <3>1, <3>5, <3>6, <3>7 DEF x, y
  <2> QED BY <2>1, <2>2
<1>3. CASE \/ OpenCounter \/ CloseCounter \/ Warmup \/ ReadBefore \/ Run \/ ReadAfter
           \/ PrintRow
  <2>1. pc' # "print"
    BY <1>3 DEF OpenCounter, CloseCounter, Warmup, ReadBefore, Run, ReadAfter, PrintRow
  <2> QED BY <1>1, <2>1
<1>4. CASE Interrupt \/ Evict \/ UNCHANGED vars
  <2>1. CASE pc = "print"
    <3>1. /\ pass' = pass /\ bad' = bad /\ badEmpty' = badEmpty /\ bench' = bench
          /\ ways' = ways /\ waysEmpty' = waysEmpty /\ result' = result
      BY <1>4, <2>1 DEF Interrupt, Evict, Sampling, vars, sampleVars, ghostVars
    <3> QED BY <2>1, <3>1, SamePass DEF MedianIsWork, Mostly
  <2>2. CASE pc # "print"
    <3>1. pc' # "print"
      BY <1>4, <2>2 DEF Interrupt, Evict, vars
    <3> QED BY <1>1, <3>1
  <2> QED BY <2>1, <2>2
<1> QED BY <1>2, <1>3, <1>4 DEF Next

-------------------------------------------------------------------------------

LEMMA PassInit == Init => PassInv
<1> SUFFICES ASSUME Init PROVE PassInv
  OBVIOUS
<1>1. PlaceInv /\ FdInv /\ EventsInv /\ SampleTypes /\ SampleLengths /\ WaysLengths
  BY PlaceInit, FdInit, EventsInit, SamplesInit
<1>2. pc = "open" /\ bench = 0 /\ \A k \in Counters : deltas[k] = <<>>
  BY DEF Init, Each
<1>3. CountInv
  BY <1>2 DEF CountInv, Sampling
<1>4. DeltasInv
  <2>1. 1..Len(<<>>) = {}
    OBVIOUS
  <2> QED BY <1>2, <2>1 DEF DeltasInv
<1>5. EmptiesInv /\ MedianIsWork
  BY <1>2 DEF EmptiesInv, MedianIsWork
<1> QED BY <1>1, <1>3, <1>4, <1>5, SamplesParts DEF PassInv

LEMMA PassStep ==
  ASSUME PassInv, [Next]_vars
  PROVE  PassInv'
<1>1. /\ PlaceInv /\ FdInv /\ EventsInv /\ SampleTypes /\ SampleLengths /\ WaysLengths
      /\ CountInv /\ DeltasInv /\ EmptiesInv /\ MedianIsWork
  BY SamplesParts DEF PassInv
<1>2. PlaceInv'
  BY <1>1, PlaceStep
<1>3. FdInv'
  BY <1>1, FdStep
<1>4. EventsInv'
  BY <1>1, EventsStep
<1>5. SampleTypes'
  BY <1>1, SampleTypesStep
<1>6. SampleLengths'
  BY <1>1, <1>2, <1>5, SampleLengthsStep
<1>7. WaysLengths'
  BY <1>1, <1>5, WaysLengthsStep
<1>8. CountInv'
  BY <1>1, <1>2, CountStep
<1>9. DeltasInv'
  BY <1>1, <1>2, <1>5, DeltasStep
<1>10. EmptiesInv' /\ MedianIsWork'
  BY <1>1, EmptiesStep, MedianStep
<1>11. SamplesInv'
  <2>1. (SampleTypes /\ SampleLengths /\ WaysLengths => SamplesInv)'
    BY DEF SamplesInv, SampleTypes, SampleLengths, WaysLengths, Words, Sampling
  <2> QED BY <1>5, <1>6, <1>7, <2>1
<1> QED BY <1>2, <1>3, <1>4, <1>8, <1>9, <1>10, <1>11 DEF PassInv

\* The inductive invariant of the passes.
THEOREM PassInvariant == Spec => []PassInv
<1>1. Init => PassInv
  BY PassInit
<1>2. PassInv /\ [Next]_vars => PassInv'
  BY PassStep
<1> QED BY <1>1, <1>2, PTL DEF Spec

\* Every variable has its type in every reachable state: a difference of two
\* reads is a word, whatever was read, and there are never more samples than
\* asked for.
THEOREM TypeCorrect == Spec => []TypeOK
<1>1. PassInv => TypeOK
  <2> SUFFICES ASSUME PassInv PROVE TypeOK
    OBVIOUS
  <2>1. PlaceInv /\ FdInv /\ EventsInv /\ SampleTypes /\ SampleLengths
    BY SamplesParts DEF PassInv
  <2>2. \A k \in Counters : deltas[k] \in Seq(Words) /\ Len(deltas[k]) <= Samples
    <3>1. ASSUME NEW k \in Counters PROVE deltas[k] \in Seq(Words) /\ Len(deltas[k]) <= Samples
      <4>1. deltas[k] \in Seq(Words)
        BY <2>1 DEF SampleTypes
      <4>2. \/ Len(deltas[k]) < Samples
            \/ Len(deltas[k]) = Samples
            \/ deltas[k] = <<>>
        BY <2>1 DEF SampleLengths
      <4> DEFINE n == Len(deltas[k])
      <4>3. n \in Nat /\ (n < Samples \/ n = Samples \/ n = 0)
        BY <4>1, <4>2
      <4> HIDE DEF n
      <4>4. n <= Samples
        BY <4>3, ConstantTypes
      <4> QED BY <4>1, <4>4 DEF n
    <3> QED BY <3>1
  <2>3. {before, after} \subseteq [Counters -> 0..(WordSize - 1)]
    BY <2>1 DEF SampleTypes, Words
  <2>4. {empties, result} \subseteq [Counters -> Int]
    BY <2>1 DEF SampleTypes
  <2>5. {bad, badEmpty} \subseteq [Counters -> SUBSET (1..Samples)]
    BY <2>1 DEF SampleTypes
  <2>6. fd \in [Counters -> {-1} \cup Nat] /\ rdpmcOk \in [Counters -> BOOLEAN]
    BY <2>1 DEF FdInv
  <2>7. started \in [Counters -> Nat] /\ {ways, waysEmpty} \subseteq Seq([Counters -> Ways])
    BY <2>1 DEF SampleTypes
  <2>8. /\ others \in Others /\ capRdpmc \in BOOLEAN
        /\ \A f \in DOMAIN events : events[f] \in [on : BOOLEAN, system : BOOLEAN, total : Nat]
    BY <2>1 DEF EventsInv
  <2> HIDE DEF PassInv
  <2> QED BY <2>1, <2>2, <2>3, <2>4, <2>5, <2>6, <2>7, <2>8 DEF TypeOK, PlaceInv, Words
<1> QED BY <1>1, PassInvariant, PTL

\* Whichever pmc_open or mmap fails, in whichever pass: a descriptor is held by
\* one counter and open, or by none and closed.
THEOREM DescriptorsOwned == Spec => []OwnedFds
<1>1. PassInv => OwnedFds
  BY DEF PassInv, FdInv
<1> QED BY <1>1, PassInvariant, PTL

\* No counter of a pass is measured without a register: the passes are small
\* enough for what somebody else may hold (RegistersAssumption), and what an
\* earlier pass opened has been closed.
THEOREM CountersTogether == Spec => []AllCounting
<1>1. PassInv => AllCounting
  <2> SUFFICES ASSUME PassInv, Sampling, disturbs = 0, NEW k \in Counters
               PROVE  events[fd[k]].on
    BY DEF AllCounting
  <2>1. fd[k] \in DOMAIN events
    <3>1. PlaceInv /\ FdInv /\ EventsInv /\ Measuring
      BY DEF PassInv, Measuring
    <3> QED BY <3>1, ReadType
  <2> QED BY <2>1 DEF PassInv, EventsInv
<1> QED BY <1>1, PassInvariant, PTL

\* For any number of samples, and interruptions, evictions and registers that
\* begin anew at any point: a printed median is the benchmark's own count, the
\* loop having cancelled out, and the reads of all the counters as far as they
\* went the same ways in the empty loop's samples, if fewer than half of the
\* samples of either measurement were disturbed or read in other ways.
THEOREM MediansAreWork == Spec => []MedianIsWork
<1>1. PassInv => MedianIsWork
  BY DEF PassInv
<1> QED BY <1>1, PassInvariant, PTL

===============================================================================
