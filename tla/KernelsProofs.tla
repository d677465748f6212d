------------------------------ MODULE KernelsProofs ------------------------------
(***************************************************************************)
(* Proofs about Kernels: every row of every harness prints what it is named*)
(* for, whatever the latencies, the numbers of pipes and the iterations.   *)
(*                                                                         *)
(* 1. Every row is a chain, a row of independent streams or a round trip   *)
(*    through memory (RowShapes), so that the core can time each of its    *)
(*    instructions (TypeCorrect).                                          *)
(* 2. What the empty loop costs (EmptyCost).                               *)
(* 3. What the chains and the round trips cost (ChainCost, TripCost), hence*)
(*    RowsShowLatency; and what a load costs that does not wait            *)
(*    (UnchainedCost), hence UnchainedRowsShowNothing.                     *)
(* 4. What the streams cost (StreamCost), hence RowsShowThroughput.        *)
(***************************************************************************)
EXTENDS Kernels, Facts, SequenceTheorems

\* The paths of ordinary operands, and those of the store-forwarding rows.
Plain == {"dst", "src", "src1", "src2", "factor", "addend", "cf", "zf", "test", "add"}
PathNames == Plain \cup {"and", "fwd", "stall", "one", "data"}

\* The instructions of the rows.
Insn == [unit : Units, reads : SUBSET (Locations \X PathNames), writes : SUBSET Locations,
         loads : SUBSET Int, stores : SUBSET Int]


\* The path whose latency the j-th instruction of row k promises.
PathOf(k, j) == k.shows[IF Len(k.shows) = Len(k.body) THEN j ELSE 1]

\* Every instruction waits for the one before it, the first of the next copy of the
\* body for the last, along the promised paths; what else it waits for is plain.
ChainedBody(k, regs, start) ==
  /\ \A j \in 1..Len(k.body) :
       /\ k.body[j] \in Insn /\ k.body[j].unit # "store"
       /\ k.body[j].loads = {} /\ k.body[j].stores = {}
       /\ <<regs[j], PathOf(k, j)>> \in k.body[j].reads
       /\ regs[IF j = Len(k.body) THEN 1 ELSE j + 1] \in k.body[j].writes
       /\ PathOf(k, j) \in Plain
       /\ \A r \in k.body[j].reads :
            r[2] = PathOf(k, j) \/ r[2] \in Plain \ Range(k.shows)
  /\ start \in Locations \ {"i", "CF", "ZF"}
  /\ start \in k.body[Len(k.body)].writes
  /\ \E q \in PathNames : <<start, q>> \in k.body[1].reads

\* A chain of one instruction or of two in turns, by the paths that the row promises.
ChainedRow(k) ==
  /\ k.kind = "lat" /\ k.file # "storefwd" /\ k.body \in Seq(Insn)
  /\ Len(k.body) \in 1..2 /\ k.reps \in Nat /\ k.reps * Len(k.body) = 64 /\ k.ops = 64
  /\ k.shows \in Seq(PathNames) /\ Len(k.shows) \in 1..Len(k.body)
  /\ k.tail \in {<<>>, <<SetZF>>}
  /\ \E regs \in [1..Len(k.body) -> Locations], start \in Locations : ChainedBody(k, regs, start)

\* One instruction per register, each waiting for itself or for nothing in the loop.
StreamRow(k) ==
  /\ k.kind = "tput" /\ k.file # "storefwd" /\ k.tail = <<>> /\ k.shows = <<>>
  /\ k.body \in Seq(Insn)
  /\ \/ Len(k.body) = 4 /\ k.reps = 16 /\ k.ops = 64
     \/ Len(k.body) = 8 /\ k.reps = 8 /\ k.ops = 64
     \/ Len(k.body) = 8 /\ k.reps = 64 /\ k.ops = 512
  /\ \E unit \in {"alu", "fp", "load"}, paths \in (SUBSET Plain) \ {{}}, from \in {"own", "k"} :
       \A j \in 1..Len(k.body) :
         k.body[j] = Op(unit, {IF from = "k" THEN "k" ELSE Eight[j]} \X paths, {Eight[j]})

\* A store, a load and a mask; how the load overlaps the store decides what it waits for.
TripRow(k) ==
  /\ k.file = "storefwd" /\ k.reps = 32 /\ k.ops = 32 /\ k.tail = <<>>
  /\ \E st \in SUBSET Int, ld \in SUBSET Int :
       /\ st # {} /\ ld # {}
       /\ k.body = <<Store(st), Load(ld), Mask>>
       /\ \/ /\ k.kind = "lat" /\ k.shows = <<"fwd">> /\ k.name # "E1"
             /\ ld \subseteq st
          \/ /\ k.kind = "lat" /\ k.shows = <<"stall">> /\ k.name # "E1"
             /\ ~(ld \subseteq st) /\ ld \cap st # {}
          \/ /\ k.kind = "lat" /\ k.shows = <<"stall">> /\ k.name = "E1"
             /\ ld \cap st = {} /\ { b % 4096 : b \in ld } \cap st # {}
          \/ /\ k.kind = "control" /\ k.shows = <<>> /\ k.name # "E1"
             /\ ld \cap st = {} /\ { b % 4096 : b \in ld } \cap st = {}

\* The fourteen locations, one by one.
LEMMA LocationsAre ==
  Locations = {"a", "b", "c", "d", "e", "f", "g", "h", "x", "i", "k", "CF", "ZF", "mem"}
<1>1. Range(Eight) = {"a", "b", "c", "d", "e", "f", "g", "h"}
  BY DEF Range, Eight
<1> QED BY <1>1 DEF Locations

\* An instruction of the form Op is one.
LEMMA OpIsInsn ==
  ASSUME NEW unit \in Units, NEW reads \in SUBSET (Locations \X PathNames),
         NEW writes \in SUBSET Locations
  PROVE  /\ Op(unit, reads, writes) \in Insn
         /\ Op(unit, reads, writes).unit = unit
         /\ Op(unit, reads, writes).reads = reads
         /\ Op(unit, reads, writes).writes = writes
         /\ Op(unit, reads, writes).loads = {}
         /\ Op(unit, reads, writes).stores = {}
  BY DEF Op, Insn

\* One instruction that waits for the one before it.
Single(k, unit, reads, writes, via, shows, start) ==
  /\ unit \in {"alu", "fp", "load"} /\ reads \in SUBSET (Locations \X PathNames)
  /\ writes \in SUBSET Locations
  /\ <<via, shows>> \in reads /\ via \in writes
  /\ start \in writes \ {"i", "CF", "ZF"} /\ \E q \in PathNames : <<start, q>> \in reads
  /\ \A r \in reads : r[2] \in Plain
  /\ k.kind = "lat" /\ k.file # "storefwd" /\ k.reps = 64 /\ k.ops = 64
  /\ k.tail \in {<<>>, <<SetZF>>} /\ k.shows = <<shows>> /\ k.body = <<Op(unit, reads, writes)>>

\* A row of one instruction that reads what it writes is a chain.
LEMMA OneRow ==
  ASSUME NEW k, NEW unit, NEW reads, NEW writes, NEW via, NEW shows, NEW start,
         Single(k, unit, reads, writes, via, shows, start)
  PROVE  ChainedRow(k)
<1> USE DEF Single
<1> DEFINE regs == [j \in 1..1 |-> via]
<1>1. /\ shows \in Plain /\ shows \in PathNames /\ via \in Locations /\ start \in Locations
      /\ unit \in Units
  <2>1. <<via, shows>>[2] \in Plain
    OBVIOUS
  <2> QED BY <2>1 DEF Plain, PathNames, Units
<1>2. /\ Len(k.body) = 1 /\ Len(k.shows) = 1 /\ k.shows[1] = shows /\ k.shows \in Seq(PathNames)
      /\ k.reps \in Nat /\ k.reps * Len(k.body) = 64
  BY <1>1
<1>3. k.body[1] = Op(unit, reads, writes)
  OBVIOUS
<1>4. Range(k.shows) = {shows}
  BY DEF Range
<1>5. /\ k.body[1] \in Insn /\ k.body[1].unit = unit /\ k.body[1].loads = {}
      /\ k.body[1].stores = {} /\ k.body[1].reads = reads /\ k.body[1].writes = writes
  <2>1. Op(unit, reads, writes) \in Insn
    BY <1>1, OpIsInsn
  <2>2. /\ Op(unit, reads, writes).unit = unit /\ Op(unit, reads, writes).loads = {}
        /\ Op(unit, reads, writes).stores = {} /\ Op(unit, reads, writes).reads = reads
        /\ Op(unit, reads, writes).writes = writes
    BY DEF Op
  <2> QED BY <1>3, <2>1, <2>2
<1>6. PathOf(k, 1) = shows
  BY <1>2 DEF PathOf
<1>7. ChainedBody(k, regs, start)
  BY <1>1, <1>2, <1>4, <1>5, <1>6 DEF ChainedBody
<1>8. regs \in [1..Len(k.body) -> Locations]
  BY <1>1, <1>2
<1>9. k.body \in Seq(Insn)
  <2>1. k.body = <<k.body[1]>>
    BY <1>3
  <2> QED BY <1>5, <2>1
<1> HIDE DEF regs
<1> QED BY <1>1, <1>2, <1>7, <1>8, <1>9 DEF ChainedRow

\* Two instructions that wait for each other.
Pair(k, reads1, writes1, reads2, writes2, via1, via2, s1, s2, start) ==
  /\ reads1 \in SUBSET (Locations \X PathNames) /\ writes1 \in SUBSET Locations
  /\ reads2 \in SUBSET (Locations \X PathNames) /\ writes2 \in SUBSET Locations
  /\ s1 \in Plain /\ s2 \in Plain
  /\ k.shows = <<s1, s2>> \/ (k.shows = <<s1>> /\ s1 = s2)
  /\ <<via1, s1>> \in reads1 /\ <<via2, s2>> \in reads2
  /\ via2 \in writes1 /\ via1 \in writes2
  /\ start \in writes2 \ {"i", "CF", "ZF"} /\ \E q \in PathNames : <<start, q>> \in reads1
  /\ \A r \in reads1 : r[2] = s1 \/ r[2] \in Plain \ {s1, s2}
  /\ \A r \in reads2 : r[2] = s2 \/ r[2] \in Plain \ {s1, s2}
  /\ k.kind = "lat" /\ k.file # "storefwd" /\ k.reps = 32 /\ k.ops = 64
  /\ k.tail \in {<<>>, <<SetZF>>}
  /\ k.body = <<Op("alu", reads1, writes1), Op("alu", reads2, writes2)>>

\* So is a row of two that read what the other writes.
LEMMA TwoRow ==
  ASSUME NEW k, NEW reads1, NEW writes1, NEW reads2, NEW writes2, NEW via1, NEW via2,
         NEW s1, NEW s2, NEW start,
         Pair(k, reads1, writes1, reads2, writes2, via1, via2, s1, s2, start)
  PROVE  ChainedRow(k)
<1> USE DEF Pair
<1> DEFINE regs == [j \in 1..2 |-> IF j = 1 THEN via1 ELSE via2]
<1>1. Len(k.body) = 2 /\ k.reps * Len(k.body) = 64 /\ k.reps \in Nat
  OBVIOUS
<1>2. /\ \A j \in 1..2 : k.body[j] \in Insn /\ k.body[j].unit # "store"
                         /\ k.body[j].loads = {} /\ k.body[j].stores = {}
      /\ k.body[1].reads = reads1 /\ k.body[1].writes = writes1
      /\ k.body[2].reads = reads2 /\ k.body[2].writes = writes2
  <2>1. "alu" \in Units
    BY DEF Units
  <2>2. Op("alu", reads1, writes1) \in Insn /\ Op("alu", reads2, writes2) \in Insn
    BY <2>1, OpIsInsn
  <2>3. /\ Op("alu", reads1, writes1).unit = "alu" /\ Op("alu", reads1, writes1).loads = {}
        /\ Op("alu", reads1, writes1).stores = {} /\ Op("alu", reads1, writes1).reads = reads1
        /\ Op("alu", reads1, writes1).writes = writes1
    BY DEF Op
  <2>4. /\ Op("alu", reads2, writes2).unit = "alu" /\ Op("alu", reads2, writes2).loads = {}
        /\ Op("alu", reads2, writes2).stores = {} /\ Op("alu", reads2, writes2).reads = reads2
        /\ Op("alu", reads2, writes2).writes = writes2
    BY DEF Op
  <2>5. k.body[1] = Op("alu", reads1, writes1) /\ k.body[2] = Op("alu", reads2, writes2)
    OBVIOUS
  <2> QED BY <2>2, <2>3, <2>4, <2>5
<1>3. PathOf(k, 1) = s1 /\ PathOf(k, 2) = s2
  <2>1. CASE k.shows = <<s1, s2>>
    <3>1. Len(k.shows) = 2 /\ k.shows[1] = s1 /\ k.shows[2] = s2
      BY <2>1
    <3> QED BY <1>1, <3>1 DEF PathOf
  <2>2. CASE k.shows = <<s1>> /\ s1 = s2
    <3>1. Len(k.shows) = 1 /\ k.shows[1] = s1
      BY <2>2
    <3> QED BY <1>1, <2>2, <3>1 DEF PathOf
  <2> QED BY <2>1, <2>2
<1>4. ChainedBody(k, regs, start)
  <2>1. regs[1] = via1 /\ regs[2] = via2 /\ 1..Len(k.body) = {1, 2}
    BY <1>1
  <2>2. start \in Locations \ {"i", "CF", "ZF"} /\ start \in k.body[Len(k.body)].writes
        /\ \E p \in PathNames : <<start, p>> \in k.body[1].reads
    BY <1>1, <1>2
  <2>3. \A j \in {1, 2} :
          /\ <<regs[j], PathOf(k, j)>> \in k.body[j].reads
          /\ regs[IF j = 2 THEN 1 ELSE j + 1] \in k.body[j].writes
          /\ PathOf(k, j) \in Plain
          /\ \A r \in k.body[j].reads : r[2] = PathOf(k, j) \/ r[2] \in Plain \ Range(k.shows)
    <3> HIDE DEF regs
    <3>1. Range(k.shows) = {s1, s2}
      BY DEF Range
    <3>2. /\ <<regs[1], PathOf(k, 1)>> \in k.body[1].reads
          /\ regs[2] \in k.body[1].writes
          /\ PathOf(k, 1) \in Plain
          /\ \A r \in k.body[1].reads : r[2] = PathOf(k, 1) \/ r[2] \in Plain \ Range(k.shows)
      BY <1>2, <1>3, <2>1, <3>1
    <3>3. /\ <<regs[2], PathOf(k, 2)>> \in k.body[2].reads
          /\ regs[1] \in k.body[2].writes
          /\ PathOf(k, 2) \in Plain
          /\ \A r \in k.body[2].reads : r[2] = PathOf(k, 2) \/ r[2] \in Plain \ Range(k.shows)
      BY <1>2, <1>3, <2>1, <3>1
    <3> QED BY <3>2, <3>3
  <2> HIDE DEF regs
  <2> QED BY <1>1, <1>2, <2>1, <2>2, <2>3 DEF ChainedBody
<1>5. start \in Locations /\ via1 \in Locations /\ via2 \in Locations
  OBVIOUS
<1>7. Len(k.shows) \in 1..Len(k.body) /\ k.shows \in Seq(PathNames) /\ Len(k.body) \in 1..2
  <2>1. s1 \in PathNames /\ s2 \in PathNames
    BY DEF PathNames
  <2>2. CASE k.shows = <<s1, s2>>
    <3>1. Len(k.shows) = 2 /\ k.shows \in Seq(PathNames)
      BY <2>1, <2>2
    <3> QED BY <1>1, <3>1
  <2>3. CASE k.shows = <<s1>> /\ s1 = s2
    <3>1. Len(k.shows) = 1 /\ k.shows \in Seq(PathNames)
      BY <2>1, <2>3
    <3> QED BY <1>1, <3>1
  <2> QED BY <2>2, <2>3
<1>6. regs \in [1..Len(k.body) -> Locations]
  BY <1>1, <1>5
<1> HIDE DEF regs
<1>8. \E r \in [1..Len(k.body) -> Locations], s \in Locations : ChainedBody(k, r, s)
  BY <1>4, <1>5, <1>6, Zenon
<1>9. /\ k.kind = "lat" /\ k.file # "storefwd" /\ k.reps = 32 /\ k.ops = 64
      /\ k.tail \in {<<>>, <<SetZF>>}
  OBVIOUS
<1>10. k.body \in Seq(Insn)
  <2>1. k.body = <<k.body[1], k.body[2]>>
    OBVIOUS
  <2>2. k.body[1] \in Insn /\ k.body[2] \in Insn
    BY <1>2
  <2>3. \A i1, i2 \in Insn : <<i1, i2>> \in Seq(Insn)
    OBVIOUS
  <2> QED BY ONLY <2>1, <2>2, <2>3, Zenon
<1> QED BY ONLY <1>1, <1>7, <1>8, <1>9, <1>10 DEF ChainedRow

\* A row of one instruction that reads its own destination, whose path it promises.
LEMMA LatRow ==
  ASSUME NEW file, file # "storefwd", NEW n, NEW unit \in {"alu", "fp", "load"},
         NEW paths \in SUBSET Plain, NEW shows \in paths, NEW k,
         k = [Lat(n, unit, paths, shows) EXCEPT !.file = file]
  PROVE  ChainedRow(k)
<1>4. /\ k.kind = "lat" /\ k.file # "storefwd" /\ k.reps = 64
      /\ k.ops = 64 /\ k.tail = <<>> /\ k.shows = <<shows>> /\ k.body = <<Self(unit, "x", paths)>>
  BY DEF Lat, Row
<1> DEFINE reads == {"x"} \X paths
<1>5. /\ reads \in SUBSET (Locations \X PathNames) /\ \A r2 \in reads : r2[2] \in Plain
      /\ <<"x", shows>> \in reads /\ shows \in PathNames
      /\ "x" \in {"x"} \ {"i", "CF", "ZF"}
  <2>1. "x" \in Locations /\ paths \subseteq PathNames /\ shows \in PathNames
    BY LocationsAre DEF Plain, PathNames
  <2>2. \A r2 \in reads : r2[2] \in paths
    OBVIOUS
  <2>3. <<"x", shows>> \in reads
    OBVIOUS
  <2>4. reads \in SUBSET (Locations \X PathNames)
    BY <2>1
  <2> QED BY <2>1, <2>2, <2>3, <2>4
<1>6. k.body = <<Op(unit, reads, {"x"})>> /\ {"x"} \in SUBSET Locations
  BY <1>4, LocationsAre DEF Self
<1>7. k.tail \in {<<>>, <<SetZF>>} /\ unit \in {"alu", "fp", "load"}
  BY <1>4
<1> HIDE DEF reads
<1>8. Single(k, unit, reads, {"x"}, "x", shows, "x")
  BY ONLY <1>4, <1>5, <1>6, <1>7 DEF Single
<1> QED BY <1>8, OneRow

\* The eight integer chains of every latency harness are chains.
LEMMA IntChainRows ==
  ASSUME NEW file, file # "storefwd", NEW k \in In(file, IntChains)
  PROVE  ChainedRow(k)
<1>1. PICK r \in IntChains : k = [r EXCEPT !.file = file]
  BY DEF In
<1>2. \/ \E n : r = Lat(n, "alu", {"dst"}, "dst")
      \/ \E n : r = Lat(n, "alu", {"src"}, "src")
      \/ \E n : r = Lat(n, "alu", {"dst", "src"}, "dst")
  BY <1>1, Zenon DEF IntChains
<1>3. {{"dst"}, {"src"}, {"dst", "src"}} \subseteq SUBSET Plain
  BY DEF Plain
<1> QED BY <1>1, <1>2, <1>3, LatRow

\* So are the five floating-point and load chains.
LEMMA FpChainRows ==
  ASSUME NEW file, file # "storefwd", NEW k \in In(file, FpChains)
  PROVE  ChainedRow(k)
<1>1. PICK r \in FpChains : k = [r EXCEPT !.file = file]
  BY DEF In
<1>2. \/ \E n : r = Lat(n, "fp", {"dst"}, "dst")
      \/ \E n : r = Lat(n, "fp", {"src", "dst"}, "src")
      \/ \E n : r = Lat(n, "load", {"src"}, "src")
  BY <1>1, Zenon DEF FpChains
<1>3. {{"dst"}, {"src"}, {"src", "dst"}} \subseteq SUBSET Plain
  BY DEF Plain
<1> QED BY <1>1, <1>2, <1>3, LatRow

\* And those of src/uops_research.cpp, which has one more.
LEMMA ResearchLatencyRows ==
  ASSUME NEW k \in ResearchLatency
  PROVE  ChainedRow(k)
<1>1. \/ k \in In("research", IntChains)
      \/ k \in In("research", FpChains)
      \/ \E n : k = [Lat(n, "alu", {"dst"}, "dst") EXCEPT !.file = "research"]
  BY Zenon DEF ResearchLatency, In
<1>2. {"dst"} \in SUBSET Plain
  BY DEF Plain
<1> QED BY <1>1, <1>2, IntChainRows, FpChainRows, LatRow

\* src/uops_op2op.cpp.
LEMMA MemoryOperandChains ==
  ASSUME NEW k \in MemoryOperandRows
  PROVE  ChainedRow(k)
<1>1. PICK n, r : /\ k = [r EXCEPT !.file = "op2op"]
                  /\ \/ r = Lat(n, "load", {"src"}, "src")
                     \/ r = Lat(n, "alu", {"dst"}, "dst")
                     \/ r = Row("lat", n, <<Self("alu", "x", {"add"}), Self("alu", "x", {"dst"})>>,
                                32, <<"add", "dst">>)
  BY Zenon DEF MemoryOperandRows, In
<1>2. CASE r = Lat(n, "load", {"src"}, "src") \/ r = Lat(n, "alu", {"dst"}, "dst")
  <2>1. {{"dst"}, {"src"}} \subseteq SUBSET Plain
    BY DEF Plain
  <2> QED BY <1>1, <1>2, <2>1, LatRow
<1>3. CASE r = Row("lat", n, <<Self("alu", "x", {"add"}), Self("alu", "x", {"dst"})>>,
                   32, <<"add", "dst">>)
  <2> DEFINE one == {"x"} \X {"add"}
             two == {"x"} \X {"dst"}
             regs == [j \in 1..2 |-> "x"]
  <2>1. /\ k.kind = "lat" /\ k.file # "storefwd" /\ k.reps = 32
        /\ k.ops = 64 /\ k.tail = <<>> /\ k.shows = <<"add", "dst">>
        /\ k.body = <<Op("alu", one, {"x"}), Op("alu", two, {"x"})>>
    BY <1>1, <1>3 DEF Row, Self
  <2>2. /\ one \in SUBSET (Locations \X PathNames) /\ two \in SUBSET (Locations \X PathNames)
        /\ \A r2 \in one : r2[2] = "add"
        /\ \A r2 \in two : r2[2] = "dst"
        /\ <<"x", "add">> \in one /\ <<"x", "dst">> \in two /\ {"x"} \in SUBSET Locations
    BY LocationsAre DEF PathNames, Plain
  <2>3. {"add", "dst"} \subseteq Plain /\ "add" \in PathNames /\ "x" \in {"x"} \ {"i", "CF", "ZF"}
    BY DEF PathNames, Plain
  <2>4. /\ \A r2 \in one : r2[2] = "add" \/ r2[2] \in Plain \ {"add", "dst"}
        /\ \A r2 \in two : r2[2] = "dst" \/ r2[2] \in Plain \ {"add", "dst"}
        /\ "x" \in {"x"} /\ k.tail \in {<<>>, <<SetZF>>}
    BY <2>1, <2>2
  <2> HIDE DEF one, two
  <2>5. Pair(k, one, {"x"}, two, {"x"}, "x", "x", "add", "dst", "x")
    BY ONLY <2>1, <2>2, <2>3, <2>4 DEF Pair
  <2> QED BY <2>5, TwoRow
<1> QED BY <1>1, <1>2, <1>3

\* One instruction on the register a, its flags and perhaps b.
LEMMA CarryChains ==
  ASSUME NEW k \in CarryRows
  PROVE  ChainedRow(k)
<1>1. PICK n, r : /\ k = [r EXCEPT !.file = "op2op"]
                  /\ \/ r = Row("lat", n, <<AddCarry("a", {})>>, 64, <<"dst">>)
                     \/ r = Row("lat", n, <<AddCarry("a", {"b"}), AddCarry("b", {"a"})>>, 32,
                                <<"src">>)
                     \/ r = Row("lat", n, <<AddCarry("a", {})>>, 64, <<"cf">>)
  <2>1. PICK r : /\ k = [r EXCEPT !.file = "op2op"]
                 /\ \E n : r \in { Row("lat", n \o " dst->dst", <<AddCarry("a", {})>>, 64, <<"dst">>),
                                  Row("lat", n \o " src->dst",
                                      <<AddCarry("a", {"b"}), AddCarry("b", {"a"})>>, 32, <<"src">>),
                                  Row("lat", n \o " CF->dst", <<AddCarry("a", {})>>, 64, <<"cf">>) }
    BY Zenon DEF CarryRows, In
  <2>2. \E n : \/ r = Row("lat", n, <<AddCarry("a", {})>>, 64, <<"dst">>)
               \/ r = Row("lat", n, <<AddCarry("a", {"b"}), AddCarry("b", {"a"})>>, 32, <<"src">>)
               \/ r = Row("lat", n, <<AddCarry("a", {})>>, 64, <<"cf">>)
    BY <2>1, Zenon
  <2> QED BY <2>1, <2>2, Zenon
<1> DEFINE none == {<<"a", "dst">>, <<"CF", "cf">>}
           one == {<<"a", "dst">>, <<"CF", "cf">>, <<"b", "src">>}
           two == {<<"b", "dst">>, <<"CF", "cf">>, <<"a", "src">>}
<1>2. /\ AddCarry("a", {}) = Op("alu", none, {"a", "CF", "ZF"})
      /\ AddCarry("a", {"b"}) = Op("alu", one, {"a", "CF", "ZF"})
      /\ AddCarry("b", {"a"}) = Op("alu", two, {"b", "CF", "ZF"})
  <2>1. {<<"a", "dst">>, <<"CF", "cf">>} \cup ({} \X {"src"}) = none
    OBVIOUS
  <2>2. {<<"a", "dst">>, <<"CF", "cf">>} \cup ({"b"} \X {"src"}) = one
    OBVIOUS
  <2>3. {<<"b", "dst">>, <<"CF", "cf">>} \cup ({"a"} \X {"src"}) = two
    OBVIOUS
  <2> HIDE DEF none, one, two
  <2> QED BY <2>1, <2>2, <2>3 DEF AddCarry
<1>3. /\ none \in SUBSET (Locations \X PathNames) /\ one \in SUBSET (Locations \X PathNames)
      /\ two \in SUBSET (Locations \X PathNames)
      /\ {"a", "CF", "ZF"} \in SUBSET Locations /\ {"b", "CF", "ZF"} \in SUBSET Locations
  BY LocationsAre DEF PathNames, Plain
<1>4. /\ \A r2 \in none : r2[2] \in Plain
      /\ {"dst", "cf", "src"} \subseteq Plain /\ {"dst", "cf", "src"} \subseteq PathNames
  BY DEF PathNames, Plain
<1>6. CASE r = Row("lat", n, <<AddCarry("a", {})>>, 64, <<"dst">>)
  <2>1. /\ k.kind = "lat" /\ k.file # "storefwd" /\ k.ops = 64 /\ k.tail = <<>>
        /\ k.reps = 64 /\ k.shows = <<"dst">> /\ k.body = <<Op("alu", none, {"a", "CF", "ZF"})>>
    BY <1>1, <1>2, <1>6 DEF Row
  <2>2. /\ "dst" \in PathNames /\ <<"a", "dst">> \in none /\ "a" \in {"a", "CF", "ZF"}
        /\ "a" \in {"a", "CF", "ZF"} \ {"i", "CF", "ZF"} /\ "alu" \in {"alu", "fp", "load"}
    BY <1>4
  <2> HIDE DEF none
  <2>3. Single(k, "alu", none, {"a", "CF", "ZF"}, "a", "dst", "a")
    BY ONLY <1>3, <1>4, <2>1, <2>2 DEF Single
  <2> QED BY <2>3, OneRow
<1>7. CASE r = Row("lat", n, <<AddCarry("a", {})>>, 64, <<"cf">>)
  <2>1. /\ k.kind = "lat" /\ k.file # "storefwd" /\ k.ops = 64 /\ k.tail = <<>>
        /\ k.reps = 64 /\ k.shows = <<"cf">> /\ k.body = <<Op("alu", none, {"a", "CF", "ZF"})>>
    BY <1>1, <1>2, <1>7 DEF Row
  <2>2. /\ "dst" \in PathNames /\ <<"CF", "cf">> \in none /\ "CF" \in {"a", "CF", "ZF"}
        /\ "a" \in {"a", "CF", "ZF"} \ {"i", "CF", "ZF"} /\ <<"a", "dst">> \in none
        /\ "alu" \in {"alu", "fp", "load"}
    BY <1>4
  <2> HIDE DEF none
  <2>3. Single(k, "alu", none, {"a", "CF", "ZF"}, "CF", "cf", "a")
    BY ONLY <1>3, <1>4, <2>1, <2>2 DEF Single
  <2> QED BY <2>3, OneRow
<1>8. CASE r = Row("lat", n, <<AddCarry("a", {"b"}), AddCarry("b", {"a"})>>, 32, <<"src">>)
  <2>1. /\ k.kind = "lat" /\ k.file # "storefwd" /\ k.ops = 64 /\ k.tail = <<>>
        /\ k.reps = 32 /\ k.shows = <<"src">>
        /\ k.body = <<Op("alu", one, {"a", "CF", "ZF"}), Op("alu", two, {"b", "CF", "ZF"})>>
    BY <1>1, <1>2, <1>8 DEF Row
  <2>2. /\ "src" \in PathNames /\ <<"b", "src">> \in one /\ <<"a", "src">> \in two
        /\ "a" \in {"a", "CF", "ZF"} /\ "b" \in {"b", "CF", "ZF"}
        /\ "b" \in {"b", "CF", "ZF"} \ {"i", "CF", "ZF"} /\ "src" \in Plain
        /\ k.tail \in {<<>>, <<SetZF>>}
    BY <1>4, <2>1
  <2>3. /\ \A r2 \in one : r2[2] = "src" \/ r2[2] \in Plain \ {"src", "src"}
        /\ \A r2 \in two : r2[2] = "src" \/ r2[2] \in Plain \ {"src", "src"}
    BY <1>4
  <2> HIDE DEF one, two
  <2>4. Pair(k, one, {"a", "CF", "ZF"}, two, {"b", "CF", "ZF"}, "b", "a", "src", "src", "b")
    BY ONLY <1>3, <2>1, <2>2, <2>3 DEF Pair
  <2> QED BY <2>4, TwoRow
<1> QED BY <1>1, <1>6, <1>7, <1>8

\* The cmovne rows of src/uops_op2op.cpp are chains, with their tails.
LEMMA CmovChains ==
  ASSUME NEW k \in CmovRows
  PROVE  ChainedRow(k)
<1>1. PICK n, r :
        /\ k = [r EXCEPT !.file = "op2op"]
        /\ \/ r = [Row("lat", n, <<CmovNE("a", {})>>, 64, <<"dst">>) EXCEPT !.tail = <<SetZF>>]
           \/ r = [Row("lat", n, <<CmovNE("a", {"b"}), CmovNE("b", {"a"})>>, 32, <<"src">>)
                     EXCEPT !.tail = <<SetZF>>]
           \/ r = Row("lat", n, <<Test("a"), CmovNE("a", {})>>, 32, <<"test", "zf">>)
  BY Zenon DEF CmovRows, In
<1> DEFINE none == {<<"a", "dst">>, <<"ZF", "zf">>}
           one == {<<"a", "dst">>, <<"ZF", "zf">>, <<"b", "src">>}
           two == {<<"b", "dst">>, <<"ZF", "zf">>, <<"a", "src">>}
           test == {<<"a", "test">>}
<1>2. /\ CmovNE("a", {}) = Op("alu", none, {"a"})
      /\ CmovNE("a", {"b"}) = Op("alu", one, {"a"})
      /\ CmovNE("b", {"a"}) = Op("alu", two, {"b"})
      /\ Test("a") = Op("alu", test, {"CF", "ZF"})
  <2>1. {<<"a", "dst">>, <<"ZF", "zf">>} \cup ({} \X {"src"}) = none
    OBVIOUS
  <2>2. {<<"a", "dst">>, <<"ZF", "zf">>} \cup ({"b"} \X {"src"}) = one
    OBVIOUS
  <2>3. {<<"b", "dst">>, <<"ZF", "zf">>} \cup ({"a"} \X {"src"}) = two
    OBVIOUS
  <2>4. Test("a") = Op("alu", test, {"CF", "ZF"})
    BY DEF Test
  <2> HIDE DEF none, one, two
  <2> QED BY <2>1, <2>2, <2>3, <2>4 DEF CmovNE
<1>3. /\ none \in SUBSET (Locations \X PathNames) /\ one \in SUBSET (Locations \X PathNames)
      /\ two \in SUBSET (Locations \X PathNames) /\ test \in SUBSET (Locations \X PathNames)
      /\ {"a"} \in SUBSET Locations /\ {"b"} \in SUBSET Locations
      /\ {"CF", "ZF"} \in SUBSET Locations
  BY LocationsAre DEF PathNames, Plain
<1>4. /\ \A r2 \in none : r2[2] \in Plain
      /\ {"dst", "zf", "src", "test"} \subseteq Plain
      /\ {"dst", "zf", "src", "test"} \subseteq PathNames
  BY DEF PathNames, Plain
<1>6. CASE r = [Row("lat", n, <<CmovNE("a", {})>>, 64, <<"dst">>) EXCEPT !.tail = <<SetZF>>]
  <2>1. /\ k.kind = "lat" /\ k.file # "storefwd" /\ k.ops = 64 /\ k.tail = <<SetZF>>
        /\ k.reps = 64 /\ k.shows = <<"dst">> /\ k.body = <<Op("alu", none, {"a"})>>
    BY <1>1, <1>2, <1>6 DEF Row
  <2>2. /\ "dst" \in PathNames /\ <<"a", "dst">> \in none /\ "a" \in {"a"}
        /\ "a" \in {"a"} \ {"i", "CF", "ZF"} /\ "alu" \in {"alu", "fp", "load"}
        /\ k.tail \in {<<>>, <<SetZF>>}
    BY <1>4, <2>1
  <2> HIDE DEF none
  <2>3. Single(k, "alu", none, {"a"}, "a", "dst", "a")
    BY ONLY <1>3, <1>4, <2>1, <2>2 DEF Single
  <2> QED BY <2>3, OneRow
<1>7. CASE r = [Row("lat", n, <<CmovNE("a", {"b"}), CmovNE("b", {"a"})>>, 32, <<"src">>)
                  EXCEPT !.tail = <<SetZF>>]
  <2>1. /\ k.kind = "lat" /\ k.file # "storefwd" /\ k.ops = 64 /\ k.tail = <<SetZF>>
        /\ k.reps = 32 /\ k.shows = <<"src">>
        /\ k.body = <<Op("alu", one, {"a"}), Op("alu", two, {"b"})>>
    BY <1>1, <1>2, <1>7 DEF Row
  <2>2. /\ "src" \in PathNames /\ <<"b", "src">> \in one /\ <<"a", "src">> \in two
        /\ "a" \in {"a"} /\ "b" \in {"b"}
        /\ "b" \in {"b"} \ {"i", "CF", "ZF"} /\ "src" \in Plain
        /\ k.tail \in {<<>>, <<SetZF>>}
    BY <1>4, <2>1
  <2>3. /\ \A r2 \in one : r2[2] = "src" \/ r2[2] \in Plain \ {"src", "src"}
        /\ \A r2 \in two : r2[2] = "src" \/ r2[2] \in Plain \ {"src", "src"}
    BY <1>4
  <2> HIDE DEF one, two
  <2>4. Pair(k, one, {"a"}, two, {"b"}, "b", "a", "src", "src", "b")
    BY ONLY <1>3, <2>1, <2>2, <2>3 DEF Pair
  <2> QED BY <2>4, TwoRow
<1>8. CASE r = Row("lat", n, <<Test("a"), CmovNE("a", {})>>, 32, <<"test", "zf">>)
  <2>1. /\ k.kind = "lat" /\ k.file # "storefwd" /\ k.ops = 64 /\ k.tail = <<>>
        /\ k.reps = 32 /\ k.shows = <<"test", "zf">>
        /\ k.body = <<Op("alu", test, {"CF", "ZF"}), Op("alu", none, {"a"})>>
    BY <1>1, <1>2, <1>8 DEF Row
  <2>2. /\ "test" \in PathNames /\ <<"a", "test">> \in test /\ <<"ZF", "zf">> \in none
        /\ "a" \in {"a"} /\ "ZF" \in {"CF", "ZF"}
        /\ "a" \in {"a"} \ {"i", "CF", "ZF"} /\ "test" \in Plain /\ "zf" \in Plain
        /\ k.tail \in {<<>>, <<SetZF>>}
    BY <1>4, <2>1
  <2>3. /\ \A r2 \in test : r2[2] = "test" \/ r2[2] \in Plain \ {"test", "zf"}
        /\ \A r2 \in none : r2[2] = "zf" \/ r2[2] \in Plain \ {"test", "zf"}
    BY <1>4
  <2> HIDE DEF none, test
  <2>4. Pair(k, test, {"CF", "ZF"}, none, {"a"}, "a", "ZF", "test", "zf", "a")
    BY ONLY <1>3, <2>1, <2>2, <2>3 DEF Pair
  <2> QED BY <2>4, TwoRow
<1> QED BY <1>1, <1>6, <1>7, <1>8

\* The registers of the streams: Four is the beginning of Eight.
LEMMA EightAre ==
  /\ Four \in [1..4 -> Locations] /\ Eight \in [1..8 -> Locations]
  /\ Len(Four) = 4 /\ Len(Eight) = 8
  /\ \A j \in 1..4 : Four[j] = Eight[j]
  /\ DOMAIN Four = 1..4 /\ DOMAIN Eight = 1..8
<1>1. \A j \in 1..4 : Four[j] \in Locations /\ Four[j] = Eight[j]
  BY LocationsAre DEF Four, Eight
<1>2. \A j \in 1..8 : Eight[j] \in Locations
  BY LocationsAre DEF Eight
<1>3. Four \in [1..4 -> Locations]
  BY <1>1 DEF Four
<1>4. Eight \in [1..8 -> Locations]
  BY <1>2 DEF Eight
<1>5. Len(Four) = 4 /\ Len(Eight) = 8 /\ DOMAIN Four = 1..4 /\ DOMAIN Eight = 1..8
  BY DEF Four, Eight
<1> QED BY <1>1, <1>3, <1>4, <1>5

\* The rows made of streams, whatever registers, copies and operations.
StreamBody(len, unit, paths, from) ==
  [n \in 1..len |-> Op(unit, {IF from = "k" THEN "k" ELSE Eight[n]} \X paths, {Eight[n]})]

\* The body of a row of streams consists of instructions.
LEMMA StreamBodyInsns ==
  ASSUME NEW len \in {4, 8}, NEW unit \in {"alu", "fp", "load"}, NEW paths \in SUBSET Plain,
         NEW from \in {"own", "k"}
  PROVE  StreamBody(len, unit, paths, from) \in Seq(Insn)
         /\ Len(StreamBody(len, unit, paths, from)) = len
<1> DEFINE body == StreamBody(len, unit, paths, from)
<1>1. ASSUME NEW n \in 1..len
      PROVE  Op(unit, {IF from = "k" THEN "k" ELSE Eight[n]} \X paths, {Eight[n]}) \in Insn
  <2> DEFINE source == IF from = "k" THEN "k" ELSE Eight[n]
             reads == {source} \X paths
  <2>1. Eight[n] \in Locations
    <3>1. n \in 1..8
      OBVIOUS
    <3> QED BY <3>1, EightAre
  <2>2. source \in Locations /\ paths \subseteq PathNames /\ unit \in Units
    BY <2>1, LocationsAre DEF PathNames, Plain, Units
  <2> HIDE DEF source
  <2>3. reads \in SUBSET (Locations \X PathNames) /\ {Eight[n]} \in SUBSET Locations
    BY <2>1, <2>2
  <2> HIDE DEF reads
  <2>4. Op(unit, reads, {Eight[n]}) \in Insn
    BY <2>2, <2>3, OpIsInsn
  <2> QED BY <2>4 DEF reads, source
<1>2. body \in [1..len -> Insn]
  BY <1>1 DEF StreamBody
<1> HIDE DEF body
<1>3. len \in Nat
  OBVIOUS
<1>4. body \in Seq(Insn) /\ Len(body) = len
  BY <1>2, <1>3
<1> QED BY <1>4 DEF body

\* A throughput row with such a body is a row of streams.
LEMMA StreamIsRow ==
  ASSUME NEW k, NEW len \in {4, 8}, NEW unit \in {"alu", "fp", "load"},
         NEW paths \in (SUBSET Plain) \ {{}}, NEW from \in {"own", "k"},
         k.kind = "tput", k.file # "storefwd", k.tail = <<>>, k.shows = <<>>,
         k.body = StreamBody(len, unit, paths, from),
         \/ len = 4 /\ k.reps = 16 /\ k.ops = 64
         \/ len = 8 /\ k.reps = 8 /\ k.ops = 64
         \/ len = 8 /\ k.reps = 64 /\ k.ops = 512
  PROVE  StreamRow(k)
<1>1. k.body \in Seq(Insn) /\ Len(k.body) = len
  <2>1. paths \in SUBSET Plain /\ len \in {4, 8} /\ unit \in {"alu", "fp", "load"}
        /\ from \in {"own", "k"}
    OBVIOUS
  <2>2. StreamBody(len, unit, paths, from) \in Seq(Insn)
        /\ Len(StreamBody(len, unit, paths, from)) = len
    BY ONLY <2>1, StreamBodyInsns, ZenonT(60)
  <2>3. k.body = StreamBody(len, unit, paths, from)
    OBVIOUS
  <2> QED BY ONLY <2>2, <2>3
<1>2. \A j \in 1..len :
        k.body[j] = Op(unit, {IF from = "k" THEN "k" ELSE Eight[j]} \X paths, {Eight[j]})
  BY DEF StreamBody
<1>3. \E u \in {"alu", "fp", "load"}, p \in (SUBSET Plain) \ {{}}, f \in {"own", "k"} :
       \A j \in 1..Len(k.body) :
         k.body[j] = Op(u, {IF f = "k" THEN "k" ELSE Eight[j]} \X p, {Eight[j]})
  <2>1. \A j \in 1..Len(k.body) :
        k.body[j] = Op(unit, {IF from = "k" THEN "k" ELSE Eight[j]} \X paths, {Eight[j]})
    BY <1>1, <1>2
  <2>2. unit \in {"alu", "fp", "load"} /\ paths \in (SUBSET Plain) \ {{}} /\ from \in {"own", "k"}
    OBVIOUS
  <2> QED BY ONLY <2>1, <2>2, ZenonT(60)
<1>4. /\ k.kind = "tput" /\ k.file # "storefwd" /\ k.tail = <<>> /\ k.shows = <<>>
      /\ \/ Len(k.body) = 4 /\ k.reps = 16 /\ k.ops = 64
         \/ Len(k.body) = 8 /\ k.reps = 8 /\ k.ops = 64
         \/ Len(k.body) = 8 /\ k.reps = 64 /\ k.ops = 512
  BY <1>1
<1> QED BY ONLY <1>1, <1>3, <1>4 DEF StreamRow

\* Streams and Fresh make these bodies.
LEMMA StreamsAre ==
  ASSUME NEW regs \in {Four, Eight}
  PROVE  \E len \in {4, 8} :
           /\ regs = Four => len = 4
           /\ regs = Eight => len = 8
           /\ \A reps, name, unit, paths :
                Streams(regs, reps, name, unit, paths).body = StreamBody(len, unit, paths, "own")
           /\ \A reps, name, unit, path :
                Fresh(regs, reps, name, unit, path).body = StreamBody(len, unit, {path}, "k")
<1>1. PICK len \in {4, 8} : (regs = Four => len = 4) /\ (regs = Eight => len = 8)
                            /\ DOMAIN regs = 1..len /\ \A j \in 1..len : regs[j] = Eight[j]
  <2>1. CASE regs = Four
    <3>1. Four # Eight
      BY EightAre
    <3> QED BY <2>1, <3>1, EightAre
  <2>2. CASE regs = Eight
    <3>1. Four # Eight
      BY EightAre
    <3> QED BY <2>2, <3>1, EightAre
  <2> QED BY <2>1, <2>2
<1>2. ASSUME NEW reps, NEW name, NEW unit, NEW paths
      PROVE  Streams(regs, reps, name, unit, paths).body = StreamBody(len, unit, paths, "own")
  <2>1. [n \in DOMAIN regs |-> Self(unit, regs[n], paths)] = StreamBody(len, unit, paths, "own")
    BY <1>1 DEF StreamBody, Self
  <2> QED BY <2>1 DEF Streams, Row
<1>3. ASSUME NEW reps, NEW name, NEW unit, NEW path
      PROVE  Fresh(regs, reps, name, unit, path).body = StreamBody(len, unit, {path}, "k")
  <2>1. {<<"k", path>>} = {"k"} \X {path}
    OBVIOUS
  <2>2. [n \in DOMAIN regs |-> Op(unit, {<<"k", path>>}, {regs[n]})]
          = StreamBody(len, unit, {path}, "k")
    BY <1>1, <2>1 DEF StreamBody
  <2> QED BY <2>2 DEF Fresh, Row
<1> QED BY <1>1, <1>2, <1>3

\* A row made by Streams or Fresh, in a file.
StreamFields(k, r, regs, reps, ops) ==
  /\ k.kind = "tput" /\ k.file # "storefwd" /\ k.tail = <<>> /\ k.shows = <<>> /\ k.body = r.body
  /\ k.reps = reps /\ k.ops = ops
  /\ \/ regs = Four /\ reps = 16 /\ ops = 64
     \/ regs = Eight /\ reps = 8 /\ ops = 64
     \/ regs = Eight /\ reps = 64 /\ ops = 512

\* So are the rows that Streams and Fresh build, in any file but storefwd.
LEMMA StreamsRow ==
  ASSUME NEW k, NEW name, NEW regs \in {Four, Eight}, NEW reps, NEW ops,
         NEW unit \in {"alu", "fp", "load"}, NEW paths \in (SUBSET Plain) \ {{}},
         NEW path \in Plain,
         \/ StreamFields(k, Streams(regs, reps, name, unit, paths), regs, reps, ops)
         \/ StreamFields(k, Fresh(regs, reps, name, unit, path), regs, reps, ops)
  PROVE  StreamRow(k)
<1>1. PICK len \in {4, 8} :
        /\ regs = Four => len = 4
        /\ regs = Eight => len = 8
        /\ Streams(regs, reps, name, unit, paths).body = StreamBody(len, unit, paths, "own")
        /\ Fresh(regs, reps, name, unit, path).body = StreamBody(len, unit, {path}, "k")
  <2>1. \E len \in {4, 8} :
        /\ regs = Four => len = 4
        /\ regs = Eight => len = 8
        /\ Streams(regs, reps, name, unit, paths).body = StreamBody(len, unit, paths, "own")
        /\ Fresh(regs, reps, name, unit, path).body = StreamBody(len, unit, {path}, "k")
    <3>1. PICK len \in {4, 8} :
           /\ regs = Four => len = 4
           /\ regs = Eight => len = 8
           /\ \A reps1, name1, unit1, paths1 :
                Streams(regs, reps1, name1, unit1, paths1).body = StreamBody(len, unit1, paths1, "own")
           /\ \A reps1, name1, unit1, path1 :
                Fresh(regs, reps1, name1, unit1, path1).body = StreamBody(len, unit1, {path1}, "k")
      BY StreamsAre, Zenon
    <3>2. /\ Streams(regs, reps, name, unit, paths).body = StreamBody(len, unit, paths, "own")
          /\ Fresh(regs, reps, name, unit, path).body = StreamBody(len, unit, {path}, "k")
      BY ONLY <3>1
    <3> QED BY <3>1, <3>2, Zenon
  <2> QED BY <2>1
<1>2. \E p \in (SUBSET Plain) \ {{}}, from \in {"own", "k"} :
        k.body = StreamBody(len, unit, p, from)
  <2>1. {path} \in (SUBSET Plain) \ {{}}
    OBVIOUS
  <2> QED BY <1>1, <2>1 DEF StreamFields
<1>3. PICK p \in (SUBSET Plain) \ {{}}, from \in {"own", "k"} :
        k.body = StreamBody(len, unit, p, from)
  BY <1>2
<1>4. /\ k.kind = "tput" /\ k.file # "storefwd" /\ k.tail = <<>> /\ k.shows = <<>>
      /\ \/ len = 4 /\ k.reps = 16 /\ k.ops = 64
         \/ len = 8 /\ k.reps = 8 /\ k.ops = 64
         \/ len = 8 /\ k.reps = 64 /\ k.ops = 512
  <2>1. CASE StreamFields(k, Streams(regs, reps, name, unit, paths), regs, reps, ops)
    BY ONLY <1>1, <2>1 DEF StreamFields
  <2>2. CASE StreamFields(k, Fresh(regs, reps, name, unit, path), regs, reps, ops)
    BY ONLY <1>1, <2>2 DEF StreamFields
  <2> QED BY <2>1, <2>2
<1>5. len \in {4, 8} /\ unit \in {"alu", "fp", "load"}
      /\ p \in (SUBSET Plain) \ {{}} /\ from \in {"own", "k"}
  BY <1>1, <1>3
<1> QED BY ONLY <1>3, <1>4, <1>5, StreamIsRow

\* The throughput rows of src/uops_research.cpp are streams.
LEMMA ResearchStreamRows ==
  ASSUME NEW k \in ResearchIntStreams \cup ResearchFpStreams
  PROVE  StreamRow(k)
<1>1. PICK n, r : /\ k = [r EXCEPT !.file = "research"]
                /\ \/ r = ResearchStream(n, "alu", {"dst"})
                   \/ r = ResearchStream(n, "alu", {"src"})
                   \/ r = ResearchStream(n, "alu", {"dst", "src"})
                   \/ r = ResearchStream(n, "fp", {"dst"})
                   \/ r = ResearchStream(n, "fp", {"src", "dst"})
  BY Zenon DEF ResearchIntStreams, ResearchFpStreams, In
<1>2. /\ {{"dst"}, {"src"}, {"dst", "src"}, {"src", "dst"}} \subseteq (SUBSET Plain) \ {{}}
      /\ "dst" \in Plain
  BY DEF Plain
<1>3. ASSUME NEW unit \in {"alu", "fp"}, NEW paths \in (SUBSET Plain) \ {{}},
             r = ResearchStream(n, unit, paths)
      PROVE  StreamRow(k)
  <2>1. k = [r EXCEPT !.file = "research"]
    BY <1>1
  <2>2. StreamFields(k, Streams(Eight, 64, n, unit, paths), Eight, 64, 512)
    <3>1. PICK body : Streams(Eight, 64, n, unit, paths) = Row("tput", n, body, 64, <<>>)
      BY DEF Streams
    <3>2. r = [Row("tput", n, body, 64, <<>>) EXCEPT !.ops = 512]
      BY ONLY <1>3, <3>1 DEF ResearchStream
    <3>3. /\ r.kind = "tput" /\ r.tail = <<>> /\ r.shows = <<>> /\ r.body = body /\ r.reps = 64
          /\ r.ops = 512 /\ r = [file |-> "", kind |-> "tput", name |-> n, body |-> body, reps |-> 64,
                                 tail |-> <<>>, shows |-> <<>>, ops |-> 512]
      BY ONLY <3>2, ZenonT(60) DEF Row
    <3>4. /\ k.kind = "tput" /\ k.tail = <<>> /\ k.shows = <<>> /\ k.body = body /\ k.reps = 64
          /\ k.ops = 512 /\ k.file = "research"
      BY ONLY <2>1, <3>3, ZenonT(60)
    <3>5. Streams(Eight, 64, n, unit, paths).body = body
      <4>1. Row("tput", n, body, 64, <<>>).body = body
        BY DEF Row
      <4> QED BY ONLY <3>1, <4>1, Zenon
    <3> QED BY ONLY <3>4, <3>5 DEF StreamFields
  <2>3. Eight \in {Four, Eight} /\ unit \in {"alu", "fp", "load"} /\ "dst" \in Plain
    BY <1>2
  <2> QED BY <2>2, <2>3, StreamsRow
<1>4. CASE r = ResearchStream(n, "alu", {"dst"})
  BY <1>2, <1>3, <1>4
<1>5. CASE r = ResearchStream(n, "alu", {"src"})
  BY <1>2, <1>3, <1>5
<1>6. CASE r = ResearchStream(n, "alu", {"dst", "src"})
  BY <1>2, <1>3, <1>6
<1>7. CASE r = ResearchStream(n, "fp", {"dst"})
  BY <1>2, <1>3, <1>7
<1>8. CASE r = ResearchStream(n, "fp", {"src", "dst"})
  BY <1>2, <1>3, <1>8
<1> QED BY <1>1, <1>4, <1>5, <1>6, <1>7, <1>8

\* So are those of src/uops_throughput.cpp.
LEMMA ThroughputRows ==
  ASSUME NEW k \in ThroughputInt \cup ThroughputFp
  PROVE  StreamRow(k)
<1>1. \E n, r : /\ k = [r EXCEPT !.file = "throughput"]
                /\ \/ r = Streams(Four, 16, n, "alu", {"dst"})
                   \/ r = Fresh(Four, 16, n, "alu", "src")
                   \/ r = Streams(Four, 16, n, "fp", {"dst"})
                   \/ r = Streams(Eight, 8, n, "fp", {"dst"})
                   \/ r = Fresh(Eight, 8, n, "load", "src")
  BY Zenon DEF ThroughputInt, ThroughputFp, In
<1>2. PICK n, r : /\ k = [r EXCEPT !.file = "throughput"]
                /\ \/ r = Streams(Four, 16, n, "alu", {"dst"})
                   \/ r = Fresh(Four, 16, n, "alu", "src")
                   \/ r = Streams(Four, 16, n, "fp", {"dst"})
                   \/ r = Streams(Eight, 8, n, "fp", {"dst"})
                   \/ r = Fresh(Eight, 8, n, "load", "src")
  BY <1>1
<1>3. {"dst"} \in (SUBSET Plain) \ {{}} /\ "src" \in Plain
  BY DEF Plain
<1>6. CASE r = Streams(Four, 16, n, "alu", {"dst"})
  <2>1. StreamFields(k, Streams(Four, 16, n, "alu", {"dst"}), Four, 16, 64)
    BY <1>2, <1>6 DEF Streams, Fresh, Row, StreamFields
  <2> QED BY <1>3, <2>1, StreamsRow
<1>7. CASE r = Fresh(Four, 16, n, "alu", "src")
  <2>1. StreamFields(k, Fresh(Four, 16, n, "alu", "src"), Four, 16, 64)
    BY <1>2, <1>7 DEF Streams, Fresh, Row, StreamFields
  <2> QED BY <1>3, <2>1, StreamsRow
<1>8. CASE r = Streams(Four, 16, n, "fp", {"dst"})
  <2>1. StreamFields(k, Streams(Four, 16, n, "fp", {"dst"}), Four, 16, 64)
    BY <1>2, <1>8 DEF Streams, Fresh, Row, StreamFields
  <2> QED BY <1>3, <2>1, StreamsRow
<1>9. CASE r = Streams(Eight, 8, n, "fp", {"dst"})
  <2>1. StreamFields(k, Streams(Eight, 8, n, "fp", {"dst"}), Eight, 8, 64)
    BY <1>2, <1>9 DEF Streams, Fresh, Row, StreamFields
  <2> QED BY <1>3, <2>1, StreamsRow
<1>10. CASE r = Fresh(Eight, 8, n, "load", "src")
  <2>1. StreamFields(k, Fresh(Eight, 8, n, "load", "src"), Eight, 8, 64)
    BY <1>2, <1>10 DEF Streams, Fresh, Row, StreamFields
  <2> QED BY <1>3, <2>1, StreamsRow
<1> QED BY <1>2, <1>6, <1>7, <1>8, <1>9, <1>10

\* A pair of src/uops_vector.cpp is a chain and a row of streams.
LEMMA VectorPairRows ==
  ASSUME NEW unit \in {"alu", "fp", "load"}, NEW path \in Plain, NEW names,
         NEW k \in VectorPair(unit, path, names)
  PROVE  ChainedRow(k) \/ StreamRow(k)
<1>1. \E n : \/ k = [Lat(n, unit, {path}, path) EXCEPT !.file = "vector"]
             \/ k = [Streams(Eight, 8, n, unit, {path}) EXCEPT !.file = "vector"]
  BY Zenon DEF VectorPair, In
<1>2. PICK n : \/ k = [Lat(n, unit, {path}, path) EXCEPT !.file = "vector"]
               \/ k = [Streams(Eight, 8, n, unit, {path}) EXCEPT !.file = "vector"]
  BY <1>1
<1>3. {path} \in SUBSET Plain /\ path \in {path} /\ {path} \in (SUBSET Plain) \ {{}}
  OBVIOUS
<1>4. CASE k = [Lat(n, unit, {path}, path) EXCEPT !.file = "vector"]
  BY <1>3, <1>4, LatRow
<1>5. CASE k = [Streams(Eight, 8, n, unit, {path}) EXCEPT !.file = "vector"]
  <2>1. StreamFields(k, Streams(Eight, 8, n, unit, {path}), Eight, 8, 64)
    BY <1>5 DEF Streams, Row, StreamFields
  <2> QED BY <1>3, <2>1, StreamsRow
<1> QED BY <1>2, <1>4, <1>5

\* What a benchmark that emit_bench writes reads: registers by plain paths, and its
\* destination by the path it promises.
Emits(operands, reads, shows) ==
  /\ \A n \in DOMAIN operands : operands[n] \in {"x", "k"} /\ reads[n] \in Plain \cup {""}
  /\ \E n \in DOMAIN operands : operands[n] = "x" /\ reads[n] = shows /\ shows \in Plain

\* What the generator emits is a chain if the destination carries the path of the row.
LEMMA EmittedRow ==
  ASSUME NEW k, NEW category, NEW unit \in {"alu", "fp", "load"}, NEW reads, NEW shows, NEW asms,
         k \in Generated(category, unit, reads, shows, asms),
         \A asm \in asms : Emits(<<"x">> \o EmittedSources(category, asm), reads, shows)
  PROVE  ChainedRow(k)
<1> DEFINE operands(asm) == <<"x">> \o EmittedSources(category, asm)
           used(asm) == { n \in DOMAIN operands(asm) : reads[n] # "" }
           waits(asm) == { n \in used(asm) : operands(asm)[n] = "x" }
           these(asm) == IF waits(asm) # {} THEN waits(asm) ELSE used(asm)
           all(asm) == { <<operands(asm)[n], reads[n]>> : n \in these(asm) }
<1>1. k \in In("generated", { Row("lat", asm, <<Op(unit, all(asm), {"x"})>>, 64, <<shows>>)
                              : asm \in asms })
  BY DEF Generated
<1>2. PICK asm \in asms : k = [Row("lat", asm, <<Op(unit, all(asm), {"x"})>>, 64, <<shows>>)
                                 EXCEPT !.file = "generated"]
  <2> HIDE DEF all
  <2> QED BY <1>1, Zenon DEF In
<1>3. Emits(operands(asm), reads, shows)
  BY <1>2
<1> HIDE DEF operands
<1>4. "" \notin Plain /\ Plain \subseteq PathNames
  BY DEF Plain, PathNames
<1>5. PICK n0 \in waits(asm) : reads[n0] = shows /\ operands(asm)[n0] = "x" /\ shows \in Plain
  BY <1>3, <1>4 DEF Emits
<1>6. these(asm) = waits(asm) /\ n0 \in these(asm)
  BY <1>5
<1>7. /\ <<"x", shows>> \in all(asm) /\ \A r2 \in all(asm) : r2[2] \in Plain
      /\ all(asm) \in SUBSET (Locations \X PathNames)
  <2>1. \A n \in waits(asm) : operands(asm)[n] = "x" /\ reads[n] \in Plain
    BY <1>3 DEF Emits
  <2>2. "x" \in Locations
    BY LocationsAre
  <2>3. <<"x", shows>> \in all(asm)
    BY <1>5, <1>6
  <2>4. ASSUME NEW r2 \in all(asm) PROVE r2[2] \in Plain /\ r2 \in Locations \X PathNames
    <3>1. PICK n \in waits(asm) : r2 = <<operands(asm)[n], reads[n]>>
      BY <1>6
    <3>2. operands(asm)[n] = "x" /\ reads[n] \in Plain
      BY <2>1
    <3> QED BY <1>4, <2>2, <3>1, <3>2
  <2> HIDE DEF all
  <2> QED BY <2>3, <2>4
<1> HIDE DEF all
<1>8. /\ k.kind = "lat" /\ k.file # "storefwd" /\ k.ops = 64 /\ k.tail = <<>>
      /\ k.reps = 64 /\ k.shows = <<shows>> /\ k.body = <<Op(unit, all(asm), {"x"})>>
  BY ONLY <1>2 DEF Row
<1>9. /\ {"x"} \in SUBSET Locations /\ shows \in PathNames /\ "x" \in {"x"}
      /\ "x" \in {"x"} \ {"i", "CF", "ZF"} /\ k.tail \in {<<>>, <<SetZF>>}
      /\ unit \in {"alu", "fp", "load"}
  BY <1>4, <1>5, <1>8, LocationsAre
<1>10. PICK read : read = all(asm)
  OBVIOUS
<1>11. /\ read \in SUBSET (Locations \X PathNames) /\ <<"x", shows>> \in read
       /\ \A r2 \in read : r2[2] \in Plain
       /\ k.body = <<Op(unit, read, {"x"})>> /\ k.shows = <<shows>>
       /\ k.kind = "lat" /\ k.file # "storefwd" /\ k.ops = 64 /\ k.reps = 64
  BY ONLY <1>7, <1>8, <1>10
<1>12. Single(k, unit, read, {"x"}, "x", shows, "x")
  BY ONLY <1>9, <1>11 DEF Single
<1> QED BY <1>12, OneRow

\* The operands of the categories.
LEMMA OperandsAre ==
  /\ \A asm : <<"x">> \o EmittedSources("R_I32_GPR64", asm) = <<"x">>
  /\ \A asm : <<"x">> \o EmittedSources("SHIFT_R_1_GPR64", asm) = <<"x">>
  /\ \A asm : <<"x">> \o EmittedSources("RR_I32_GPR64", asm) = <<"x", "x">>
  /\ \A asm : <<"x">> \o EmittedSources("RRR_GPR64", asm) = <<"x", "x", "k">>
  /\ \A asm : <<"x">> \o EmittedSources("RRR_XMM", asm) = <<"x", "k", "x">>
  /\ \A asm : <<"x">> \o EmittedSources("FMA", asm) = <<"x", "k", "k">>
  /\ \A asm \in OneSource : <<"x">> \o EmittedSources("RR_GPR64", asm) = <<"x", "x">>
  /\ \A asm : asm \notin OneSource => <<"x">> \o EmittedSources("RR_GPR64", asm) = <<"x", "k">>
  /\ \A asm \in SseOneSource : <<"x">> \o EmittedSources("RR_XMM", asm) = <<"x", "x">>
  /\ \A asm : asm \notin SseOneSource => <<"x">> \o EmittedSources("RR_XMM", asm) = <<"x", "k">>
<1>1. \A asm :
        /\ EmittedSources("R_I32_GPR64", asm) = <<>>
        /\ EmittedSources("SHIFT_R_1_GPR64", asm) = <<>>
        /\ EmittedSources("RR_I32_GPR64", asm) = <<"x">>
        /\ EmittedSources("RRR_GPR64", asm) = <<"x", "k">>
        /\ EmittedSources("RRR_XMM", asm) = <<"k", "x">>
        /\ EmittedSources("FMA", asm) = <<"k", "k">>
        /\ asm \in OneSource => EmittedSources("RR_GPR64", asm) = <<"x">>
        /\ asm \notin OneSource => EmittedSources("RR_GPR64", asm) = <<"k">>
        /\ asm \in SseOneSource => EmittedSources("RR_XMM", asm) = <<"x">>
        /\ asm \notin SseOneSource => EmittedSources("RR_XMM", asm) = <<"k">>
  BY DEF EmittedSources
<1>2. /\ <<"x">> \o <<>> = <<"x">>
      /\ <<"x">> \o <<"x">> = <<"x", "x">>
      /\ <<"x">> \o <<"k">> = <<"x", "k">>
      /\ <<"x">> \o <<"x", "k">> = <<"x", "x", "k">>
      /\ <<"x">> \o <<"k", "x">> = <<"x", "k", "x">>
      /\ <<"x">> \o <<"k", "k">> = <<"x", "k", "k">>
  <2> DEFINE S == {"x", "k"}
  <2>1. /\ <<"x">> \o <<>> \in Seq(S) /\ <<"x">> \in Seq(S) /\ Len(<<"x">> \o <<>>) = Len(<<"x">>)
        /\ \A i \in 1..Len(<<"x">> \o <<>>) : (<<"x">> \o <<>>)[i] = <<"x">>[i]
    OBVIOUS
  <2>2. /\ <<"x">> \o <<"x">> \in Seq(S) /\ <<"x", "x">> \in Seq(S)
        /\ Len(<<"x">> \o <<"x">>) = Len(<<"x", "x">>)
        /\ \A i \in 1..Len(<<"x">> \o <<"x">>) : (<<"x">> \o <<"x">>)[i] = <<"x", "x">>[i]
    OBVIOUS
  <2>3. /\ <<"x">> \o <<"k">> \in Seq(S) /\ <<"x", "k">> \in Seq(S)
        /\ Len(<<"x">> \o <<"k">>) = Len(<<"x", "k">>)
        /\ \A i \in 1..Len(<<"x">> \o <<"k">>) : (<<"x">> \o <<"k">>)[i] = <<"x", "k">>[i]
    OBVIOUS
  <2>4. /\ <<"x">> \o <<"x", "k">> \in Seq(S) /\ <<"x", "x", "k">> \in Seq(S)
        /\ Len(<<"x">> \o <<"x", "k">>) = Len(<<"x", "x", "k">>)
        /\ \A i \in 1..Len(<<"x">> \o <<"x", "k">>) :
             (<<"x">> \o <<"x", "k">>)[i] = <<"x", "x", "k">>[i]
    OBVIOUS
  <2>5. /\ <<"x">> \o <<"k", "x">> \in Seq(S) /\ <<"x", "k", "x">> \in Seq(S)
        /\ Len(<<"x">> \o <<"k", "x">>) = Len(<<"x", "k", "x">>)
        /\ \A i \in 1..Len(<<"x">> \o <<"k", "x">>) :
             (<<"x">> \o <<"k", "x">>)[i] = <<"x", "k", "x">>[i]
    OBVIOUS
  <2>6. /\ <<"x">> \o <<"k", "k">> \in Seq(S) /\ <<"x", "k", "k">> \in Seq(S)
        /\ Len(<<"x">> \o <<"k", "k">>) = Len(<<"x", "k", "k">>)
        /\ \A i \in 1..Len(<<"x">> \o <<"k", "k">>) :
             (<<"x">> \o <<"k", "k">>)[i] = <<"x", "k", "k">>[i]
    OBVIOUS
  <2> HIDE DEF S
  <2> QED BY <2>1, <2>2, <2>3, <2>4, <2>5, <2>6, SeqEqual, ZenonT(60)
<1> QED BY <1>1, <1>2, Zenon

\* It does, for each shape of operands that emit_bench writes.
LEMMA EmitsAre ==
  /\ Emits(<<"x", "k", "x">>, <<"", "src1", "src2">>, "src2")
  /\ Emits(<<"x", "x">>, <<"", "src">>, "src")
  /\ Emits(<<"x">>, <<"dst">>, "dst")
  /\ Emits(<<"x", "k">>, <<"dst", "src">>, "dst")
  /\ Emits(<<"x", "x">>, <<"dst", "src">>, "src")
  /\ Emits(<<"x", "x", "k">>, <<"", "src", "src2">>, "src")
  /\ Emits(<<"x", "k", "k">>, <<"factor", "addend", "factor">>, "factor")
  /\ Emits(<<"x", "k", "k">>, <<"factor", "factor", "addend">>, "factor")
  /\ Emits(<<"x", "k", "k">>, <<"addend", "factor", "factor">>, "addend")
<1>1. Emits(<<"x", "k", "x">>, <<"", "src1", "src2">>, "src2")
  <2> DEFINE operands == <<"x", "k", "x">>
             reads == <<"", "src1", "src2">>
  <2>1. DOMAIN operands = {1, 2, 3}
    OBVIOUS
  <2>2. operands[1] = "x" /\ reads[1] = "" /\ operands[2] = "k" /\ reads[2] = "src1"
        /\ operands[3] = "x" /\ reads[3] = "src2"
    OBVIOUS
  <2>3. {"", "src1", "src2"} \subseteq Plain \cup {""} /\ "src2" \in Plain
    BY DEF Plain
  <2> HIDE DEF operands, reads
  <2>4. Emits(operands, reads, "src2")
    BY <2>1, <2>2, <2>3 DEF Emits
  <2> QED BY <2>4 DEF operands, reads
<1>2. Emits(<<"x", "x">>, <<"", "src">>, "src")
  <2> DEFINE operands == <<"x", "x">>
             reads == <<"", "src">>
  <2>1. DOMAIN operands = {1, 2}
    OBVIOUS
  <2>2. operands[1] = "x" /\ reads[1] = "" /\ operands[2] = "x" /\ reads[2] = "src"
    OBVIOUS
  <2>3. {"", "src"} \subseteq Plain \cup {""} /\ "src" \in Plain
    BY DEF Plain
  <2> HIDE DEF operands, reads
  <2>4. Emits(operands, reads, "src")
    BY <2>1, <2>2, <2>3 DEF Emits
  <2> QED BY <2>4 DEF operands, reads
<1>3. Emits(<<"x">>, <<"dst">>, "dst")
  <2> DEFINE operands == <<"x">>
             reads == <<"dst">>
  <2>1. DOMAIN operands = {1}
    OBVIOUS
  <2>2. operands[1] = "x" /\ reads[1] = "dst"
    OBVIOUS
  <2>3. {"dst"} \subseteq Plain \cup {""} /\ "dst" \in Plain
    BY DEF Plain
  <2> HIDE DEF operands, reads
  <2>4. Emits(operands, reads, "dst")
    BY <2>1, <2>2, <2>3 DEF Emits
  <2> QED BY <2>4 DEF operands, reads
<1>4. Emits(<<"x", "k">>, <<"dst", "src">>, "dst")
  <2> DEFINE operands == <<"x", "k">>
             reads == <<"dst", "src">>
  <2>1. DOMAIN operands = {1, 2}
    OBVIOUS
  <2>2. operands[1] = "x" /\ reads[1] = "dst" /\ operands[2] = "k" /\ reads[2] = "src"
    OBVIOUS
  <2>3. {"dst", "src"} \subseteq Plain \cup {""} /\ "dst" \in Plain
    BY DEF Plain
  <2> HIDE DEF operands, reads
  <2>4. Emits(operands, reads, "dst")
    BY <2>1, <2>2, <2>3 DEF Emits
  <2> QED BY <2>4 DEF operands, reads
<1>5. Emits(<<"x", "x">>, <<"dst", "src">>, "src")
  <2> DEFINE operands == <<"x", "x">>
             reads == <<"dst", "src">>
  <2>1. DOMAIN operands = {1, 2}
    OBVIOUS
  <2>2. operands[1] = "x" /\ reads[1] = "dst" /\ operands[2] = "x" /\ reads[2] = "src"
    OBVIOUS
  <2>3. {"dst", "src"} \subseteq Plain \cup {""} /\ "src" \in Plain
    BY DEF Plain
  <2> HIDE DEF operands, reads
  <2>4. Emits(operands, reads, "src")
    BY <2>1, <2>2, <2>3 DEF Emits
  <2> QED BY <2>4 DEF operands, reads
<1>6. Emits(<<"x", "x", "k">>, <<"", "src", "src2">>, "src")
  <2> DEFINE operands == <<"x", "x", "k">>
             reads == <<"", "src", "src2">>
  <2>1. DOMAIN operands = {1, 2, 3}
    OBVIOUS
  <2>2. operands[1] = "x" /\ reads[1] = "" /\ operands[2] = "x" /\ reads[2] = "src"
        /\ operands[3] = "k" /\ reads[3] = "src2"
    OBVIOUS
  <2>3. {"", "src", "src2"} \subseteq Plain \cup {""} /\ "src" \in Plain
    BY DEF Plain
  <2> HIDE DEF operands, reads
  <2>4. Emits(operands, reads, "src")
    BY <2>1, <2>2, <2>3 DEF Emits
  <2> QED BY <2>4 DEF operands, reads
<1>7. Emits(<<"x", "k", "k">>, <<"factor", "addend", "factor">>, "factor")
  <2> DEFINE operands == <<"x", "k", "k">>
             reads == <<"factor", "addend", "factor">>
  <2>1. DOMAIN operands = {1, 2, 3}
    OBVIOUS
  <2>2. operands[1] = "x" /\ reads[1] = "factor" /\ operands[2] = "k" /\ reads[2] = "addend"
        /\ operands[3] = "k" /\ reads[3] = "factor"
    OBVIOUS
  <2>3. {"addend", "factor"} \subseteq Plain \cup {""} /\ "factor" \in Plain
    BY DEF Plain
  <2> HIDE DEF operands, reads
  <2>4. Emits(operands, reads, "factor")
    BY <2>1, <2>2, <2>3 DEF Emits
  <2> QED BY <2>4 DEF operands, reads
<1>8. Emits(<<"x", "k", "k">>, <<"factor", "factor", "addend">>, "factor")
  <2> DEFINE operands == <<"x", "k", "k">>
             reads == <<"factor", "factor", "addend">>
  <2>1. DOMAIN operands = {1, 2, 3}
    OBVIOUS
  <2>2. operands[1] = "x" /\ reads[1] = "factor" /\ operands[2] = "k" /\ reads[2] = "factor"
        /\ operands[3] = "k" /\ reads[3] = "addend"
    OBVIOUS
  <2>3. {"addend", "factor"} \subseteq Plain \cup {""} /\ "factor" \in Plain
    BY DEF Plain
  <2> HIDE DEF operands, reads
  <2>4. Emits(operands, reads, "factor")
    BY <2>1, <2>2, <2>3 DEF Emits
  <2> QED BY <2>4 DEF operands, reads
<1>9. Emits(<<"x", "k", "k">>, <<"addend", "factor", "factor">>, "addend")
  <2> DEFINE operands == <<"x", "k", "k">>
             reads == <<"addend", "factor", "factor">>
  <2>1. DOMAIN operands = {1, 2, 3}
    OBVIOUS
  <2>2. operands[1] = "x" /\ reads[1] = "addend" /\ operands[2] = "k" /\ reads[2] = "factor"
        /\ operands[3] = "k" /\ reads[3] = "factor"
    OBVIOUS
  <2>3. {"addend", "factor"} \subseteq Plain \cup {""} /\ "addend" \in Plain
    BY DEF Plain
  <2> HIDE DEF operands, reads
  <2>4. Emits(operands, reads, "addend")
    BY <2>1, <2>2, <2>3 DEF Emits
  <2> QED BY <2>4 DEF operands, reads
<1> QED BY <1>1, <1>2, <1>3, <1>4, <1>5, <1>6, <1>7, <1>8, <1>9

\* A family of GeneratedRows: the operands that its mnemonics have.
Family(k, category, unit, reads, shows, asms, operands) ==
  /\ unit \in {"alu", "fp"}
  /\ k \in Generated(category, unit, reads, shows, asms)
  /\ \A asm \in asms : <<"x">> \o EmittedSources(category, asm) = operands
  /\ Emits(operands, reads, shows)

\* So each family of generated benchmarks is made of chains.
LEMMA FamilyChains ==
  ASSUME NEW k, NEW category, NEW unit, NEW reads, NEW shows, NEW asms, NEW operands,
         Family(k, category, unit, reads, shows, asms, operands)
  PROVE  ChainedRow(k)
<1>1. \A asm \in asms : Emits(<<"x">> \o EmittedSources(category, asm), reads, shows)
  BY DEF Family
<1>2. unit \in {"alu", "fp", "load"} /\ k \in Generated(category, unit, reads, shows, asms)
  BY DEF Family
<1> QED BY ONLY <1>1, <1>2, EmittedRow

\* All of kBenchmarks are chains.
LEMMA GeneratedChains ==
  ASSUME NEW k \in GeneratedRows
  PROVE  ChainedRow(k)
<1>1. CASE k \in GeneratedAvx
  <2>1. CASE k \in Generated("RRR_XMM", "fp", <<"", "src1", "src2">>, "src2",
                             {"VADD", "VDIV", "VMAX", "VMIN", "VMUL", "VSUB"})
    <3>1. \A asm \in {"VADD", "VDIV", "VMAX", "VMIN", "VMUL", "VSUB"} :
            <<"x">> \o EmittedSources("RRR_XMM", asm) = <<"x", "k", "x">>
      BY OperandsAre
    <3>2. Family(k, "RRR_XMM", "fp", <<"", "src1", "src2">>, "src2",
                 {"VADD", "VDIV", "VMAX", "VMIN", "VMUL", "VSUB"}, <<"x", "k", "x">>)
      BY <2>1, <3>1, EmitsAre DEF Family
    <3> QED BY <3>2, FamilyChains
  <2> QED BY <1>1, <2>1, Zenon DEF GeneratedAvx
<1>2. CASE k \in GeneratedAvxSqrt
  <2>1. CASE k \in Generated("RR_XMM", "fp", <<"", "src">>, "src", {"VSQRTPD", "VSQRTPS"})
    <3>1. \A asm \in {"VSQRTPD", "VSQRTPS"} :
            <<"x">> \o EmittedSources("RR_XMM", asm) = <<"x", "x">>
      BY OperandsAre DEF SseOneSource
    <3>2. Family(k, "RR_XMM", "fp", <<"", "src">>, "src", {"VSQRTPD", "VSQRTPS"}, <<"x", "x">>)
      BY <2>1, <3>1, EmitsAre DEF Family
    <3> QED BY <3>2, FamilyChains
  <2>2. CASE k \in Generated("RRR_XMM", "fp", <<"", "src1", "src2">>, "src2", {"VSQRTSD", "VSQRTSS"})
    <3>1. \A asm \in {"VSQRTSD", "VSQRTSS"} :
            <<"x">> \o EmittedSources("RRR_XMM", asm) = <<"x", "k", "x">>
      BY OperandsAre
    <3>2. Family(k, "RRR_XMM", "fp", <<"", "src1", "src2">>, "src2", {"VSQRTSD", "VSQRTSS"},
                 <<"x", "k", "x">>)
      BY <2>2, <3>1, EmitsAre DEF Family
    <3> QED BY <3>2, FamilyChains
  <2> QED BY <1>2, <2>1, <2>2, Zenon DEF GeneratedAvxSqrt
<1>3. CASE k \in GeneratedImmediates
  <2>1. CASE k \in Generated("R_I32_GPR64", "alu", <<"dst">>, "dst", {"ADD", "AND", "OR", "SUB", "XOR"})
    <3>1. \A asm \in {"ADD", "AND", "OR", "SUB", "XOR"} :
            <<"x">> \o EmittedSources("R_I32_GPR64", asm) = <<"x">>
      BY OperandsAre
    <3>2. Family(k, "R_I32_GPR64", "alu", <<"dst">>, "dst", {"ADD", "AND", "OR", "SUB", "XOR"}, <<"x">>)
      BY <2>1, <3>1, EmitsAre DEF Family
    <3> QED BY <3>2, FamilyChains
  <2> QED BY <1>3, <2>1, Zenon DEF GeneratedImmediates
<1>4. CASE k \in GeneratedMultiply
  <2>1. CASE k \in Generated("RR_GPR64", "alu", <<"dst", "src">>, "dst", {"IMUL_rr"})
    <3>1. \A asm \in {"IMUL_rr"} : <<"x">> \o EmittedSources("RR_GPR64", asm) = <<"x", "k">>
      BY OperandsAre DEF OneSource
    <3>2. Family(k, "RR_GPR64", "alu", <<"dst", "src">>, "dst", {"IMUL_rr"}, <<"x", "k">>)
      BY <2>1, <3>1, EmitsAre DEF Family
    <3> QED BY <3>2, FamilyChains
  <2>2. CASE k \in Generated("RR_I32_GPR64", "alu", <<"", "src">>, "src", {"IMUL_rri"})
    <3>1. \A asm \in {"IMUL_rri"} : <<"x">> \o EmittedSources("RR_I32_GPR64", asm) = <<"x", "x">>
      BY OperandsAre
    <3>2. Family(k, "RR_I32_GPR64", "alu", <<"", "src">>, "src", {"IMUL_rri"}, <<"x", "x">>)
      BY <2>2, <3>1, EmitsAre DEF Family
    <3> QED BY <3>2, FamilyChains
  <2> QED BY <1>4, <2>1, <2>2, Zenon DEF GeneratedMultiply
<1>5. CASE k \in GeneratedShifts
  <2>1. CASE k \in Generated("SHIFT_R_1_GPR64", "alu", <<"dst">>, "dst",
                             {"ROL", "ROR", "SAR", "SHL", "SHR"})
    <3>1. \A asm \in {"ROL", "ROR", "SAR", "SHL", "SHR"} :
            <<"x">> \o EmittedSources("SHIFT_R_1_GPR64", asm) = <<"x">>
      BY OperandsAre
    <3>2. Family(k, "SHIFT_R_1_GPR64", "alu", <<"dst">>, "dst", {"ROL", "ROR", "SAR", "SHL", "SHR"},
                 <<"x">>)
      BY <2>1, <3>1, EmitsAre DEF Family
    <3> QED BY <3>2, FamilyChains
  <2> QED BY <1>5, <2>1, Zenon DEF GeneratedShifts
<1>6. CASE k \in GeneratedScans
  <2>1. CASE k \in Generated("RR_GPR64", "alu", <<"dst", "src">>, "src", {"BSF", "BSR"})
    <3>1. \A asm \in {"BSF", "BSR"} : <<"x">> \o EmittedSources("RR_GPR64", asm) = <<"x", "x">>
      BY OperandsAre DEF OneSource
    <3>2. Family(k, "RR_GPR64", "alu", <<"dst", "src">>, "src", {"BSF", "BSR"}, <<"x", "x">>)
      BY <2>1, <3>1, EmitsAre DEF Family
    <3> QED BY <3>2, FamilyChains
  <2> QED BY <1>6, <2>1, Zenon DEF GeneratedScans
<1>7. CASE k \in GeneratedBits
  <2>1. CASE k \in Generated("RR_GPR64", "alu", <<"", "src">>, "src",
                             {"BLSI", "BLSMSK", "BLSR", "TZCNT", "LZCNT"})
    <3>1. \A asm \in {"BLSI", "BLSMSK", "BLSR", "TZCNT", "LZCNT"} :
            <<"x">> \o EmittedSources("RR_GPR64", asm) = <<"x", "x">>
      BY OperandsAre DEF OneSource
    <3>2. Family(k, "RR_GPR64", "alu", <<"", "src">>, "src",
                 {"BLSI", "BLSMSK", "BLSR", "TZCNT", "LZCNT"}, <<"x", "x">>)
      BY <2>1, <3>1, EmitsAre DEF Family
    <3> QED BY <3>2, FamilyChains
  <2> QED BY <1>7, <2>1, Zenon DEF GeneratedBits
<1>8. CASE k \in GeneratedBmi
  <2>1. CASE k \in Generated("RRR_GPR64", "alu", <<"", "src", "src2">>, "src",
                             {"ANDN", "BEXTR", "BZHI", "PDEP", "PEXT", "SARX", "SHLX", "SHRX"})
    <3>1. \A asm \in {"ANDN", "BEXTR", "BZHI", "PDEP", "PEXT", "SARX", "SHLX", "SHRX"} :
            <<"x">> \o EmittedSources("RRR_GPR64", asm) = <<"x", "x", "k">>
      BY OperandsAre
    <3>2. Family(k, "RRR_GPR64", "alu", <<"", "src", "src2">>, "src",
                 {"ANDN", "BEXTR", "BZHI", "PDEP", "PEXT", "SARX", "SHLX", "SHRX"}, <<"x", "x", "k">>)
      BY <2>1, <3>1, EmitsAre DEF Family
    <3> QED BY <3>2, FamilyChains
  <2> QED BY <1>8, <2>1, Zenon DEF GeneratedBmi
<1>9. ASSUME NEW op, k \in FmaForms(op)
      PROVE  ChainedRow(k)
  <2>1. CASE k \in Generated("FMA", "fp", <<"factor", "addend", "factor">>, "factor", {op \o "132"})
    <3>1. \A asm \in {op \o "132"} : <<"x">> \o EmittedSources("FMA", asm) = <<"x", "k", "k">>
      BY OperandsAre
    <3>2. Family(k, "FMA", "fp", <<"factor", "addend", "factor">>, "factor", {op \o "132"},
                 <<"x", "k", "k">>)
      BY <2>1, <3>1, EmitsAre DEF Family
    <3> QED BY <3>2, FamilyChains
  <2>2. CASE k \in Generated("FMA", "fp", <<"factor", "factor", "addend">>, "factor", {op \o "213"})
    <3>1. \A asm \in {op \o "213"} : <<"x">> \o EmittedSources("FMA", asm) = <<"x", "k", "k">>
      BY OperandsAre
    <3>2. Family(k, "FMA", "fp", <<"factor", "factor", "addend">>, "factor", {op \o "213"},
                 <<"x", "k", "k">>)
      BY <2>2, <3>1, EmitsAre DEF Family
    <3> QED BY <3>2, FamilyChains
  <2>3. CASE k \in Generated("FMA", "fp", <<"addend", "factor", "factor">>, "addend", {op \o "231"})
    <3>1. \A asm \in {op \o "231"} : <<"x">> \o EmittedSources("FMA", asm) = <<"x", "k", "k">>
      BY OperandsAre
    <3>2. Family(k, "FMA", "fp", <<"addend", "factor", "factor">>, "addend", {op \o "231"},
                 <<"x", "k", "k">>)
      BY <2>3, <3>1, EmitsAre DEF Family
    <3> QED BY <3>2, FamilyChains
  <2> QED BY <1>9, <2>1, <2>2, <2>3, Zenon DEF FmaForms
<1>10. CASE k \in GeneratedSse
  <2>1. CASE k \in Generated("RR_XMM", "fp", <<"dst", "src">>, "dst",
                             {"ADD", "DIV", "MAX", "MIN", "MUL", "SUB"})
    <3>1. \A asm \in {"ADD", "DIV", "MAX", "MIN", "MUL", "SUB"} :
            <<"x">> \o EmittedSources("RR_XMM", asm) = <<"x", "k">>
      BY OperandsAre DEF SseOneSource
    <3>2. Family(k, "RR_XMM", "fp", <<"dst", "src">>, "dst",
                 {"ADD", "DIV", "MAX", "MIN", "MUL", "SUB"}, <<"x", "k">>)
      BY <2>1, <3>1, EmitsAre DEF Family
    <3> QED BY <3>2, FamilyChains
  <2> QED BY <1>10, <2>1, Zenon DEF GeneratedSse
<1>11. CASE k \in GeneratedSseSqrt
  <2>1. CASE k \in Generated("RR_XMM", "fp", <<"", "src">>, "src", {"SQRTPD"})
    <3>1. \A asm \in {"SQRTPD"} : <<"x">> \o EmittedSources("RR_XMM", asm) = <<"x", "x">>
      BY OperandsAre DEF SseOneSource
    <3>2. Family(k, "RR_XMM", "fp", <<"", "src">>, "src", {"SQRTPD"}, <<"x", "x">>)
      BY <2>1, <3>1, EmitsAre DEF Family
    <3> QED BY <3>2, FamilyChains
  <2>2. CASE k \in Generated("RR_XMM", "fp", <<"dst", "src">>, "src", {"SQRTSD"})
    <3>1. \A asm \in {"SQRTSD"} : <<"x">> \o EmittedSources("RR_XMM", asm) = <<"x", "x">>
      BY OperandsAre DEF SseOneSource
    <3>2. Family(k, "RR_XMM", "fp", <<"dst", "src">>, "src", {"SQRTSD"}, <<"x", "x">>)
      BY <2>2, <3>1, EmitsAre DEF Family
    <3> QED BY <3>2, FamilyChains
  <2> QED BY <1>11, <2>1, <2>2, Zenon DEF GeneratedSseSqrt
<1> QED
  BY <1>1, <1>2, <1>3, <1>4, <1>5, <1>6, <1>7, <1>8, <1>9, <1>10, <1>11, Zenon
  DEF GeneratedRows, GeneratedFmadd, GeneratedFmsub, GeneratedFnmadd, GeneratedFnmsub

\* What a load of ld makes of a store to st.
Overlaps(kind, name, st, ld, shows) ==
  \/ kind = "lat" /\ shows = <<"fwd">> /\ name # "E1" /\ ld \subseteq st
  \/ kind = "lat" /\ shows = <<"stall">> /\ name # "E1" /\ ~(ld \subseteq st) /\ ld \cap st # {}
  \/ kind = "lat" /\ shows = <<"stall">> /\ name = "E1"
       /\ ld \cap st = {} /\ { b % 4096 : b \in ld } \cap st # {}
  \/ kind = "control" /\ shows = <<>> /\ name # "E1"
       /\ ld \cap st = {} /\ { b % 4096 : b \in ld } \cap st = {}

\* A row of src/uops_storefwd.cpp, by what it stores and loads.
Trip(k, kind, name, st, ld, shows) ==
  /\ k = [RoundTrip(kind, name, st, ld, shows) EXCEPT !.file = "storefwd"]
  /\ st \in SUBSET Int /\ ld \in SUBSET Int /\ st # {} /\ ld # {}
  /\ Overlaps(kind, name, st, ld, shows)

\* Such a row has the shape of a round trip.
LEMMA TripIs ==
  ASSUME NEW k, NEW kind, NEW name, NEW st, NEW ld, NEW shows, Trip(k, kind, name, st, ld, shows)
  PROVE  TripRow(k)
<1>1. /\ k.file = "storefwd" /\ k.kind = kind /\ k.name = name /\ k.shows = shows
      /\ k.body = <<Store(st), Load(ld), Mask>> /\ k.reps = 32 /\ k.ops = 32 /\ k.tail = <<>>
  <2>1. k = [RoundTrip(kind, name, st, ld, shows) EXCEPT !.file = "storefwd"]
    BY DEF Trip
  <2>2. PICK body : body = <<Store(st), Load(ld), Mask>>
    OBVIOUS
  <2>3. RoundTrip(kind, name, st, ld, shows) = [Row(kind, name, body, 32, shows) EXCEPT !.ops = 32]
    BY <2>2 DEF RoundTrip
  <2>4. PICK r : r = RoundTrip(kind, name, st, ld, shows)
    OBVIOUS
  <2>5. r = [file |-> "", kind |-> kind, name |-> name, body |-> body, reps |-> 32,
             tail |-> <<>>, shows |-> shows, ops |-> 32]
    BY ONLY <2>3, <2>4 DEF Row
  <2>6. k = [r EXCEPT !.file = "storefwd"]
    BY <2>1, <2>4
  <2> QED BY ONLY <2>2, <2>5, <2>6
<1>2. /\ st \in SUBSET Int /\ ld \in SUBSET Int /\ st # {} /\ ld # {}
      /\ Overlaps(kind, name, st, ld, shows)
  BY DEF Trip
<1> QED BY ONLY <1>1, <1>2 DEF TripRow, Overlaps

\* The six rows of the harness are round trips, each with the overlap that it names.
LEMMA TripRows ==
  ASSUME NEW k \in ForwardingRows \cup AliasRows
  PROVE  TripRow(k)
<1>1. PICK r : /\ k = [r EXCEPT !.file = "storefwd"]
               /\ \/ r = RoundTrip("lat", "A", 0..7, 0..7, <<"fwd">>)
                  \/ r = RoundTrip("lat", "B", 0..7, 4..11, <<"stall">>)
                  \/ r = RoundTrip("lat", "C", 0..3, 0..7, <<"stall">>)
                  \/ r = RoundTrip("lat", "D", 0..7, 0..3, <<"fwd">>)
                  \/ r = RoundTrip("lat", "E1", 0..7, 4096..4103, <<"stall">>)
                  \/ r = RoundTrip("control", "E2", 0..7, 64..71, <<>>)
  <2>1. CASE k \in ForwardingRows
    BY <2>1 DEF ForwardingRows, In
  <2>2. CASE k \in AliasRows
    BY <2>2 DEF AliasRows, In
  <2> QED BY <2>1, <2>2
<1>2. /\ 0..7 \in SUBSET Int /\ 0..3 \in SUBSET Int /\ 4..11 \in SUBSET Int
      /\ 64..71 \in SUBSET Int /\ 4096..4103 \in SUBSET Int
      /\ 0 \in 0..7 /\ 0 \in 0..3 /\ 4 \in 4..11 /\ 64 \in 64..71 /\ 4096 \in 4096..4103
  OBVIOUS
<1>3. CASE r = RoundTrip("lat", "A", 0..7, 0..7, <<"fwd">>)
  <2>1. Overlaps("lat", "A", 0..7, 0..7, <<"fwd">>)
    BY DEF Overlaps
  <2> QED BY <1>1, <1>2, <1>3, <2>1, TripIs DEF Trip
<1>4. CASE r = RoundTrip("lat", "B", 0..7, 4..11, <<"stall">>)
  <2>1. 11 \in 4..11 /\ 11 \notin 0..7 /\ 4 \in 4..11 /\ 4 \in 0..7
    OBVIOUS
  <2>2. Overlaps("lat", "B", 0..7, 4..11, <<"stall">>)
    BY <2>1 DEF Overlaps
  <2>3. Trip(k, "lat", "B", 0..7, 4..11, <<"stall">>)
    BY <1>1, <1>2, <1>4, <2>2 DEF Trip
  <2> QED BY <2>3, TripIs
<1>5. CASE r = RoundTrip("lat", "C", 0..3, 0..7, <<"stall">>)
  <2>1. 7 \in 0..7 /\ 7 \notin 0..3 /\ 0 \in 0..7 /\ 0 \in 0..3
    OBVIOUS
  <2>2. Overlaps("lat", "C", 0..3, 0..7, <<"stall">>)
    BY <2>1 DEF Overlaps
  <2>3. Trip(k, "lat", "C", 0..3, 0..7, <<"stall">>)
    BY <1>1, <1>2, <1>5, <2>2 DEF Trip
  <2> QED BY <2>3, TripIs
<1>6. CASE r = RoundTrip("lat", "D", 0..7, 0..3, <<"fwd">>)
  <2>1. Overlaps("lat", "D", 0..7, 0..3, <<"fwd">>)
    BY DEF Overlaps
  <2>3. Trip(k, "lat", "D", 0..7, 0..3, <<"fwd">>)
    BY <1>1, <1>2, <1>6, <2>1 DEF Trip
  <2> QED BY <2>3, TripIs
<1>7. CASE r = RoundTrip("lat", "E1", 0..7, 4096..4103, <<"stall">>)
  <2>1. 4096 % 4096 = 0 /\ 0 \in 0..7 /\ 4096 \in 4096..4103 /\ (4096..4103) \cap (0..7) = {}
    OBVIOUS
  <2>2. 0 \in { b % 4096 : b \in 4096..4103 }
    BY <2>1
  <2>3. Overlaps("lat", "E1", 0..7, 4096..4103, <<"stall">>)
    BY <2>1, <2>2 DEF Overlaps
  <2>4. Trip(k, "lat", "E1", 0..7, 4096..4103, <<"stall">>)
    BY <1>1, <1>2, <1>7, <2>3 DEF Trip
  <2> QED BY <2>4, TripIs
<1>8. CASE r = RoundTrip("control", "E2", 0..7, 64..71, <<>>)
  <2>1. (64..71) \cap (0..7) = {} /\ \A b \in 64..71 : b % 4096 = b
    OBVIOUS
  <2>2. { b % 4096 : b \in 64..71 } \cap (0..7) = {}
    BY <2>1
  <2>3. Overlaps("control", "E2", 0..7, 64..71, <<>>)
    BY <2>1, <2>2 DEF Overlaps
  <2>4. Trip(k, "control", "E2", 0..7, 64..71, <<>>)
    BY <1>1, <1>2, <1>8, <2>3 DEF Trip
  <2> QED BY <2>4, TripIs
<1> QED BY <1>1, <1>3, <1>4, <1>5, <1>6, <1>7, <1>8

\* Every row is of one of three shapes.
LEMMA RowShapes ==
  ASSUME NEW k \in AllRows
  PROVE  ChainedRow(k) \/ StreamRow(k) \/ TripRow(k)
<1>1. ASSUME k \in UNION {LinuxInt, PmcInt, WindowsInt}
      PROVE  ChainedRow(k)
  BY <1>1, IntChainRows DEF LinuxInt, PmcInt, WindowsInt
<1>2. ASSUME k \in UNION {LinuxFp, PmcFp, WindowsFp}
      PROVE  ChainedRow(k)
  BY <1>2, FpChainRows DEF LinuxFp, PmcFp, WindowsFp
<1>3. ASSUME k \in UNION {VectorSse, VectorAvx2, VectorAvxFp, VectorFma, VectorShuffles, VectorDivSqrt}
      PROVE  ChainedRow(k) \/ StreamRow(k)
  <2>1. \E path \in {"dst", "src"} : \E names : k \in VectorPair("fp", path, names)
    BY <1>3, Zenon DEF VectorSse, VectorAvx2, VectorAvxFp, VectorFma, VectorShuffles, VectorDivSqrt
  <2>2. {"dst", "src"} \subseteq Plain /\ "fp" \in {"alu", "fp", "load"}
    BY DEF Plain
  <2> QED BY <2>1, <2>2, VectorPairRows
<1> QED
  BY <1>1, <1>2, <1>3, ResearchLatencyRows, ResearchStreamRows, ThroughputRows, CarryChains,
     CmovChains, MemoryOperandChains, TripRows, GeneratedChains, ZenonT(60) DEF AllRows

-------------------------------------------------------------------------------
(* What an instruction waits for, and until when. *)

\* An instruction whose paths have a latency in the cores of row k.
GoodInsn(k, insn) ==
  /\ insn \in Insn /\ insn.reads # {}
  /\ \A r \in insn.reads : r[2] \in {"one", "data"} \cup Paths(k)
  /\ insn.loads # {} => UsesMemory(k)

\* What a loop has besides its rows are instructions too.
LEMMA TailInsn == SetZF \in Insn /\ LoopEnd \in Insn /\ Mask \in Insn
<1>1. /\ {<<"k", "one">>} \in SUBSET (Locations \X PathNames)
      /\ {<<"i", "one">>} \in SUBSET (Locations \X PathNames)
      /\ {"x"} \X {"and"} \in SUBSET (Locations \X PathNames)
      /\ {"CF", "ZF"} \in SUBSET Locations /\ {"i", "CF", "ZF"} \in SUBSET Locations
      /\ {"x"} \in SUBSET Locations /\ "alu" \in Units
  BY LocationsAre DEF PathNames, Units
<1> QED BY <1>1, OpIsInsn, ZenonT(60) DEF SetZF, LoopEnd, Mask, Self

\* The three instructions of a round trip, field by field.
LEMMA StoreLoad ==
  ASSUME NEW st \in SUBSET Int, NEW ld \in SUBSET Int
  PROVE  /\ Store(st) = [unit |-> "store", reads |-> {<<"x", "data">>}, writes |-> {"mem"},
                         loads |-> {}, stores |-> st]
         /\ Load(ld) = [unit |-> "load", reads |-> {<<"k", "one">>}, writes |-> {"x"},
                        loads |-> ld, stores |-> {}]
         /\ Mask = [unit |-> "alu", reads |-> {"x"} \X {"and"}, writes |-> {"x"},
                    loads |-> {}, stores |-> {}]
         /\ Store(st) \in Insn /\ Load(ld) \in Insn
<1>1. /\ Store(st) = [unit |-> "store", reads |-> {<<"x", "data">>}, writes |-> {"mem"},
                      loads |-> {}, stores |-> st]
      /\ Load(ld) = [unit |-> "load", reads |-> {<<"k", "one">>}, writes |-> {"x"},
                     loads |-> ld, stores |-> {}]
  <2>1. /\ Op("store", {<<"x", "data">>}, {"mem"})
             = [unit |-> "store", reads |-> {<<"x", "data">>}, writes |-> {"mem"},
                loads |-> {}, stores |-> {}]
        /\ Op("load", {<<"k", "one">>}, {"x"})
             = [unit |-> "load", reads |-> {<<"k", "one">>}, writes |-> {"x"},
                loads |-> {}, stores |-> {}]
    BY DEF Op
  <2>2. PICK o : o = Op("store", {<<"x", "data">>}, {"mem"})
    OBVIOUS
  <2>3. PICK p : p = Op("load", {<<"k", "one">>}, {"x"})
    OBVIOUS
  <2>4. Store(st) = [o EXCEPT !.stores = st] /\ Load(ld) = [p EXCEPT !.loads = ld]
    BY <2>2, <2>3 DEF Store, Load
  <2>5. /\ o = [unit |-> "store", reads |-> {<<"x", "data">>}, writes |-> {"mem"},
                 loads |-> {}, stores |-> {}]
        /\ p = [unit |-> "load", reads |-> {<<"k", "one">>}, writes |-> {"x"},
                 loads |-> {}, stores |-> {}]
    BY ONLY <2>1, <2>2, <2>3
  <2>6. Store(st) = [unit |-> "store", reads |-> {<<"x", "data">>}, writes |-> {"mem"},
                     loads |-> {}, stores |-> st]
    BY ONLY <2>4, <2>5
  <2>7. Load(ld) = [unit |-> "load", reads |-> {<<"k", "one">>}, writes |-> {"x"},
                    loads |-> ld, stores |-> {}]
    BY ONLY <2>4, <2>5
  <2> QED BY ONLY <2>6, <2>7
<1>2. /\ {<<"k", "one">>} \in SUBSET (Locations \X PathNames)
      /\ {<<"x", "data">>} \in SUBSET (Locations \X PathNames)
      /\ {"x"} \in SUBSET Locations /\ {"mem"} \in SUBSET Locations
      /\ "load" \in Units /\ "store" \in Units /\ {} \in SUBSET Int
  BY LocationsAre DEF PathNames, Units
<1>3. Store(st) \in Insn /\ Load(ld) \in Insn
  BY <1>1, <1>2 DEF Insn
<1>4. Mask = [unit |-> "alu", reads |-> {"x"} \X {"and"}, writes |-> {"x"},
              loads |-> {}, stores |-> {}]
  BY DEF Mask, Self, Op
<1> QED BY <1>1, <1>3, <1>4

\* The instructions of a row are those of its body and its tail.
LEMMA InstructionsAre ==
  ASSUME NEW k, k.body \in Seq(Insn), k.tail \in Seq(Insn)
  PROVE  /\ \A j \in 1..Len(k.body) : k.body[j] \in Instructions(k)
         /\ \A j \in 1..Len(k.tail) : k.tail[j] \in Instructions(k)
         /\ \A insn \in Instructions(k) : \/ \E j \in 1..Len(k.body) : insn = k.body[j]
                                          \/ \E j \in 1..Len(k.tail) : insn = k.tail[j]
<1> DEFINE b == k.body
           t == k.tail
           all == b \o t
<1>1. /\ b \in Seq(Insn) /\ t \in Seq(Insn) /\ Len(b) \in Nat /\ Len(t) \in Nat
  OBVIOUS
<1>7. Instructions(k) = Range(b \o t)
  BY DEF Instructions
<1> HIDE DEF b, t
<1>2. Instructions(k) = {all[i] : i \in DOMAIN all}
  BY <1>7 DEF Range
<1>3. /\ all \in Seq(Insn) /\ Len(all) = Len(b) + Len(t) /\ DOMAIN all = 1..(Len(b) + Len(t))
      /\ \A i \in 1..(Len(b) + Len(t)) : all[i] = IF i <= Len(b) THEN b[i] ELSE t[i - Len(b)]
  BY <1>1, ConcatProperties
<1> HIDE DEF all
<1>4. ASSUME NEW j \in 1..Len(b) PROVE b[j] \in Instructions(k)
  <2>1. j \in DOMAIN all /\ all[j] = b[j]
    BY <1>1, <1>3
  <2> QED BY <1>2, <2>1
<1>5. ASSUME NEW j \in 1..Len(t) PROVE t[j] \in Instructions(k)
  <2> DEFINE i == Len(b) + j
  <2>2. i \in 1..(Len(b) + Len(t)) /\ ~(i <= Len(b)) /\ i - Len(b) = j
    BY <1>1
  <2> HIDE DEF i
  <2>1. i \in DOMAIN all /\ all[i] = t[j]
    BY <1>3, <2>2
  <2> QED BY <1>2, <2>1
<1>6. ASSUME NEW insn \in Instructions(k)
      PROVE  (\E j \in 1..Len(b) : insn = b[j]) \/ (\E j \in 1..Len(t) : insn = t[j])
  <2>1. PICK i \in 1..(Len(b) + Len(t)) : insn = all[i]
    BY <1>2, <1>3
  <2>2. CASE i <= Len(b)
    BY <1>1, <1>3, <2>1, <2>2
  <2>3. CASE ~(i <= Len(b))
    <3>1. i - Len(b) \in 1..Len(t) /\ insn = t[i - Len(b)]
      BY <1>1, <1>3, <2>1, <2>3
    <3> QED BY <3>1
  <2> QED BY <2>2, <2>3
<1> QED BY <1>4, <1>5, <1>6 DEF b, t

\* The copies of a row's body and its tail are sequences of instructions.
LEMMA RowSizes ==
  ASSUME NEW k \in AllRows
  PROVE  /\ k.body \in Seq(Insn) /\ Len(k.body) \in Nat \ {0} /\ k.reps \in Nat \ {0}
         /\ k.tail \in {<<>>, <<SetZF>>} /\ k.tail \in Seq(Insn) /\ Len(k.tail) \in {0, 1}
         /\ k.ops \in {32, 64, 512}
<1> DEFINE Sized == /\ k.body \in Seq(Insn) /\ Len(k.body) \in Nat \ {0} /\ k.reps \in Nat \ {0}
                    /\ k.tail \in {<<>>, <<SetZF>>} /\ k.ops \in {32, 64, 512}
<1>1. ChainedRow(k) => Sized
  <2>1. SUFFICES ASSUME ChainedRow(k) PROVE Sized
    OBVIOUS
  <2>2. /\ k.body \in Seq(Insn) /\ Len(k.body) \in 1..2 /\ k.reps \in Nat
        /\ k.reps * Len(k.body) = 64 /\ k.ops = 64 /\ k.tail \in {<<>>, <<SetZF>>}
    BY <2>1 DEF ChainedRow
  <2>3. Len(k.body) = 1 \/ Len(k.body) = 2
    BY <2>2
  <2>4. k.reps # 0
    BY <2>2, <2>3
  <2> QED BY <2>2, <2>3, <2>4
<1>2. StreamRow(k) => Sized
  <2>1. SUFFICES ASSUME StreamRow(k) PROVE Sized
    OBVIOUS
  <2>2. /\ k.body \in Seq(Insn) /\ k.tail = <<>>
        /\ \/ Len(k.body) = 4 /\ k.reps = 16 /\ k.ops = 64
           \/ Len(k.body) = 8 /\ k.reps = 8 /\ k.ops = 64
           \/ Len(k.body) = 8 /\ k.reps = 64 /\ k.ops = 512
    BY <2>1 DEF StreamRow
  <2>3. k.tail \in {<<>>, <<SetZF>>}
    BY <2>2
  <2>4. Len(k.body) \in Nat \ {0} /\ k.reps \in Nat \ {0} /\ k.ops \in {32, 64, 512}
    <3>1. CASE Len(k.body) = 4 /\ k.reps = 16 /\ k.ops = 64
      BY ONLY <3>1
    <3>2. CASE Len(k.body) = 8 /\ k.reps = 8 /\ k.ops = 64
      BY ONLY <3>2
    <3>3. CASE Len(k.body) = 8 /\ k.reps = 64 /\ k.ops = 512
      BY ONLY <3>3
    <3> QED BY ONLY <2>2, <3>1, <3>2, <3>3
  <2> QED BY <2>2, <2>3, <2>4
<1>3. TripRow(k) => Sized
  <2>0. SUFFICES ASSUME TripRow(k) PROVE Sized
    OBVIOUS
  <2>1. PICK st \in SUBSET Int, ld \in SUBSET Int : k.body = <<Store(st), Load(ld), Mask>>
    BY <2>0 DEF TripRow
  <2>2. \A i1, i2, i3 \in Insn : <<i1, i2, i3>> \in Seq(Insn) /\ Len(<<i1, i2, i3>>) = 3
    OBVIOUS
  <2>3. Store(st) \in Insn /\ Load(ld) \in Insn /\ Mask \in Insn
    BY StoreLoad, TailInsn
  <2>4. k.body \in Seq(Insn) /\ Len(k.body) = 3
    BY ONLY <2>1, <2>2, <2>3
  <2>5. k.tail = <<>> /\ k.reps = 32 /\ k.ops = 32
    BY <2>0 DEF TripRow
  <2>6. k.tail \in {<<>>, <<SetZF>>}
    BY <2>5
  <2> QED BY ONLY <2>4, <2>5, <2>6
<1>4. Sized
  BY <1>1, <1>2, <1>3, RowShapes
<1>5. <<>> \in Seq(Insn) /\ <<SetZF>> \in Seq(Insn) /\ Len(<<SetZF>>) = 1 /\ Len(<<>>) = 0
  BY TailInsn
<1>6. k.tail \in Seq(Insn) /\ Len(k.tail) \in {0, 1}
  <2>1. CASE k.tail = <<>>
    BY ONLY <1>5, <2>1
  <2>2. CASE k.tail = <<SetZF>>
    BY ONLY <1>5, <2>2
  <2> QED BY <1>4, <2>1, <2>2
<1> QED BY <1>4, <1>6

\* The core knows a latency for every path of every instruction of a row.
LEMMA RowInsns ==
  ASSUME NEW k \in AllRows
  PROVE  /\ \A j \in 1..Len(k.body) : GoodInsn(k, k.body[j])
         /\ \A j \in 1..Len(k.tail) : GoodInsn(k, k.tail[j])
         /\ GoodInsn(k, LoopEnd)
         /\ k.file = "storefwd" => GoodInsn(k, Mask)
<1>1. /\ k.body \in Seq(Insn) /\ k.tail \in Seq(Insn) /\ k.tail \in {<<>>, <<SetZF>>}
  BY RowSizes
<1>2. /\ \A j \in 1..Len(k.body) : k.body[j] \in Instructions(k) /\ k.body[j] \in Insn
      /\ \A j \in 1..Len(k.tail) : k.tail[j] \in Instructions(k) /\ k.tail[j] \in Insn
  BY <1>1, InstructionsAre
<1>3. ASSUME NEW insn \in Instructions(k), NEW r \in insn.reads
      PROVE  r[2] \in {"one", "data"} \cup Paths(k)
  BY DEF Paths
<1>4. \A j \in 1..Len(k.tail) : k.tail[j] = SetZF
  BY <1>1
<1>5. /\ SetZF = Op("alu", {<<"k", "one">>}, {"CF", "ZF"}) /\ SetZF.reads # {} /\ SetZF.loads = {}
      /\ LoopEnd.reads # {} /\ LoopEnd.loads = {} /\ \A r \in LoopEnd.reads : r[2] = "one"
      /\ Mask.reads = {"x"} \X {"and"} /\ Mask.loads = {} /\ Mask.reads # {}
  <2>1. SetZF = Op("alu", {<<"k", "one">>}, {"CF", "ZF"}) /\ SetZF.reads = {<<"k", "one">>}
        /\ SetZF.loads = {}
    BY DEF SetZF, Op
  <2>2. LoopEnd.reads = {<<"i", "one">>} /\ LoopEnd.loads = {}
    BY DEF LoopEnd, Op
  <2>3. Mask.reads = {"x"} \X {"and"} /\ Mask.loads = {}
    BY DEF Mask, Self, Op
  <2>4. <<"x", "and">> \in {"x"} \X {"and"} /\ <<"k", "one">> \in {<<"k", "one">>}
        /\ <<"i", "one">> \in {<<"i", "one">>}
    OBVIOUS
  <2>5. \A r \in LoopEnd.reads : r[2] = "one"
    BY <2>2
  <2> QED BY <2>1, <2>2, <2>3, <2>4, <2>5
<1>6. \A j \in 1..Len(k.tail) : GoodInsn(k, k.tail[j])
  BY <1>2, <1>3, <1>4, <1>5 DEF GoodInsn
<1>7. GoodInsn(k, LoopEnd)
  BY <1>5, TailInsn DEF GoodInsn
<1>8. \A j \in 1..Len(k.body) : k.body[j].reads # {} /\ (k.body[j].loads # {} => UsesMemory(k))
  <2>1. CASE ChainedRow(k)
    BY <2>1 DEF ChainedRow, ChainedBody
  <2>2. CASE StreamRow(k)
    <3>1. PICK unit \in {"alu", "fp", "load"}, paths \in (SUBSET Plain) \ {{}}, from \in {"own", "k"} :
            \A j \in 1..Len(k.body) :
              k.body[j] = Op(unit, {IF from = "k" THEN "k" ELSE Eight[j]} \X paths, {Eight[j]})
      BY <2>2 DEF StreamRow
    <3>2. ASSUME NEW j \in 1..Len(k.body)
          PROVE  k.body[j].reads # {} /\ k.body[j].loads = {}
      <4>1. PICK p : p \in paths
        BY <3>1
      <4>2. PICK source : source = IF from = "k" THEN "k" ELSE Eight[j]
        OBVIOUS
      <4>3. k.body[j] = Op(unit, {source} \X paths, {Eight[j]})
        BY <3>1, <4>2
      <4>4. k.body[j].reads = {source} \X paths /\ k.body[j].loads = {}
        BY <4>3 DEF Op
      <4>5. <<source, p>> \in {source} \X paths
        BY <4>1
      <4> QED BY <4>4, <4>5
    <3> QED BY <3>2
  <2>3. CASE TripRow(k)
    <3>1. PICK st \in SUBSET Int, ld \in SUBSET Int :
            st # {} /\ k.body = <<Store(st), Load(ld), Mask>>
      BY <2>3 DEF TripRow
    <3>2. /\ Len(k.body) = 3 /\ k.body[1] = Store(st) /\ k.body[2] = Load(ld) /\ k.body[3] = Mask
      BY <3>1
    <3>3. Store(st).stores = st
      BY StoreLoad
    <3>4. UsesMemory(k)
      BY <1>2, <3>1, <3>2, <3>3 DEF UsesMemory
    <3>5. Store(st).reads = {<<"x", "data">>} /\ Load(ld).reads = {<<"k", "one">>}
          /\ Store(st).loads = {} 
      BY StoreLoad
    <3>6. \A j \in 1..Len(k.body) : k.body[j] \in {Store(st), Load(ld), Mask}
      BY <3>2
    <3>7. Store(st).reads # {} /\ Load(ld).reads # {}
      BY <3>5
    <3> QED BY <1>5, <3>4, <3>6, <3>7
  <2> QED BY <2>1, <2>2, <2>3, RowShapes
<1>9. \A j \in 1..Len(k.body) : GoodInsn(k, k.body[j])
  BY <1>2, <1>3, <1>8 DEF GoodInsn
<1>10. ASSUME k.file = "storefwd" PROVE GoodInsn(k, Mask)
  <2>1. TripRow(k)
    BY <1>10, RowShapes DEF ChainedRow, StreamRow
  <2>2. PICK st \in SUBSET Int, ld \in SUBSET Int : k.body = <<Store(st), Load(ld), Mask>>
    BY <2>1 DEF TripRow
  <2>3. Len(k.body) = 3 /\ k.body[3] = Mask
    BY <2>2
  <2> QED BY <1>9, <2>3
<1> QED BY <1>6, <1>7, <1>9, <1>10

\* The largest of a nonempty set of numbers below a bound.
LEMMA MaxIs ==
  ASSUME NEW bound \in Nat, NEW S \in SUBSET (0..bound), S # {}
  PROVE  Max(S) \in S /\ \A y \in S : y <= Max(S)
<1>1. \E x \in S : \A y \in S : x >= y
  <2>1. PICK x \in S : \A y \in S : y <= x
    BY GreatestNat
  <2>2. x \in Int /\ \A y \in S : y \in Int
    OBVIOUS
  <2> QED BY <2>1, <2>2
<1>2. Max(S) \in S /\ \A y \in S : Max(S) >= y
  BY <1>1 DEF Max
<1>3. \A y \in S : y \in Int
  OBVIOUS
<1> QED BY <1>2, <1>3

\* The latest of the fourteen locations.
LEMMA SomeBound ==
  ASSUME ready \in [Locations -> Nat]
  PROVE  \E t \in Nat : \A loc \in Locations : ready[loc] <= t
<1> DEFINE t == ready["a"] + ready["b"] + ready["c"] + ready["d"] + ready["e"] + ready["f"]
                + ready["g"] + ready["h"] + ready["x"] + ready["i"] + ready["k"] + ready["CF"]
                + ready["ZF"] + ready["mem"]
<1>1. \A loc \in Locations : ready[loc] \in Nat
  OBVIOUS
<1>2. t \in Nat /\ \A loc \in Locations : ready[loc] <= t
  BY <1>1, LocationsAre
<1> HIDE DEF t
<1> QED BY <1>2

\* When the instruction begins and ends: no earlier than its operands and a pipe let it,
\* and no later.
Timed(insn) ==
  /\ FirstFree(insn.unit) \in 1..core.pipes
  /\ \A q \in 1..core.pipes : free[insn.unit][FirstFree(insn.unit)] <= free[insn.unit][q]
  /\ Own(insn) \in 0..MaxLat
  /\ \A r \in Waits(insn) : r[1] \in Locations /\ Latency(r[2]) \in 0..Own(insn)
  /\ \E r \in Waits(insn) : Latency(r[2]) = Own(insn)
  /\ Finish(insn) \in Nat
  /\ Finish(insn) >= free[insn.unit][FirstFree(insn.unit)] + Own(insn)
  /\ \A r \in Waits(insn) : Finish(insn) >= ready[r[1]] + Latency(r[2])
  /\ \/ Finish(insn) = free[insn.unit][FirstFree(insn.unit)] + Own(insn)
     \/ \E r \in Waits(insn) : Finish(insn) = ready[r[1]] + Latency(r[2])
  /\ Busy(insn) \in {1, Own(insn)}

\* The latencies of what an instruction may wait for.
LEMMA WaitsAre ==
  ASSUME TypeOK, NEW insn, GoodInsn(row, insn)
  PROVE  /\ Waits(insn) # {} /\ insn.unit \in Units
         /\ insn.reads \subseteq Waits(insn)
         /\ \A r \in Waits(insn) : r[1] \in Locations /\ Latency(r[2]) \in 0..MaxLat
<1>1. ASSUME NEW p \in {"one", "data"} \cup Paths(row)
      PROVE  Latency(p) \in 0..MaxLat
  <2>1. core.lat \in [Paths(row) -> 1..MaxLat]
    BY DEF TypeOK, Cores
  <2>2. MaxLat \in Nat \ {0}
    BY MaxLatAssumption
  <2>3. CASE p = "one" \/ p = "data"
    BY <2>2, <2>3 DEF Latency
  <2>4. CASE p \in Paths(row) /\ p # "one" /\ p # "data"
    <3>1. core.lat[p] \in 1..MaxLat
      BY <2>1, <2>4
    <3> QED BY <2>2, <2>4, <3>1 DEF Latency
  <2> QED BY <2>3, <2>4
<1>2. ASSUME NEW p \in ForwardPaths(insn.loads)
      PROVE  p \in Paths(row)
  <2>1. p \in {"fwd", "stall"} /\ insn.loads # {}
    BY DEF ForwardPaths
  <2>2. UsesMemory(row)
    BY <2>1 DEF GoodInsn
  <2> QED BY <2>1, <2>2 DEF Paths
<1>3. ASSUME NEW r \in Waits(insn)
      PROVE  r[1] \in Locations /\ r[2] \in {"one", "data"} \cup Paths(row)
  <2>1. CASE r \in insn.reads
    BY <2>1 DEF GoodInsn, Insn
  <2>2. CASE r \in {"mem"} \X ForwardPaths(insn.loads)
    <3>1. r[1] = "mem" /\ r[2] \in ForwardPaths(insn.loads)
      BY <2>2
    <3> QED BY <1>2, <3>1, LocationsAre
  <2> QED BY <2>1, <2>2 DEF Waits
<1>4. Waits(insn) # {} /\ insn.unit \in Units /\ insn.reads \subseteq Waits(insn)
  BY DEF GoodInsn, Insn, Waits
<1> QED BY <1>1, <1>3, <1>4

\* So the timing of such an instruction is well defined, and says when it can finish.
LEMMA Timing ==
  ASSUME TypeOK, NEW insn, GoodInsn(row, insn)
  PROVE  Timed(insn)
<1> DEFINE u == insn.unit
           p == FirstFree(u)
           own == Own(insn)
           lats == { Latency(r[2]) : r \in Waits(insn) }
           ends == { ready[r[1]] + Latency(r[2]) : r \in Waits(insn) }
<1>1. /\ Waits(insn) # {} /\ u \in Units
      /\ \A r \in Waits(insn) : r[1] \in Locations /\ Latency(r[2]) \in 0..MaxLat
  BY WaitsAre
<1>2. core.pipes \in Nat \ {0} /\ MaxLat \in Nat
  BY PipesAssumption, MaxLatAssumption DEF TypeOK, Cores
<1>3. \A q \in 1..core.pipes : free[u][q] \in Nat
  BY <1>1 DEF TypeOK
<1>4. p \in 1..core.pipes /\ \A q \in 1..core.pipes : free[u][p] <= free[u][q]
  <2> DEFINE T == { free[u][q] : q \in 1..core.pipes }
  <2>1. T \in SUBSET Nat /\ T # {}
    <3>1. 1 \in 1..core.pipes
      BY <1>2
    <3> QED BY <1>3, <3>1
  <2>2. PICK x \in T : \A y \in T : x <= y
    BY <2>1, LeastNat
  <2>3. \E q1 \in 1..core.pipes : \A q \in 1..core.pipes : free[u][q1] <= free[u][q]
    BY <2>2
  <2> QED BY <2>3 DEF FirstFree
<1>5. own \in 0..MaxLat /\ own \in lats /\ \A y \in lats : y <= own
  <2>1. lats \in SUBSET (0..MaxLat) /\ lats # {}
    BY <1>1
  <2> HIDE DEF lats
  <2>2. Max(lats) \in lats /\ \A y \in lats : y <= Max(lats)
    BY <1>2, <2>1, MaxIs
  <2>3. own = Max(lats)
    BY DEF Own, lats
  <2> HIDE DEF own
  <2> QED BY <2>1, <2>2, <2>3
<1>6. \A r \in Waits(insn) : r[1] \in Locations /\ Latency(r[2]) \in 0..own
  <2> HIDE DEF own
  <2> QED BY <1>1, <1>5
<1>7. \E r \in Waits(insn) : Latency(r[2]) = own
  <2> HIDE DEF own
  <2> QED BY <1>5
<1>8. /\ Finish(insn) \in {free[u][p] + own} \cup ends
      /\ \A y \in {free[u][p] + own} \cup ends : y <= Finish(insn)
      /\ Finish(insn) \in Nat
  <2> DEFINE S == {free[u][p] + own} \cup ends
  <2>1. PICK t \in Nat : \A loc \in Locations : ready[loc] <= t
    BY SomeBound DEF TypeOK
  <2>2. \A loc \in Locations : ready[loc] \in Nat
    BY DEF TypeOK
  <2>3. PICK f \in Nat : f = free[u][p]
    BY <1>3, <1>4
  <2>4. own \in Nat /\ own <= MaxLat
    BY <1>2, <1>5
  <2>5. S \in SUBSET (0..(t + f + MaxLat)) /\ S # {} /\ t + f + MaxLat \in Nat
    <3>1. \A r \in Waits(insn) : ready[r[1]] + Latency(r[2]) \in 0..(t + f + MaxLat)
      BY <1>1, <1>2, <2>1, <2>2
    <3>2. free[u][p] + own \in 0..(t + f + MaxLat)
      <4> HIDE DEF own, p, u
      <4> QED BY <1>2, <2>3, <2>4
    <3> DEFINE top == t + f + MaxLat
    <3>3. top \in Nat
      BY <1>2
    <3>4. ends \in SUBSET (0..top)
      BY <3>1
    <3>5. {free[u][p] + own} \in SUBSET (0..top) /\ {free[u][p] + own} # {}
      BY <3>2
    <3> HIDE DEF own, p, u, ends, top
    <3>6. S \in SUBSET (0..top) /\ S # {}
      BY <3>4, <3>5
    <3> QED BY <3>3, <3>6 DEF top
  <2>6. Finish(insn) = Max(S)
    BY DEF Finish
  <2> HIDE DEF S
  <2>7. Max(S) \in S /\ \A y \in S : y <= Max(S)
    BY <2>5, MaxIs
  <2>8. Finish(insn) \in Nat
    <3>1. \A y \in 0..(t + f + MaxLat) : y \in Nat
      OBVIOUS
    <3> QED BY <2>5, <2>6, <2>7, <3>1
  <2> QED BY <2>6, <2>7, <2>8 DEF S
<1>9. Busy(insn) \in {1, own}
  BY DEF Busy
<1>10. /\ Finish(insn) >= free[u][p] + own
       /\ \A r \in Waits(insn) : Finish(insn) >= ready[r[1]] + Latency(r[2])
       /\ \/ Finish(insn) = free[u][p] + own
          \/ \E r \in Waits(insn) : Finish(insn) = ready[r[1]] + Latency(r[2])
  <2>1. free[u][p] + own \in Int
    <3> HIDE DEF own, p
    <3> QED BY <1>3, <1>4, <1>5
  <2>2. \A r \in Waits(insn) : ready[r[1]] + Latency(r[2]) \in Int
    BY <1>1 DEF TypeOK
  <2> HIDE DEF own, p, u
  <2> QED BY <1>8, <2>1, <2>2
<1> QED BY <1>2, <1>4, <1>5, <1>6, <1>7, <1>8, <1>9, <1>10 DEF Timed

\* The empty loop: nothing but the end of the loop, or thirty-two masks before it.
LEMMA EmptyCode ==
  ASSUME phase = "empty", pc \in 0..(CodeLength - 1)
  PROVE  IF row.file = "storefwd"
           THEN /\ CodeLength = 33 /\ NextInstruction = IF pc < 32 THEN Mask ELSE LoopEnd
           ELSE CodeLength = 1 /\ NextInstruction = LoopEnd
<1>1. CASE row.file = "storefwd"
  <2>1. Code = [body |-> <<Mask>>, reps |-> 32, tail |-> <<>>]
    BY <1>1 DEF Code, EmptyBody
  <2>2. Code.body = <<Mask>> /\ Code.reps = 32 /\ Code.tail = <<>> /\ Len(Code.body) = 1
        /\ Len(Code.tail) = 0 /\ Code.body[1] = Mask
    BY <2>1
  <2>3. CodeLength = 33
    BY <2>2 DEF CodeLength
  <2>4. pc \in 0..32 /\ pc % 1 = 0
    BY <2>3
  <2> QED BY <1>1, <2>2, <2>3, <2>4 DEF NextInstruction
<1>2. CASE row.file # "storefwd"
  <2>1. Code = [body |-> <<>>, reps |-> 32, tail |-> <<>>]
    BY <1>2 DEF Code, EmptyBody
  <2>2. Code.body = <<>> /\ Code.reps = 32 /\ Code.tail = <<>> /\ Len(Code.body) = 0
        /\ Len(Code.tail) = 0
    BY <2>1
  <2>3. CodeLength = 1
    BY <2>2 DEF CodeLength
  <2>4. pc = 0
    BY <2>3
  <2> QED BY <1>2, <2>2, <2>3, <2>4 DEF NextInstruction
<1> QED BY <1>1, <1>2

\* The instructions of the copies of a row's body.
Copies(k) == Len(k.body) * k.reps

\* The code of the measured loop: the copies of the body, the tail, the end of the loop.
LEMMA BenchCode ==
  ASSUME row \in AllRows, phase # "empty", pc \in 0..(CodeLength - 1)
  PROVE  /\ Copies(row) \in Nat /\ CodeLength = Copies(row) + Len(row.tail) + 1 /\ pc \in Nat
         /\ NextInstruction = IF pc < Copies(row) THEN row.body[(pc % Len(row.body)) + 1]
                              ELSE IF pc < Copies(row) + Len(row.tail) THEN SetZF
                              ELSE LoopEnd
         /\ pc % Len(row.body) \in 0..(Len(row.body) - 1)
<1>1. Code = row
  BY DEF Code
<1>2. /\ row.body \in Seq(Insn) /\ Len(row.body) \in Nat \ {0} /\ row.reps \in Nat \ {0}
      /\ row.tail \in {<<>>, <<SetZF>>} /\ Len(row.tail) \in {0, 1}
  BY RowSizes
<1>3. Copies(row) \in Nat
  BY <1>2 DEF Copies
<1>4. CodeLength = Copies(row) + Len(row.tail) + 1
  BY <1>1 DEF CodeLength, Copies
<1>5. pc \in Nat /\ pc % Len(row.body) \in 0..(Len(row.body) - 1)
  <2>1. CodeLength \in Int
    BY <1>2, <1>3, <1>4
  <2>2. pc \in Nat
    BY <2>1
  <2>3. PICK m \in Nat \ {0} : m = Len(row.body)
    BY <1>2
  <2>4. pc % m \in 0..(m - 1)
    BY <2>2, DivMod
  <2> QED BY <2>2, <2>3, <2>4
<1>6. ASSUME ~(pc < Copies(row)), pc < Copies(row) + Len(row.tail)
      PROVE  row.tail[pc - Copies(row) + 1] = SetZF
  <2>1. Len(row.tail) = 1 /\ pc - Copies(row) = 0
    <3>1. PICK c \in Nat : c = Copies(row)
      BY <1>3
    <3>2. PICK n \in {0, 1} : n = Len(row.tail)
      BY <1>2
    <3>3. pc \in Nat /\ ~(pc < c) /\ pc < c + n
      BY <1>5, <1>6, <3>1, <3>2
    <3>4. n = 1 /\ pc - c = 0
      <4>1. CASE n = 0
        BY <3>3, <4>1
      <4>2. CASE n = 1
        BY <3>3, <4>2
      <4> QED BY <3>2, <4>1, <4>2
    <3> QED BY <3>1, <3>2, <3>4
  <2>2. row.tail # <<>>
    <3>1. SUFFICES ASSUME row.tail = <<>> PROVE FALSE
      OBVIOUS
    <3>2. Len(<<>>) = 0
      OBVIOUS
    <3>3. Len(row.tail) = 0
      BY <3>1, <3>2, Zenon
    <3>4. Len(row.tail) # 0
      <4>1. Len(row.tail) = 1
        BY <2>1
      <4> QED BY ONLY <4>1
    <3> QED BY ONLY <3>3, <3>4
  <2>3. row.tail = <<SetZF>>
    BY <1>2, <2>2
  <2>4. <<SetZF>>[1] = SetZF /\ pc - Copies(row) + 1 = 1
    BY <2>1
  <2> QED BY <2>3, <2>4
<1>7. NextInstruction = IF pc < Copies(row) THEN row.body[(pc % Len(row.body)) + 1]
                        ELSE IF pc < Copies(row) + Len(row.tail) THEN row.tail[pc - Copies(row) + 1]
                        ELSE LoopEnd
  BY <1>1 DEF NextInstruction, Copies
<1> QED BY <1>3, <1>4, <1>5, <1>6, <1>7

\* Whichever loop runs, the next instruction is one that the core knows how to time.
LEMMA NextGood ==
  ASSUME row \in AllRows, phase \in {"empty", "bench", "done"}, pc \in 0..(CodeLength - 1)
  PROVE  GoodInsn(row, NextInstruction) /\ CodeLength \in Nat \ {0}
<1>1. CASE phase = "empty"
  <2>1. row.file = "storefwd" => GoodInsn(row, Mask)
    BY RowInsns
  <2>2. GoodInsn(row, LoopEnd)
    BY RowInsns
  <2> QED BY <1>1, <2>1, <2>2, EmptyCode
<1>2. CASE phase # "empty"
  <2> DEFINE copies == Copies(row)
             len == Len(row.body)
  <2>1. /\ copies \in Nat /\ CodeLength = copies + Len(row.tail) + 1 /\ pc \in Nat
        /\ NextInstruction = IF pc < copies THEN row.body[(pc % len) + 1]
                             ELSE IF pc < copies + Len(row.tail) THEN SetZF
                             ELSE LoopEnd
        /\ pc % len \in 0..(len - 1)
    BY <1>2, BenchCode
  <2>2. len \in Nat \ {0} /\ Len(row.tail) \in {0, 1} /\ row.tail \in {<<>>, <<SetZF>>}
    BY RowSizes
  <2>3. (pc % len) + 1 \in 1..len
    <3> DEFINE m == pc % len
    <3>1. m \in 0..(len - 1)
      BY <2>1
    <3> HIDE DEF m, len
    <3>2. m + 1 \in 1..len
      BY <2>2, <3>1
    <3> QED BY <3>2 DEF m
  <2>4. GoodInsn(row, row.body[(pc % len) + 1]) /\ GoodInsn(row, LoopEnd)
    BY <2>3, RowInsns
  <2>5. pc < copies + Len(row.tail) /\ ~(pc < copies) => GoodInsn(row, SetZF)
    <3>1. SUFFICES ASSUME pc < copies + Len(row.tail), ~(pc < copies) PROVE GoodInsn(row, SetZF)
      OBVIOUS
    <3>2. pc \in Int
      BY <2>1, <2>2
    <3>3. Len(row.tail) = 1
      <4> HIDE DEF copies
      <4> QED BY <2>1, <2>2, <3>1, <3>2
    <3>4. row.tail = <<SetZF>>
      <4>1. Len(<<>>) = 0
        OBVIOUS
      <4> QED BY <2>2, <3>3, <4>1
    <3>5. row.tail[1] = SetZF /\ 1 \in 1..Len(row.tail)
      BY <3>3, <3>4
    <3> QED BY <3>5, RowInsns
  <2>6. CodeLength \in Nat \ {0}
    <3> HIDE DEF copies
    <3> QED BY <2>1, <2>2
  <2> HIDE DEF copies, len
  <2> QED BY <2>1, <2>4, <2>5, <2>6
<1> QED BY <1>1, <1>2

\* read_tsc_end waits for the last of the locations.
LEMMA CyclesAre ==
  ASSUME ready \in [Locations -> Nat]
  PROVE  /\ Cycles \in Nat /\ \A loc \in Locations : ready[loc] <= Cycles
         /\ \E loc \in Locations : Cycles = ready[loc]
<1>1. PICK t \in Nat : \A loc \in Locations : ready[loc] <= t
  BY SomeBound
<1>2. \A loc \in Locations : ready[loc] \in 0..t
  BY <1>1
<1> DEFINE S == { ready[loc] : loc \in Locations }
<1>3. Cycles = Max(S)
  BY DEF Cycles, Range
<1>4. S \in SUBSET (0..t) /\ S # {}
  BY <1>2, LocationsAre
<1> HIDE DEF S
<1>5. Max(S) \in S /\ \A y \in S : y <= Max(S)
  BY <1>1, <1>4, MaxIs
<1>6. \A y \in 0..t : y \in Nat
  OBVIOUS
<1> QED BY <1>3, <1>4, <1>5, <1>6 DEF S

-------------------------------------------------------------------------------
(* Type correctness. *)

\* When the pipe that the instruction takes can begin another.
Release(insn) == Finish(insn) - Own(insn) + Busy(insn)

\* An instruction changes the locations that it writes and the pipe that it takes.
LEMMA Executed ==
  ASSUME TypeOK, Execute, NEW insn, insn = NextInstruction
  PROVE  /\ GoodInsn(row, insn) /\ Timed(insn)
         /\ Release(insn) \in Nat
         /\ Release(insn) >= free[insn.unit][FirstFree(insn.unit)]
         /\ \A loc \in Locations :
              ready'[loc] = IF loc \in insn.writes THEN Finish(insn) ELSE ready[loc]
         /\ \A u \in Units, p \in 1..core.pipes :
              free'[u][p] = IF u = insn.unit /\ p = FirstFree(u) THEN Release(insn) ELSE free[u][p]
         /\ ready' \in [Locations -> Nat]
         /\ free' \in [Units -> [1..core.pipes -> Nat]]
         /\ stored' = IF insn.stores # {} THEN insn.stores ELSE stored
<1>1. GoodInsn(row, insn)
  BY NextGood DEF TypeOK
<1>2. Timed(insn)
  BY <1>1, Timing
<1>3. insn.unit \in Units /\ FirstFree(insn.unit) \in 1..core.pipes
  BY <1>1, <1>2 DEF GoodInsn, Insn, Timed
<1>4. free[insn.unit][FirstFree(insn.unit)] \in Nat /\ free \in [Units -> [1..core.pipes -> Nat]]
  BY <1>3 DEF TypeOK
<1>5. Release(insn) \in Nat /\ Release(insn) >= free[insn.unit][FirstFree(insn.unit)]
  <2>1. PICK f \in Nat : f = free[insn.unit][FirstFree(insn.unit)]
    BY <1>4
  <2>2. PICK own \in Nat : own = Own(insn)
    BY <1>2, MaxLatAssumption DEF Timed
  <2>3. PICK fin \in Nat : fin = Finish(insn)
    BY <1>2 DEF Timed
  <2>4. Busy(insn) \in {1, own} /\ fin >= f + own
    BY <1>2, <2>1, <2>2, <2>3 DEF Timed
  <2>5. PICK busy \in Nat : busy = Busy(insn)
    BY <2>2, <2>4
  <2>6. fin - own + busy \in Nat /\ fin - own + busy >= f
    BY <2>4, <2>5
  <2> QED BY <2>1, <2>2, <2>3, <2>5, <2>6 DEF Release
<1>6. ready' = [loc \in Locations |-> IF loc \in insn.writes THEN Finish(insn) ELSE ready[loc]]
  BY DEF Execute
<1>7. free' = [free EXCEPT ![insn.unit][FirstFree(insn.unit)] = Release(insn)]
  BY DEF Execute, Release
<1>8. ready' \in [Locations -> Nat]
  BY <1>2, <1>6 DEF Timed, TypeOK
<1>9. free' \in [Units -> [1..core.pipes -> Nat]]
  BY ONLY <1>3, <1>4, <1>5, <1>7
<1>10. \A u \in Units, p \in 1..core.pipes :
         free'[u][p] = IF u = insn.unit /\ p = FirstFree(u) THEN Release(insn) ELSE free[u][p]
  BY ONLY <1>3, <1>4, <1>5, <1>7
<1>11. stored' = IF insn.stores # {} THEN insn.stores ELSE stored
  BY DEF Execute
<1> QED BY <1>1, <1>2, <1>5, <1>6, <1>8, <1>9, <1>10, <1>11

\* The instruction after it, and the end of an iteration.
LEMMA Advance ==
  ASSUME TypeOK, Execute
  PROVE  /\ row' = row /\ core' = core /\ phase' = phase /\ phase \in {"empty", "bench"}
         /\ empty' = empty /\ elapsed' = elapsed
         /\ CodeLength' = CodeLength /\ CodeLength \in Nat \ {0}
         /\ iter \in Nat /\ iter < Iters /\ pc \in Nat /\ pc < CodeLength
         /\ \/ pc + 1 < CodeLength /\ pc' = pc + 1 /\ iter' = iter
            \/ pc + 1 = CodeLength /\ pc' = 0 /\ iter' = iter + 1
<1>1. /\ row' = row /\ core' = core /\ phase' = phase /\ empty' = empty /\ elapsed' = elapsed
      /\ phase # "done" /\ iter < Iters
      /\ IF pc + 1 < CodeLength THEN pc' = pc + 1 /\ iter' = iter ELSE pc' = 0 /\ iter' = iter + 1
  BY DEF Execute, MoreIterations
<1>2. CodeLength' = CodeLength
  BY <1>1 DEF CodeLength, Code
<1>3. CodeLength \in Nat \ {0}
  BY NextGood DEF TypeOK
<1>4. phase \in {"empty", "bench"} /\ iter \in Nat /\ pc \in Nat /\ pc < CodeLength
  BY <1>1, <1>3, ItersAssumption DEF TypeOK
<1> QED BY <1>1, <1>2, <1>3, <1>4

\* A loop ends after all its iterations.
LEMMA LoopOver == TypeOK /\ ~MoreIterations => iter = Iters
BY ItersAssumption DEF TypeOK, MoreIterations

\* Both loops begin with everything at rest.
LEMMA Begin ==
  ASSUME TypeOK \/ (row \in AllRows /\ core \in Cores(row))
  PROVE  /\ AtRest \in [Locations -> Nat] /\ Idle(core.pipes) \in [Units -> [1..core.pipes -> Nat]]
         /\ \A loc \in Locations : AtRest[loc] = 0
         /\ \A u \in Units, p \in 1..core.pipes : Idle(core.pipes)[u][p] = 0
BY DEF AtRest, Idle

\* The measurement keeps the types of its state: every row of every harness has
\* instructions that the core knows how to time, and the loops stay in their code.
THEOREM TypeCorrect == Spec => []TypeOK
<1>1. ASSUME Init PROVE TypeOK
  <2>1. row \in AllRows /\ core \in Cores(row) /\ phase = "empty" /\ iter = 0 /\ pc = 0
        /\ ready = AtRest /\ free = Idle(core.pipes) /\ empty = 0 /\ elapsed = 0
    BY <1>1 DEF Init
  <2>2. CodeLength \in {1, 33}
    <3>1. Code = EmptyBody(row.file)
      BY <2>1 DEF Code
    <3>2. CASE row.file = "storefwd"
      <4>1. Code = [body |-> <<Mask>>, reps |-> 32, tail |-> <<>>]
        BY <3>1, <3>2 DEF EmptyBody
      <4>2. Len(Code.body) = 1 /\ Code.reps = 32 /\ Len(Code.tail) = 0
        BY <4>1
      <4> QED BY <4>2 DEF CodeLength
    <3>3. CASE row.file # "storefwd"
      <4>1. Code = [body |-> <<>>, reps |-> 32, tail |-> <<>>]
        BY <3>1, <3>3 DEF EmptyBody
      <4>2. Len(Code.body) = 0 /\ Code.reps = 32 /\ Len(Code.tail) = 0
        BY <4>1
      <4> QED BY <4>2 DEF CodeLength
    <3> QED BY <3>2, <3>3
  <2> QED BY <2>1, <2>2, Begin, ItersAssumption DEF TypeOK
<1>2. ASSUME TypeOK, [Next]_vars PROVE TypeOK'
  <2>1. CASE Execute
    <3>1. PICK insn : insn = NextInstruction
      OBVIOUS
    <3>2. ready' \in [Locations -> Nat] /\ free' \in [Units -> [1..core.pipes -> Nat]]
      BY <1>2, <2>1, <3>1, Executed
    <3>3. /\ row' = row /\ core' = core /\ phase' = phase /\ phase \in {"empty", "bench"}
          /\ empty' = empty /\ elapsed' = elapsed
          /\ CodeLength' = CodeLength /\ CodeLength \in Nat \ {0}
          /\ iter \in Nat /\ iter < Iters /\ pc \in Nat /\ pc < CodeLength
          /\ \/ pc + 1 < CodeLength /\ pc' = pc + 1 /\ iter' = iter
             \/ pc + 1 = CodeLength /\ pc' = 0 /\ iter' = iter + 1
      BY <1>2, <2>1, Advance
    <3>4. pc' \in 0..(CodeLength' - 1) /\ iter' \in 0..Iters
      BY <3>3, ItersAssumption
    <3> QED BY <1>2, <3>2, <3>3, <3>4 DEF TypeOK
  <2>2. CASE EndEmpty
    <3>1. /\ row' = row /\ core' = core /\ phase' = "bench" /\ iter' = 0 /\ pc' = 0
          /\ ready' = AtRest /\ free' = Idle(core.pipes) /\ empty' = Cycles /\ elapsed' = elapsed
      BY <2>2 DEF EndEmpty
    <3>2. Cycles \in Nat
      BY <1>2, CyclesAre DEF TypeOK
    <3>3. CodeLength' \in Nat \ {0}
      <4>1. Code' = row
        BY <3>1 DEF Code
      <4>2. /\ Len(row.body) \in Nat \ {0} /\ row.reps \in Nat \ {0} /\ Len(row.tail) \in {0, 1}
        BY <1>2, RowSizes DEF TypeOK
      <4>3. CodeLength' = Len(row.body) * row.reps + Len(row.tail) + 1
        BY <4>1 DEF CodeLength
      <4> QED BY <4>2, <4>3, SMTT(30)
    <3>4. pc' \in 0..(CodeLength' - 1) /\ iter' \in 0..Iters
      <4>1. PICK c \in Nat \ {0} : c = CodeLength'
        BY <3>3
      <4>2. 0 \in 0..(c - 1)
        <5>1. c \in Int /\ c >= 1
          BY <4>1
        <5> QED BY ONLY <5>1
      <4>3. 0 \in 0..Iters
        BY ONLY ItersAssumption
      <4> QED BY ONLY <3>1, <4>1, <4>2, <4>3
    <3> QED BY <1>2, <3>1, <3>2, <3>4, Begin DEF TypeOK
  <2>3. CASE EndBench
    <3>1. /\ row' = row /\ core' = core /\ phase' = "done" /\ iter' = iter /\ pc' = pc
          /\ empty' = empty
          /\ ready' = ready /\ free' = free /\ elapsed' = Cycles /\ phase = "bench"
      BY <2>3 DEF EndBench
    <3>2. Cycles \in Nat
      BY <1>2, CyclesAre DEF TypeOK
    <3>3. CodeLength' = CodeLength
      BY <3>1 DEF CodeLength, Code
    <3> QED BY <1>2, <3>1, <3>2, <3>3 DEF TypeOK
  <2>4. CASE UNCHANGED vars
    BY <1>2, <2>4 DEF vars, TypeOK, CodeLength, Code, Cores
  <2> QED BY <1>2, <2>1, <2>2, <2>3, <2>4 DEF Next
<1> QED BY <1>1, <1>2, PTL DEF Spec

-------------------------------------------------------------------------------
(* How far an instruction moves the latest time. *)

\* An instruction makes nothing later by more than its own time.
LEMMA BoundedStep ==
  ASSUME TypeOK, Execute, NEW insn, insn = NextInstruction,
         NEW t \in Nat, NEW c \in Nat \ {0}, Own(insn) <= c, Bounded(t)
  PROVE  Bounded(t + c)'
<1>1. /\ GoodInsn(row, insn) /\ Timed(insn)
      /\ \A loc \in Locations :
           ready'[loc] = IF loc \in insn.writes THEN Finish(insn) ELSE ready[loc]
      /\ \A u \in Units, p \in 1..core.pipes :
           free'[u][p] = IF u = insn.unit /\ p = FirstFree(u) THEN Release(insn) ELSE free[u][p]
  BY Executed
<1>2. /\ \A loc \in Locations : ready[loc] \in Nat /\ ready[loc] <= t
      /\ \A u \in Units, p \in 1..core.pipes : free[u][p] \in Nat /\ free[u][p] <= t
  BY DEF Bounded, TypeOK
<1>3. PICK own \in Nat : own = Own(insn) /\ own <= c
  BY <1>1, MaxLatAssumption DEF Timed
<1>4. PICK fin \in Nat : fin = Finish(insn)
  BY <1>1 DEF Timed
<1>5. fin <= t + own
  <2>1. CASE fin = free[insn.unit][FirstFree(insn.unit)] + own
    <3>1. insn.unit \in Units /\ FirstFree(insn.unit) \in 1..core.pipes
      BY <1>1 DEF GoodInsn, Insn, Timed
    <3>2. PICK f \in Nat : f = free[insn.unit][FirstFree(insn.unit)] /\ f <= t
      BY <1>2, <3>1
    <3> QED BY <2>1, <3>2
  <2>2. ASSUME NEW r \in Waits(insn), fin = ready[r[1]] + Latency(r[2])
        PROVE  fin <= t + own
    <3>1. r[1] \in Locations /\ Latency(r[2]) \in 0..own
      BY <1>1, <1>3 DEF Timed
    <3>2. PICK lat \in Nat : lat = Latency(r[2]) /\ lat <= own
      BY <3>1
    <3>3. PICK at \in Nat : at = ready[r[1]] /\ at <= t
      BY <1>2, <3>1
    <3> QED BY <2>2, <3>2, <3>3
  <2> QED BY <1>1, <1>3, <1>4, <2>1, <2>2 DEF Timed
<1>6. PICK rel \in Nat : rel = Release(insn)
  BY Executed
<1>7. rel <= t + c
  <2>1. Busy(insn) \in {1, own}
    BY <1>1, <1>3 DEF Timed
  <2>2. PICK busy \in Nat : busy = Busy(insn) /\ busy <= c
    BY <1>3, <2>1
  <2>3. rel = fin - own + busy
    BY <1>3, <1>4, <1>6, <2>2 DEF Release
  <2> QED BY <1>5, <2>2, <2>3
<1>8. \A loc \in Locations : ready'[loc] <= t + c
  BY <1>1, <1>2, <1>3, <1>4, <1>5
<1>9. \A u \in Units, p \in 1..core.pipes : free'[u][p] <= t + c
  BY <1>1, <1>2, <1>6, <1>7
<1>10. core' = core
  BY DEF Execute
<1> QED BY <1>8, <1>9, <1>10 DEF Bounded

\* Everything that the loop waits for at its end is there by then.
LEMMA BoundedCycles ==
  ASSUME TypeOK, NEW t \in Nat, Bounded(t)
  PROVE  Cycles \in 0..t
<1>1. Cycles \in Nat /\ \E loc \in Locations : Cycles = ready[loc]
  BY CyclesAre DEF TypeOK
<1> QED BY <1>1 DEF Bounded

\* At the start nothing is later than the start.
LEMMA BoundedStart ==
  ASSUME row \in AllRows, core \in Cores(row), ready = AtRest, free = Idle(core.pipes)
  PROVE  Bounded(0)
<1>1. \A loc \in Locations : ready[loc] = 0
  BY Begin
<1>2. \A u \in Units, p \in 1..core.pipes : free[u][p] = 0
  BY Begin
<1> QED BY <1>1, <1>2 DEF Bounded

\* A loop that has run all its iterations has no instruction of another one under way: the
\* cycles are read at the end of an iteration, for any number of iterations.
THEOREM StopsAtFirst == Spec => []Stopped
<1>1. Init => Stopped
  BY DEF Init, Stopped
<1>2. TypeOK /\ Stopped /\ [Next]_vars => Stopped'
  <2>1. CASE Execute
    BY <2>1, Advance, ItersAssumption DEF Stopped
  <2>2. CASE EndEmpty
    BY <2>2 DEF EndEmpty, Stopped
  <2>3. CASE EndBench
    BY <2>3 DEF EndBench, Stopped
  <2>4. CASE UNCHANGED vars
    BY <2>4 DEF vars, Stopped
  <2> QED BY <2>1, <2>2, <2>3, <2>4 DEF Next
<1> QED BY <1>1, <1>2, TypeCorrect, PTL DEF Spec

-------------------------------------------------------------------------------
(* The empty loop. *)

\* An instruction that does not load waits for its operands alone.
LEMMA PlainWaits ==
  ASSUME NEW insn, insn.loads = {}
  PROVE  Waits(insn) = insn.reads
<1>1. ForwardPaths(insn.loads) = {}
  BY DEF ForwardPaths
<1>2. {"mem"} \X {} = {}
  OBVIOUS
<1> QED BY <1>1, <1>2 DEF Waits

\* The latencies of the paths that a row names, and of the two that have a fixed one.
LEMMA LatencyIs ==
  ASSUME TypeOK
  PROVE  /\ \A p \in Paths(row) : core.lat[p] \in 1..MaxLat
         /\ \A p \in Plain \cup {"and", "fwd", "stall"} : Latency(p) = core.lat[p]
         /\ Latency("one") = 1 /\ Latency("data") = 0
<1>1. core.lat \in [Paths(row) -> 1..MaxLat]
  BY DEF TypeOK, Cores
<1>2. \A p \in Plain \cup {"and", "fwd", "stall"} : p # "one" /\ p # "data"
  BY DEF Plain
<1>3. Latency("one") = 1 /\ Latency("data") = 0
  BY DEF Latency
<1> QED BY <1>1, <1>2, <1>3 DEF Latency

\* The end of the loop is a single-cycle instruction that waits for the counter alone.
LEMMA LoopEndIs ==
  ASSUME TypeOK
  PROVE  /\ Own(LoopEnd) = 1 /\ LoopEnd.writes = {"i", "CF", "ZF"} /\ LoopEnd.stores = {}
         /\ LoopEnd.unit = "alu" /\ Waits(LoopEnd) = {<<"i", "one">>}
<1>1. /\ LoopEnd.reads = {<<"i", "one">>} /\ LoopEnd.loads = {} /\ LoopEnd.stores = {}
      /\ LoopEnd.writes = {"i", "CF", "ZF"} /\ LoopEnd.unit = "alu"
  BY DEF LoopEnd, Op
<1>2. Waits(LoopEnd) = {<<"i", "one">>}
  BY <1>1, PlainWaits
<1>3. Timed(LoopEnd)
  BY RowInsns, Timing DEF TypeOK
<1>4. \E r \in Waits(LoopEnd) : Latency(r[2]) = Own(LoopEnd)
  BY <1>3 DEF Timed
<1>5. Latency("one") = 1
  BY LatencyIs
<1>6. Own(LoopEnd) = 1
  BY <1>2, <1>4, <1>5
<1> QED BY <1>1, <1>2, <1>6

\* The mask of the store-forwarding loops, which the empty loop has as well.
LEMMA MaskIs ==
  ASSUME TypeOK, row.file = "storefwd"
  PROVE  /\ Own(Mask) = core.lat["and"] /\ core.lat["and"] \in 1..MaxLat
         /\ Mask.writes = {"x"} /\ Mask.stores = {} /\ Mask.unit = "alu"
         /\ <<"x", "and">> \in Waits(Mask) /\ Latency("and") = core.lat["and"]
<1>1. /\ Mask.reads = {"x"} \X {"and"} /\ Mask.loads = {} /\ Mask.stores = {}
      /\ Mask.writes = {"x"} /\ Mask.unit = "alu"
  BY DEF Mask, Self, Op
<1>2. Waits(Mask) = {"x"} \X {"and"}
  BY <1>1, PlainWaits
<1>3. Timed(Mask) /\ GoodInsn(row, Mask)
  BY RowInsns, Timing DEF TypeOK
<1>4. \E r \in Waits(Mask) : Latency(r[2]) = Own(Mask)
  BY <1>3 DEF Timed
<1>5. Latency("and") = core.lat["and"]
  BY LatencyIs
<1>6. <<"x", "and">> \in {"x"} \X {"and"} /\ \A r \in {"x"} \X {"and"} : r[2] = "and"
  OBVIOUS
<1>7. "and" \in Paths(row)
  <2>1. <<"x", "and">> \in Mask.reads /\ <<"x", "and">>[2] = "and"
    BY <1>1, <1>6
  <2>2. <<"x", "and">>[2] \in {"one", "data"} \cup Paths(row)
    BY <1>3, <2>1 DEF GoodInsn
  <2> QED BY <2>1, <2>2
<1>8. core.lat["and"] \in 1..MaxLat
  BY <1>7, LatencyIs
<1> QED BY <1>1, <1>2, <1>4, <1>5, <1>6, <1>8

\* An instruction of the empty loop keeps what EmptyInv says.
LEMMA EmptyStep ==
  ASSUME TypeOK, EmptyInv, Execute
  PROVE  EmptyInv'
<1>1. /\ row' = row /\ core' = core /\ phase' = phase /\ phase \in {"empty", "bench"}
      /\ empty' = empty
      /\ iter \in Nat /\ pc \in Nat
      /\ \/ pc + 1 < CodeLength /\ pc' = pc + 1 /\ iter' = iter
         \/ pc + 1 = CodeLength /\ pc' = 0 /\ iter' = iter + 1
  BY Advance
<1>2. CASE phase # "empty"
  BY <1>1, <1>2 DEF EmptyInv
<1>3. PICK insn : insn = NextInstruction
  OBVIOUS
<1>4. CASE phase = "empty" /\ row.file # "storefwd"
  <2>1. CodeLength = 1 /\ insn = LoopEnd
    BY <1>3, <1>4, EmptyCode DEF TypeOK
  <2>2. Bounded(iter) /\ Own(insn) <= 1
    BY <1>4, <2>1, LoopEndIs DEF EmptyInv
  <2>3. PICK t \in Nat : t = iter
    BY <1>1
  <2>4. Bounded(t)
    BY <2>2, <2>3
  <2>5. Bounded(t + 1)'
    BY <1>3, <2>2, <2>4, BoundedStep
  <2>6. iter' = t + 1
    BY <1>1, <2>1, <2>3
  <2>7. Bounded(iter)'
    BY ONLY <2>5, <2>6 DEF Bounded
  <2> QED BY <1>1, <1>4, <2>7 DEF EmptyInv
<1>5. CASE phase = "empty" /\ row.file = "storefwd"
  <2>1. PICK mask \in Nat \ {0} : mask = core.lat["and"]
    BY <1>5, MaskIs, MaxLatAssumption
  <2>2. CodeLength = 33 /\ insn = IF pc < 32 THEN Mask ELSE LoopEnd
    BY <1>3, <1>5, EmptyCode DEF TypeOK
  <2> DEFINE late == iter * (32 * mask + 1) + pc * mask
             early == iter * (32 * mask) + pc * mask
  <2>3. Bounded(late) /\ ready["x"] >= early
    BY <1>5, <2>1 DEF EmptyInv
  <2>4. PICK t \in Nat : t = late
    BY <1>1
  <2>5. PICK e \in Nat : e = early
    BY <1>1
  <2>6. Bounded(t)
    BY <2>3, <2>4
  <2>7. CASE pc < 32
    <3>1. insn = Mask /\ Own(insn) = mask /\ insn.writes = {"x"} /\ <<"x", "and">> \in Waits(insn)
          /\ Latency("and") = mask
      BY <1>5, <2>1, <2>2, <2>7, MaskIs
    <3>2. Bounded(t + mask)'
      BY <1>3, <2>6, <3>1, BoundedStep
    <3>3. pc' = pc + 1 /\ iter' = iter
      BY <1>1, <2>2, <2>7
    <3>4. late' = t + mask /\ early' = e + mask
      <4>1. \A i, p, m \in Nat : /\ i * (32 * m + 1) + (p + 1) * m = i * (32 * m + 1) + p * m + m
                               /\ i * (32 * m) + (p + 1) * m = i * (32 * m) + p * m + m
        BY ONLY TRUE
      <4>2. iter \in Nat /\ pc \in Nat /\ mask \in Nat
        BY <1>1, <2>1
      <4>3. /\ iter * (32 * mask + 1) + (pc + 1) * mask = late + mask
            /\ iter * (32 * mask) + (pc + 1) * mask = early + mask
        BY ONLY <4>1, <4>2
      <4> QED BY ONLY <2>4, <2>5, <3>3, <4>3
    <3>5. Timed(insn) /\ ready'["x"] = Finish(insn)
      BY <1>3, <3>1, Executed, LocationsAre
    <3>6. Finish(insn) >= ready["x"] + mask /\ Finish(insn) \in Nat
      BY <3>1, <3>5 DEF Timed
    <3>7. ready["x"] \in Nat
      BY LocationsAre DEF TypeOK
    <3>8. ready'["x"] >= early'
      <4> HIDE DEF early, late
      <4> QED BY <2>3, <2>5, <3>4, <3>5, <3>6, <3>7
    <3>9. Bounded(late)'
      <4> HIDE DEF early, late
      <4> QED BY ONLY <3>2, <3>4 DEF Bounded
    <3> QED BY <1>1, <1>5, <2>1, <3>8, <3>9 DEF EmptyInv
  <2>8. CASE pc = 32
    <3>1. insn = LoopEnd /\ Own(insn) = 1 /\ insn.writes = {"i", "CF", "ZF"}
      BY <2>2, <2>8, LoopEndIs
    <3>2. Bounded(t + 1)'
      BY <1>3, <2>6, <3>1, BoundedStep
    <3>3. pc' = 0 /\ iter' = iter + 1
      BY <1>1, <2>2, <2>8
    <3>4. late' = t + 1 /\ early' = e
      <4>1. \A i, m \in Nat : /\ (i + 1) * (32 * m + 1) + 0 * m = i * (32 * m + 1) + 32 * m + 1
                            /\ (i + 1) * (32 * m) + 0 * m = i * (32 * m) + 32 * m
        BY ONLY TRUE
      <4>2. iter \in Nat /\ mask \in Nat
        BY <1>1, <2>1
      <4>3. /\ (iter + 1) * (32 * mask + 1) + 0 * mask = late + 1
            /\ (iter + 1) * (32 * mask) + 0 * mask = early
        BY ONLY <2>8, <4>1, <4>2
      <4> QED BY ONLY <2>4, <2>5, <3>3, <4>3
    <3>5. ready'["x"] = ready["x"]
      BY <1>3, <3>1, Executed, LocationsAre
    <3>6. ready'["x"] >= early'
      <4> HIDE DEF early, late
      <4> QED BY <2>3, <2>5, <3>4, <3>5
    <3>7. Bounded(late)'
      <4> HIDE DEF early, late
      <4> QED BY ONLY <3>2, <3>4 DEF Bounded
    <3> QED BY <1>1, <1>5, <2>1, <3>6, <3>7 DEF EmptyInv
  <2> QED BY <1>1, <2>2, <2>7, <2>8
<1> QED BY <1>1, <1>2, <1>4, <1>5

\* The empty loop costs what EmptyInv says, whatever the row and the core are.
THEOREM EmptyCost == Spec => []EmptyInv
<1>1. ASSUME Init PROVE EmptyInv
  <2>1. /\ row \in AllRows /\ core \in Cores(row) /\ phase = "empty" /\ iter = 0 /\ pc = 0
        /\ ready = AtRest /\ free = Idle(core.pipes)
    BY <1>1 DEF Init
  <2>2. Bounded(0) /\ ready["x"] = 0
    BY <2>1, BoundedStart, LocationsAre DEF AtRest
  <2>3. CASE row.file # "storefwd"
    BY <2>1, <2>2, <2>3 DEF EmptyInv
  <2>4. CASE row.file = "storefwd"
    <3>1. GoodInsn(row, Mask)
      BY <2>1, <2>4, RowInsns
    <3>2. Mask.reads = {"x"} \X {"and"} /\ <<"x", "and">> \in {"x"} \X {"and"}
          /\ <<"x", "and">>[2] = "and"
      BY DEF Mask, Self, Op
    <3>3. "and" \in Paths(row)
      BY <3>1, <3>2 DEF GoodInsn
    <3>4. core.lat["and"] \in Nat
      BY <2>1, <3>3, MaxLatAssumption DEF Cores
    <3>5. \A m \in Nat : 0 * (32 * m + 1) + 0 * m = 0 /\ 0 * (32 * m) + 0 * m = 0
      OBVIOUS
    <3> QED BY <2>1, <2>2, <2>4, <3>4, <3>5 DEF EmptyInv
  <2> QED BY <2>3, <2>4
<1>2. ASSUME TypeOK, Stopped, EmptyInv, [Next]_vars PROVE EmptyInv'
  <2>1. CASE Execute
    BY <1>2, <2>1, EmptyStep
  <2>2. CASE EndEmpty
    <3>1. /\ row' = row /\ core' = core /\ phase = "empty" /\ phase' = "bench" /\ iter = Iters
          /\ empty' = Cycles
      BY <1>2, <2>2, LoopOver DEF EndEmpty
    <3>2. pc = 0 /\ Iters \in Nat
      BY <1>2, <3>1, ItersAssumption DEF Stopped
    <3>3. CASE row.file # "storefwd"
      <4>1. Bounded(Iters)
        BY <1>2, <3>1, <3>3 DEF EmptyInv
      <4>2. Cycles \in 0..Iters
        BY <1>2, <3>2, <4>1, BoundedCycles
      <4> QED BY <3>1, <3>3, <4>2 DEF EmptyInv
    <3>4. CASE row.file = "storefwd"
      <4>1. PICK mask \in Nat : mask = core.lat["and"]
        BY <1>2, <3>4, MaskIs, MaxLatAssumption
      <4>2. Bounded(Iters * (32 * mask + 1) + 0 * mask)
            /\ ready["x"] >= Iters * (32 * mask) + 0 * mask
        BY <1>2, <3>1, <3>2, <3>4, <4>1 DEF EmptyInv
      <4>3. PICK t \in Nat : t = Iters * (32 * mask + 1)
        BY <3>2
      <4>4. PICK e \in Nat : e = Iters * (32 * mask)
        BY <3>2
      <4>5. Bounded(t) /\ ready["x"] >= e
        <5>1. t + 0 * mask = t /\ e + 0 * mask = e
          OBVIOUS
        <5> QED BY ONLY <4>2, <4>3, <4>4, <5>1
      <4>6. Cycles \in 0..t /\ Cycles >= ready["x"] /\ ready["x"] \in Nat
        BY <1>2, <4>5, BoundedCycles, CyclesAre, LocationsAre DEF TypeOK
      <4>7. Cycles \in e..t
        BY ONLY <4>4, <4>5, <4>6, t \in Nat, e \in Nat
      <4> QED BY <3>1, <3>4, <4>1, <4>3, <4>4, <4>7 DEF EmptyInv
    <3> QED BY <3>3, <3>4
  <2>3. CASE EndBench
    BY <1>2, <2>3 DEF EndBench, EmptyInv
  <2>4. CASE UNCHANGED vars
    BY <1>2, <2>4 DEF vars, EmptyInv, Bounded
  <2> QED BY <1>2, <2>1, <2>2, <2>3, <2>4 DEF Next
<1> QED BY <1>1, <1>2, TypeCorrect, StopsAtFirst, PTL DEF Spec

-------------------------------------------------------------------------------
(* The chains. *)

\* Even or odd.
LEMMA Halves ==
  ASSUME NEW n \in Nat
  PROVE  \E h \in Nat : n = 2 * h \/ n = 2 * h + 1
<1>1. n % 2 \in 0..1 /\ n = 2 * (n \div 2) + (n % 2) /\ n \div 2 \in Int
  OBVIOUS
<1>2. PICK q \in Int : q = n \div 2
  BY <1>1
<1>3. PICK r \in 0..1 : r = n % 2
  BY <1>1
<1>4. n = 2 * q + r /\ q \in Nat
  BY <1>1, <1>2, <1>3
<1> QED BY <1>3, <1>4

\* The three positions in a round trip.
LEMMA Thirds ==
  ASSUME NEW n \in Nat
  PROVE  \E h \in Nat : n = 3 * h \/ n = 3 * h + 1 \/ n = 3 * h + 2
<1>1. n % 3 \in 0..2 /\ n = 3 * (n \div 3) + (n % 3) /\ n \div 3 \in Int
  OBVIOUS
<1>2. PICK q \in Int : q = n \div 3
  BY <1>1
<1>3. PICK r \in 0..2 : r = n % 3
  BY <1>1
<1>4. n = 3 * q + r /\ q \in Nat
  BY <1>1, <1>2, <1>3
<1> QED BY <1>3, <1>4

\* What the next instruction of a chain adds.
LEMMA AlternatingIs ==
  ASSUME First \in Nat, Last \in Nat
  PROVE  /\ Alternating(0) = 0 /\ Alternating(1) = First /\ Alternating(64) = 32 * (First + Last)
         /\ Alternating(64) \in Nat /\ Alternating(64) >= First
         /\ \A n \in Nat : /\ Alternating(n) \in Nat
                          /\ Alternating(n + 1) = Alternating(n) + IF n % 2 = 0 THEN First ELSE Last
<1>1. PICK a \in Nat : a = First
  OBVIOUS
<1>2. PICK b \in Nat : b = Last
  OBVIOUS
<1>3. ASSUME NEW n \in Nat
      PROVE  /\ Alternating(n) \in Nat
             /\ Alternating(n + 1) = Alternating(n) + IF n % 2 = 0 THEN First ELSE Last
  <2>1. PICK h \in Nat : n = 2 * h \/ n = 2 * h + 1
    BY Halves
  <2>2. CASE n = 2 * h
    <3>1. n % 2 = 0 /\ n \div 2 = h /\ (n + 1) % 2 = 1 /\ (n + 1) \div 2 = h
      BY <2>2
    <3>2. Alternating(n) = h * (a + b) /\ Alternating(n + 1) = h * (a + b) + a
      BY <1>1, <1>2, <3>1 DEF Alternating
    <3>3. h * (a + b) \in Nat
      BY ONLY a \in Nat, b \in Nat, h \in Nat
    <3> QED BY ONLY <1>1, <3>1, <3>2, <3>3
  <2>3. CASE n = 2 * h + 1
    <3>1. n % 2 = 1 /\ n \div 2 = h /\ (n + 1) % 2 = 0 /\ (n + 1) \div 2 = h + 1
      BY <2>3
    <3>2. Alternating(n) = h * (a + b) + a /\ Alternating(n + 1) = (h + 1) * (a + b)
      BY <1>1, <1>2, <3>1 DEF Alternating
    <3>3. h * (a + b) + a \in Nat /\ (h + 1) * (a + b) = h * (a + b) + a + b
      BY ONLY a \in Nat, b \in Nat, h \in Nat
    <3> QED BY ONLY <1>2, <3>1, <3>2, <3>3
  <2> QED BY <2>1, <2>2, <2>3
<1>4. 0 % 2 = 0 /\ 0 \div 2 = 0 /\ 1 % 2 = 1 /\ 1 \div 2 = 0 /\ 64 % 2 = 0 /\ 64 \div 2 = 32
  OBVIOUS
<1>5. Alternating(0) = 0 /\ Alternating(1) = First /\ Alternating(64) = 32 * (First + Last)
  BY <1>1, <1>2, <1>4 DEF Alternating
<1>6. 32 * (a + b) \in Nat /\ 32 * (a + b) >= a
  OBVIOUS
<1>7. Alternating(64) \in Nat /\ Alternating(64) >= First
  BY ONLY <1>1, <1>2, <1>5, <1>6
<1> QED BY <1>3, <1>5, <1>7

\* The instructions of a chain.
LEMMA OneOrTwo ==
  ASSUME NEW n, n \in {1, 2}
  PROVE  1 \in 1..n /\ (n = 2 => 2 \in 1..n) /\ \A j \in 1..n : j = 1 \/ (j = 2 /\ n = 2)
<1>1. CASE n = 1
  BY <1>1
<1>2. CASE n = 2
  BY <1>2
<1> QED BY <1>1, <1>2

\* The latencies of the instructions of a chain, where no other path is slower.
LEMMA ChainTimes ==
  ASSUME TypeOK, ChainedRow(row), Undisturbed
  PROVE  /\ First \in 1..MaxLat /\ Last \in 1..MaxLat
         /\ Len(row.body) \in {1, 2} /\ (Len(row.body) = 1 => First = Last)
         /\ \A j \in 1..Len(row.body) :
              /\ Waits(row.body[j]) = row.body[j].reads
              /\ Latency(PathOf(row, j)) = IF j = 1 THEN First ELSE Last
              /\ Own(row.body[j]) = IF j = 1 THEN First ELSE Last
<1>1. PICK regs \in [1..Len(row.body) -> Locations], start \in Locations :
        ChainedBody(row, regs, start)
  BY DEF ChainedRow
<1>2. /\ Len(row.body) \in {1, 2} /\ row.shows \in Seq(PathNames)
      /\ Len(row.shows) \in 1..Len(row.body)
  BY DEF ChainedRow
<1>3. Len(row.shows) = 1 \/ Len(row.shows) = 2
  <2>1. PICK n : n = Len(row.body)
    OBVIOUS
  <2>2. n \in {1, 2} /\ Len(row.shows) \in 1..n
    BY <1>2, <2>1
  <2> QED BY ONLY <2>2, OneOrTwo
<1>4. /\ PathOf(row, 1) = row.shows[1]
      /\ (Len(row.body) = 2 => PathOf(row, 2) = row.shows[Len(row.shows)])
      /\ (Len(row.body) = 1 => Len(row.shows) = 1)
  BY <1>2, <1>3 DEF PathOf
<1>5. \A j \in 1..Len(row.body) : PathOf(row, j) \in Plain /\ PathOf(row, j) \in Range(row.shows)
  <2>1. 1 \in DOMAIN row.shows /\ Len(row.shows) \in DOMAIN row.shows
    BY <1>2, <1>3
  <2>2. row.shows[1] \in Range(row.shows) /\ row.shows[Len(row.shows)] \in Range(row.shows)
    BY <2>1 DEF Range
  <2>3. \A j \in 1..Len(row.body) : PathOf(row, j) \in Plain
    BY <1>1 DEF ChainedBody
  <2>4. \A j \in 1..Len(row.body) : j = 1 \/ (j = 2 /\ Len(row.body) = 2)
    BY <1>2, OneOrTwo
  <2> QED BY <1>4, <2>2, <2>3, <2>4
<1>6. \A p \in Plain : p \notin {"one", "data", "and", "fwd", "stall"}
  BY DEF Plain
<1>7. \A j \in 1..Len(row.body) : PathOf(row, j) \in Paths(row)
  BY <1>5, <1>6 DEF Paths
<1>8. \A j \in 1..Len(row.body) : Latency(PathOf(row, j)) = core.lat[PathOf(row, j)]
                              /\ core.lat[PathOf(row, j)] \in 1..MaxLat
  BY <1>5, <1>7, LatencyIs
<1>9. \A j \in 1..Len(row.body) : Latency(PathOf(row, j)) = IF j = 1 THEN First ELSE Last
  <2>1. \A j \in 1..Len(row.body) : j = 1 \/ (j = 2 /\ Len(row.body) = 2)
    BY <1>2, OneOrTwo
  <2> QED BY <1>4, <1>8, <2>1 DEF First, Last
<1>10. First \in 1..MaxLat /\ Last \in 1..MaxLat /\ (Len(row.body) = 1 => First = Last)
  <2>1. 1 \in 1..Len(row.body) /\ (Len(row.body) = 2 => 2 \in 1..Len(row.body))
    BY <1>2, OneOrTwo
  <2>2. First \in 1..MaxLat
    BY <1>4, <1>8, <2>1 DEF First
  <2>3. Len(row.body) = 1 => First = Last
    BY <1>4 DEF First, Last
  <2>4. Len(row.body) = 2 => Last \in 1..MaxLat
    BY <1>4, <1>8, <2>1 DEF Last
  <2> QED BY <1>2, <2>2, <2>3, <2>4
<1>11. ASSUME NEW j \in 1..Len(row.body)
       PROVE  Waits(row.body[j]) = row.body[j].reads /\ Own(row.body[j]) = Latency(PathOf(row, j))
  <2>1. /\ row.body[j].loads = {} /\ <<regs[j], PathOf(row, j)>> \in row.body[j].reads
        /\ \A r \in row.body[j].reads :
             r[2] = PathOf(row, j) \/ r[2] \in Plain \ Range(row.shows)
    BY <1>1 DEF ChainedBody
  <2>2. Waits(row.body[j]) = row.body[j].reads
    BY <2>1, PlainWaits
  <2>3. GoodInsn(row, row.body[j]) /\ Timed(row.body[j])
    BY RowInsns, Timing DEF TypeOK
  <2>4. ASSUME NEW r \in row.body[j].reads
        PROVE  Latency(r[2]) <= Latency(PathOf(row, j)) /\ Latency(r[2]) \in Int
    <3>1. CASE r[2] = PathOf(row, j)
      <4>1. PICK lat \in 1..MaxLat : lat = Latency(PathOf(row, j))
        BY <1>8
      <4> QED BY <3>1, <4>1, MaxLatAssumption
    <3>2. CASE r[2] \in Plain \ Range(row.shows)
      <4>1. r[2] \in {"one", "data"} \cup Paths(row)
        BY <2>3 DEF GoodInsn
      <4>2. r[2] \in OtherPaths \ {"fwd", "stall"} /\ r[2] \in Paths(row)
        BY <1>6, <3>2, <4>1 DEF OtherPaths
      <4>3. core.lat[r[2]] <= core.lat[PathOf(row, j)]
        BY <1>5, <4>2 DEF Undisturbed
      <4>4. Latency(r[2]) = core.lat[r[2]] /\ core.lat[r[2]] \in 1..MaxLat
        BY <3>2, <4>2, LatencyIs
      <4> QED BY <1>8, <4>3, <4>4
    <3> QED BY <2>1, <3>1, <3>2
  <2>5. \E r \in row.body[j].reads : Latency(r[2]) = Own(row.body[j])
    BY <2>2, <2>3 DEF Timed
  <2>6. Latency(PathOf(row, j)) \in 0..Own(row.body[j]) /\ Own(row.body[j]) \in Int
    <3>1. <<regs[j], PathOf(row, j)>>[2] = PathOf(row, j)
      BY SMTT(30)
    <3>2. Latency(<<regs[j], PathOf(row, j)>>[2]) \in 0..Own(row.body[j])
          /\ Own(row.body[j]) \in 0..MaxLat
      BY <2>1, <2>2, <2>3 DEF Timed
    <3> QED BY <3>1, <3>2
  <2>7. Own(row.body[j]) = Latency(PathOf(row, j))
    BY ONLY <2>4, <2>5, <2>6
  <2> QED BY <2>2, <2>7
<1> QED BY <1>2, <1>9, <1>10, <1>11

\* The next instruction of a chain waits for the one before it.
LEMMA ChainNext ==
  ASSUME TypeOK, ChainedRow(row), phase = "bench"
  PROVE  /\ Copies(row) = 64 /\ CodeLength = 64 + Len(row.tail) + 1 /\ Len(row.tail) \in {0, 1}
         /\ pc < 64 => /\ (pc % Len(row.body)) + 1 \in 1..Len(row.body)
                       /\ NextInstruction = row.body[(pc % Len(row.body)) + 1]
                       /\ (pc % Len(row.body)) + 1 = 1 <=> pc % Len(row.body) = 0
                       /\ Len(row.body) = 2 => pc % Len(row.body) = pc % 2
         /\ pc >= 64 => NextInstruction \in {SetZF, LoopEnd}
<1>1. /\ Len(row.body) \in 1..2 /\ row.reps * Len(row.body) = 64 /\ row.reps \in Nat
  BY DEF ChainedRow
<1>2. Len(row.body) \in Nat \ {0} /\ Len(row.tail) \in {0, 1}
  BY RowSizes DEF TypeOK
<1>3. Copies(row) = 64
  BY <1>1, <1>2 DEF Copies
<1>4. /\ CodeLength = Copies(row) + Len(row.tail) + 1 /\ pc \in Nat
      /\ NextInstruction = IF pc < Copies(row) THEN row.body[(pc % Len(row.body)) + 1]
                           ELSE IF pc < Copies(row) + Len(row.tail) THEN SetZF
                           ELSE LoopEnd
      /\ pc % Len(row.body) \in 0..(Len(row.body) - 1)
  BY BenchCode DEF TypeOK
<1>5. PICK len \in Nat \ {0} : len = Len(row.body)
  BY <1>2
<1>6. PICK m \in 0..(len - 1) : m = pc % len
  BY <1>4, <1>5
<1>7. m + 1 \in 1..len /\ (m + 1 = 1 <=> m = 0)
  BY ONLY <1>6, len \in Nat \ {0}
<1>8. pc < 64 => /\ (pc % Len(row.body)) + 1 \in 1..Len(row.body)
                 /\ NextInstruction = row.body[(pc % Len(row.body)) + 1]
                 /\ (pc % Len(row.body)) + 1 = 1 <=> pc % Len(row.body) = 0
  <2>1. pc < 64 => NextInstruction = row.body[(pc % Len(row.body)) + 1]
    BY ONLY <1>3, <1>4
  <2>2. (pc % Len(row.body)) + 1 = m + 1 /\ pc % Len(row.body) = m
    BY ONLY <1>5, <1>6
  <2> QED BY ONLY <1>5, <1>7, <2>1, <2>2
<1>9. pc >= 64 => NextInstruction \in {SetZF, LoopEnd}
  <2>1. pc >= 64 => ~(pc < 64)
    BY <1>4
  <2> QED BY ONLY <1>3, <1>4, <2>1
<1> QED BY ONLY <1>2, <1>3, <1>4, <1>8, <1>9

\* The tail of the cmovne rows sets ZF in a cycle.
LEMMA SetZFIs ==
  ASSUME TypeOK, GoodInsn(row, SetZF)
  PROVE  Own(SetZF) = 1 /\ SetZF.writes = {"CF", "ZF"}
<1>1. SetZF.reads = {<<"k", "one">>} /\ SetZF.loads = {} /\ SetZF.writes = {"CF", "ZF"}
  BY DEF SetZF, Op
<1>2. Waits(SetZF) = {<<"k", "one">>}
  BY <1>1, PlainWaits
<1>3. \E r \in Waits(SetZF) : Latency(r[2]) = Own(SetZF)
  BY Timing DEF Timed
<1>4. Latency("one") = 1
  BY LatencyIs
<1> QED BY <1>1, <1>2, <1>3, <1>4

\* What an iteration of a chain costs depends on nothing that changes.
LEMMA ChainSame ==
  ASSUME row' = row, core' = core
  PROVE  First' = First /\ Last' = Last /\ Kept' = Kept /\ Whole' = Whole
<1>1. First' = First /\ Last' = Last
  BY DEF First, Last
<1>2. Alternating(64)' = Alternating(64)
  BY <1>1 DEF Alternating
<1> QED BY <1>1, <1>2 DEF Kept, Whole

\* An instruction of a chain keeps what ChainInv says.
LEMMA ChainStep ==
  ASSUME TypeOK, ChainInv, ChainedRow(row), Undisturbed, phase = "bench", Execute
  PROVE  ChainInv'
<1>1. PICK regs \in [1..Len(row.body) -> Locations], start \in Locations :
        ChainedBody(row, regs, start)
  BY DEF ChainedRow
<1>2. /\ row' = row /\ core' = core /\ phase' = phase /\ iter \in Nat /\ pc \in Nat
      /\ \/ pc + 1 < CodeLength /\ pc' = pc + 1 /\ iter' = iter
         \/ pc + 1 = CodeLength /\ pc' = 0 /\ iter' = iter + 1
  BY Advance
<1>3. PICK insn : insn = NextInstruction
  OBVIOUS
<1>4. PICK a \in Nat \ {0} : a = First
  BY ChainTimes, MaxLatAssumption
<1>5. PICK b \in Nat \ {0} : b = Last
  BY ChainTimes, MaxLatAssumption
<1>6. /\ Alternating(0) = 0 /\ Alternating(1) = a
      /\ Alternating(64) \in Nat /\ Alternating(64) >= a
      /\ \A n \in Nat : /\ Alternating(n) \in Nat
                       /\ Alternating(n + 1) = Alternating(n) + IF n % 2 = 0 THEN a ELSE b
  BY <1>4, <1>5, AlternatingIs
<1>7. Bounded(ChainLate) /\ ChainEarly
  BY DEF ChainInv, ChainedRow
<1>8. /\ CodeLength = 64 + Len(row.tail) + 1 /\ Len(row.tail) \in {0, 1}
      /\ pc < 64 => /\ (pc % Len(row.body)) + 1 \in 1..Len(row.body)
                    /\ insn = row.body[(pc % Len(row.body)) + 1]
                    /\ (pc % Len(row.body)) + 1 = 1 <=> pc % Len(row.body) = 0
      /\ pc >= 64 => insn \in {SetZF, LoopEnd}
  BY <1>3, ChainNext
<1>9. PICK all \in Nat : all = Alternating(64) /\ all >= a
  BY <1>6
<1>10. PICK tail \in Nat : tail = Len(row.tail)
  BY <1>8
<1>11. Kept = all - a /\ Whole = all + tail + 1
  BY ONLY <1>4, <1>9, <1>10 DEF Kept, Whole
<1>12. /\ First' = First /\ Last' = Last /\ Kept' = Kept /\ Whole' = Whole
       /\ Alternating(pc)' = Alternating(pc') /\ Alternating(64)' = Alternating(64)
  <2>1. First' = First /\ Last' = Last /\ Kept' = Kept /\ Whole' = Whole
    BY <1>2, ChainSame
  <2> QED BY ONLY <2>1 DEF Alternating
<1>13. PICK done \in Nat : done = Alternating(pc)
  BY <1>2, <1>6
<1>14. PICK t \in Nat : t = ChainLate /\ t = iter * (all + tail + 1)
                                          + IF pc <= 64 THEN done ELSE all + pc - 64
  <2>1. ChainLate = iter * (all + tail + 1) + IF pc <= 64 THEN done ELSE all + pc - 64
    BY ONLY <1>9, <1>11, <1>13 DEF ChainLate
  <2>2. \A i, x, y, z, p \in Nat : i * (x + y + 1) + (IF p <= 64 THEN z ELSE x + p - 64) \in Nat
    <3>1. \A i, x, y \in Nat : i * (x + y + 1) \in Nat
      BY ONLY TRUE
    <3>2. \A x, z, p \in Nat : (IF p <= 64 THEN z ELSE x + p - 64) \in Nat
      BY ONLY TRUE
    <3> QED BY ONLY <3>1, <3>2
  <2> QED BY ONLY <1>2, <2>1, <2>2, all \in Nat, tail \in Nat, done \in Nat
<1>15. CASE pc < 64
  <2>1. PICK j \in 1..Len(row.body) : j = (pc % Len(row.body)) + 1 /\ insn = row.body[j]
    BY <1>8, <1>15
  <2>2. /\ Len(row.body) \in {1, 2} /\ (Len(row.body) = 1 => a = b)
        /\ Waits(insn) = insn.reads /\ Own(insn) = Latency(PathOf(row, j))
        /\ Own(insn) = IF j = 1 THEN a ELSE b
    BY <1>4, <1>5, <2>1, ChainTimes
  <2>3. PICK own \in Nat \ {0} : own = Own(insn)
    BY <2>2
  <2>4. own = IF pc % 2 = 0 THEN a ELSE b
    <3>1. CASE Len(row.body) = 1
      BY <2>2, <2>3, <3>1
    <3>2. CASE Len(row.body) = 2
      <4>1. j = (pc % 2) + 1 /\ pc % 2 \in {0, 1}
        BY ONLY <1>2, <2>1, <3>2
      <4>2. j = 1 <=> pc % 2 = 0
        BY ONLY <4>1
      <4> QED BY ONLY <2>2, <2>3, <4>2
    <3> QED BY <2>2, <3>1, <3>2
  <2>5. pc' = pc + 1 /\ iter' = iter
    BY ONLY <1>2, <1>8, <1>10, <1>15, tail \in Nat
  <2>6. Alternating(pc') = done + own
    BY ONLY <1>2, <1>6, <1>13, <2>4, <2>5
  <2>7. Bounded(t + own)'
    BY <1>3, <1>7, <1>14, <2>3, BoundedStep
  <2>8. ChainLate' = t + own
    <3>1. ChainLate' = iter' * (all + tail + 1)
                       + IF pc' <= 64 THEN Alternating(pc') ELSE all + pc' - 64
      BY ONLY <1>9, <1>11, <1>12 DEF ChainLate
    <3>2. ChainLate' = iter * (all + tail + 1) + (done + own)
      BY ONLY <1>2, <1>15, <2>5, <2>6, <3>1
    <3>3. PICK x \in Nat : x = iter * (all + tail + 1)
      BY ONLY <1>2, all \in Nat, tail \in Nat
    <3> QED BY ONLY <1>2, <1>14, <1>15, <3>2, <3>3, done \in Nat, own \in Nat
  <2>9. Bounded(ChainLate)'
    BY ONLY <2>7, <2>8 DEF Bounded
  <2>10. Timed(insn) /\ GoodInsn(row, insn)
    BY <1>3, Executed
  <2>11. Finish(insn) >= iter * (all - a) + (done + own) - a /\ Finish(insn) \in Nat
    <3>1. PICK x \in Nat : x = iter * (all - a)
      BY ONLY <1>2, <1>9, all \in Nat, a \in Nat
    <3>2. PICK r \in insn.reads : ready[r[1]] + Latency(r[2]) >= x + (done + own) - a
      <4>1. \A r \in insn.reads : r[1] \in Locations /\ Latency(r[2]) \in Nat /\ ready[r[1]] \in Nat
        <5>1. \A r \in Waits(insn) : r[1] \in Locations /\ Latency(r[2]) \in 0..Own(insn)
          BY <2>10 DEF Timed
        <5> QED BY <2>2, <2>3, <5>1 DEF TypeOK
      <4>2. CASE pc = 0
        <5>1. j = 1
          <6>1. CASE Len(row.body) = 1
            BY ONLY <2>1, <6>1, <4>2
          <6>2. CASE Len(row.body) = 2
            BY ONLY <2>1, <6>2, <4>2
          <6> QED BY <2>2, <6>1, <6>2
        <5>2. PICK r \in row.body[1].reads : ready[r[1]] >= (iter + 0) * Kept
          BY ONLY <1>7, <4>2 DEF ChainEarly
        <5>3. r \in insn.reads /\ ready[r[1]] >= x
          <6>1. iter + 0 = iter
            BY ONLY <1>2
          <6> QED BY ONLY <1>11, <2>1, <3>1, <5>1, <5>2, <6>1
        <5>4. done = 0 /\ own = a
          BY ONLY <1>6, <1>13, <2>3, <2>2, <4>2, <5>1
        <5>5. ready[r[1]] + Latency(r[2]) >= x + (done + own) - a
          BY ONLY <4>1, <5>3, <5>4, x \in Nat, own \in Nat
        <5> QED BY <5>3, <5>5
      <4>3. CASE pc # 0
        <5>1. pc \in 1..63
          BY ONLY <1>2, <1>15, <4>3
        <5>2. PICK r \in row.body[j].reads :
                r[2] = PathOf(row, j) /\ ready[r[1]] >= iter * Kept + Alternating(pc) - First
          BY ONLY <1>7, <2>1, <5>1 DEF ChainEarly, PathOf
        <5>3. ready[r[1]] >= x + done - a /\ Latency(r[2]) = own
          BY ONLY <1>4, <1>11, <1>13, <2>2, <2>3, <3>1, <5>2
        <5>4. r \in insn.reads
          BY <2>1, <5>2
        <5>5. ready[r[1]] + Latency(r[2]) >= x + (done + own) - a
          BY ONLY <4>1, <5>3, <5>4, x \in Nat, own \in Nat, done \in Nat, a \in Nat
        <5> QED BY <5>4, <5>5
      <4> QED BY <4>2, <4>3
    <3>3. Finish(insn) >= ready[r[1]] + Latency(r[2]) /\ Finish(insn) \in Nat
          /\ ready[r[1]] + Latency(r[2]) \in Int
      <4>1. r[1] \in Locations /\ Latency(r[2]) \in 0..Own(insn)
        BY <2>2, <2>10 DEF Timed
      <4> QED BY <2>2, <2>3, <2>10, <4>1 DEF Timed, TypeOK
    <3> QED BY ONLY <3>1, <3>2, <3>3, x \in Nat, own \in Nat, done \in Nat, a \in Nat
  <2>12. ASSUME NEW loc \in insn.writes PROVE loc \in Locations /\ ready'[loc] = Finish(insn)
    <3>1. loc \in Locations
      BY <2>10 DEF GoodInsn, Insn
    <3> QED BY <1>3, <3>1, Executed
  <2>13. ChainEarly'
    <3>1. CASE pc = 63
      <4>1. j = Len(row.body)
        <5>1. CASE Len(row.body) = 1
          BY ONLY <2>1, <5>1
        <5>2. CASE Len(row.body) = 2
          BY ONLY <2>1, <5>2, <3>1
        <5> QED BY <2>2, <5>1, <5>2
      <4>2. start \in insn.writes /\ start \notin {"i", "CF", "ZF"}
        BY <1>1, <2>1, <4>1 DEF ChainedBody
      <4>3. PICK q \in PathNames : <<start, q>> \in row.body[1].reads
        BY <1>1 DEF ChainedBody
      <4>4. PICK r \in row.body[1].reads : r = <<start, q>>
        BY <4>3
      <4>5. r[1] = start /\ r[1] \notin LoopEnd.writes
        BY <4>2, <4>4, LoopEndIs
      <4>6. ready'[r[1]] >= (iter + 1) * (all - a)
        <5>1. done + own = all
          BY ONLY <1>9, <2>5, <2>6, <3>1
        <5>2. ready'[r[1]] >= iter * (all - a) + all - a /\ ready'[r[1]] \in Nat
          BY ONLY <2>11, <2>12, <4>2, <4>5, <5>1
        <5>3. \A i, k \in Nat : (i + 1) * k = i * k + k
          BY ONLY TRUE
        <5>4. PICK k \in Nat : k = all - a
          BY ONLY <1>9, all \in Nat, a \in Nat
        <5>5. PICK x \in Nat : x = iter * k
          BY ONLY <1>2, k \in Nat
        <5>6. (iter + 1) * k = x + k
          BY ONLY <1>2, <5>3, <5>5, k \in Nat
        <5> QED BY ONLY <5>2, <5>4, <5>5, <5>6, all \in Nat, a \in Nat
      <4>7. pc' \notin 1..63 /\ pc' # 0
        BY ONLY <2>5, <3>1
      <4> QED BY ONLY <1>2, <1>11, <1>12, <2>5, <4>5, <4>6, <4>7 DEF ChainEarly
    <3>2. CASE pc # 63
      <4>1. PICK k \in 1..Len(row.body) : /\ k = (pc' % Len(row.body)) + 1
                                       /\ k = IF j = Len(row.body) THEN 1 ELSE j + 1
        <5>1. CASE Len(row.body) = 1
          BY ONLY <1>2, <2>1, <2>5, <5>1
        <5>2. CASE Len(row.body) = 2
          <6>1. PICK h \in Nat : pc = 2 * h \/ pc = 2 * h + 1
            BY <1>2, Halves
          <6>2. CASE pc = 2 * h
            BY ONLY <2>1, <2>5, <5>2, <6>2, h \in Nat
          <6>3. CASE pc = 2 * h + 1
            BY ONLY <2>1, <2>5, <5>2, <6>3, h \in Nat
          <6> QED BY <6>1, <6>2, <6>3
        <5> QED BY <2>2, <5>1, <5>2
      <4>2. regs[k] \in insn.writes /\ <<regs[k], PathOf(row, k)>> \in row.body[k].reads
        BY <1>1, <2>1, <4>1 DEF ChainedBody
      <4>3. PICK r \in row.body[k].reads : r = <<regs[k], PathOf(row, k)>>
        BY <4>2
      <4>4. r[1] = regs[k] /\ r[2] = PathOf(row, k)
        BY <4>3
      <4>5. ready'[r[1]] >= iter * (all - a) + (done + own) - a
        BY ONLY <2>11, <2>12, <4>2, <4>4
      <4>6. pc' \in 1..63
        BY ONLY <1>2, <1>15, <2>5, <3>2
      <4>7. ready'[r[1]] >= iter' * Kept' + Alternating(pc)' - First'
        BY ONLY <1>4, <1>11, <1>12, <2>5, <2>6, <4>5
      <4>8. row' = row /\ r[2] = row.shows[IF Len(row.shows) = Len(row.body) THEN k ELSE 1]
        BY ONLY <1>2, <4>4 DEF PathOf
      <4> QED BY ONLY <4>1, <4>3, <4>6, <4>7, <4>8 DEF ChainEarly
    <3> QED BY <3>1, <3>2
  <2> QED BY <1>2, <2>9, <2>13 DEF ChainInv
<1>16. CASE pc >= 64
  <2>1. Own(insn) <= 1 /\ insn.writes \subseteq LoopEnd.writes
    <3>1. GoodInsn(row, insn)
      BY <1>3, NextGood DEF TypeOK
    <3>2. insn = LoopEnd \/ insn = SetZF
      BY <1>8, <1>16
    <3> QED BY <3>1, <3>2, LoopEndIs, SetZFIs
  <2>2. Bounded(t)
    BY <1>7, <1>14
  <2>3. Bounded(t + 1)'
    BY <1>3, <2>1, <2>2, BoundedStep
  <2>4. ChainLate' = t + 1
    <3>1. ChainLate' = iter' * (all + tail + 1)
                       + IF pc' <= 64 THEN Alternating(pc') ELSE all + pc' - 64
      BY ONLY <1>9, <1>11, <1>12 DEF ChainLate
    <3>2. t = iter * (all + tail + 1) + all + pc - 64
      <4>1. pc = 64 => done = all
        BY ONLY <1>9, <1>13
      <4>2. PICK x \in Nat : x = iter * (all + tail + 1)
        BY ONLY <1>2, all \in Nat, tail \in Nat
      <4> QED BY ONLY <1>2, <1>14, <1>16, <4>1, <4>2, all \in Nat
    <3>3. CASE pc' = pc + 1 /\ iter' = iter
      <4>1. ChainLate' = iter * (all + tail + 1) + (all + pc + 1 - 64)
        BY ONLY <1>2, <1>16, <3>1, <3>3, all \in Nat
      <4>2. PICK x \in Nat : x = iter * (all + tail + 1)
        BY ONLY <1>2, all \in Nat, tail \in Nat
      <4> QED BY ONLY <1>2, <3>2, <4>1, <4>2, all \in Nat
    <3>4. CASE pc + 1 = CodeLength /\ pc' = 0 /\ iter' = iter + 1
      <4>1. ChainLate' = (iter + 1) * (all + tail + 1) + 0
        BY ONLY <1>6, <3>1, <3>4
      <4>2. pc = 64 + tail
        BY ONLY <1>2, <1>8, <1>10, <3>4, tail \in Nat
      <4>3. \A i, w \in Nat : (i + 1) * w + 0 = i * w + w
        BY ONLY TRUE
      <4>4. PICK w \in Nat : w = all + tail + 1
        BY ONLY all \in Nat, tail \in Nat
      <4>5. PICK x \in Nat : x = iter * w
        BY ONLY <1>2, w \in Nat
      <4> QED BY ONLY <1>2, <3>2, <4>1, <4>2, <4>3, <4>4, <4>5, all \in Nat, tail \in Nat
    <3> QED BY ONLY <1>2, <3>3, <3>4
  <2>5. Bounded(ChainLate)'
    BY ONLY <2>3, <2>4 DEF Bounded
  <2>6. ChainEarly'
    <3>1. pc \notin 1..63 /\ pc # 0
      BY ONLY <1>2, <1>16
    <3>2. PICK r \in row.body[1].reads :
            r[1] \notin LoopEnd.writes /\ ready[r[1]] >= (iter + 1) * Kept
      BY ONLY <1>7, <3>1 DEF ChainEarly
    <3>3. r[1] \in Locations
      <4>1. row.body[1] \in Insn
        <5>1. 1 \in 1..Len(row.body)
          BY ChainTimes, OneOrTwo
        <5> QED BY <1>1, <5>1 DEF ChainedBody
      <4> QED BY <4>1 DEF Insn
    <3>4. ready'[r[1]] = ready[r[1]]
      BY <1>3, <2>1, <3>2, <3>3, Executed
    <3>5. pc' \notin 1..63 /\ (iter' + IF pc' = 0 THEN 0 ELSE 1) = iter + 1
      <4>1. CASE pc' = pc + 1 /\ iter' = iter
        <5>1. pc + 1 \notin 1..63 /\ pc + 1 # 0
          BY ONLY <1>2, <1>16
        <5> QED BY ONLY <4>1, <5>1
      <4>2. CASE pc' = 0 /\ iter' = iter + 1
        <5>1. 0 \notin 1..63 /\ iter + 1 + 0 = iter + 1
          BY ONLY <1>2
        <5> QED BY ONLY <4>2, <5>1
      <4> QED BY ONLY <1>2, <4>1, <4>2
    <3> QED BY ONLY <1>2, <1>12, <3>2, <3>4, <3>5 DEF ChainEarly
  <2> QED BY <1>2, <2>5, <2>6 DEF ChainInv
<1> QED BY <1>2, <1>15, <1>16

\* A chain costs what ChainInv says, in every row that is one.
THEOREM ChainCost == Spec => []ChainInv
<1>1. Init => ChainInv
  BY DEF Init, ChainInv
<1>2. ASSUME TypeOK, Stopped, ChainInv, [Next]_vars PROVE ChainInv'
  <2>1. CASE UNCHANGED vars
    BY <1>2, <2>1 DEF vars, ChainInv, Bounded, ChainLate, ChainEarly, Kept, Whole, Alternating,
                      First, Last, Undisturbed, OtherPaths, Paths, UsesMemory
  <2>2. SUFFICES ASSUME Next, row.kind = "lat", row.file # "storefwd", Undisturbed
                 PROVE  ChainInv'
    <3>1. (row' = row /\ core' = core) \/ UNCHANGED vars
      BY <1>2 DEF Next, Execute, EndEmpty, EndBench
    <3>2. row' = row /\ core' = core => (Undisturbed' => Undisturbed)
      BY DEF Undisturbed, OtherPaths, Paths, UsesMemory
    <3> QED BY <1>2, <2>1, <3>1, <3>2 DEF ChainInv
  <2>3. ChainedRow(row)
    BY <1>2, <2>2, RowShapes DEF TypeOK, StreamRow, TripRow
  <2>4. PICK a \in Nat \ {0} : a = First
    BY <1>2, <2>2, <2>3, ChainTimes, MaxLatAssumption
  <2>5. PICK b \in Nat \ {0} : b = Last
    BY <1>2, <2>2, <2>3, ChainTimes, MaxLatAssumption
  <2>6. Alternating(0) = 0 /\ Alternating(64) \in Nat /\ Alternating(64) >= a
    BY <2>4, <2>5, AlternatingIs
  <2>7. PICK all \in Nat : all = Alternating(64) /\ all >= a
    BY <2>6
  <2>8. PICK tail \in Nat : tail = Len(row.tail)
    BY <1>2, RowSizes DEF TypeOK
  <2>9. Kept = all - a /\ Whole = all + tail + 1
    BY ONLY <2>4, <2>7, <2>8 DEF Kept, Whole
  <2>10. CASE Execute
    <3>1. phase = "bench" => ChainInv'
      BY <1>2, <2>2, <2>3, <2>10, ChainStep
    <3>2. phase' = phase /\ phase \in {"empty", "bench"}
      BY <1>2, <2>10, Advance
    <3> QED BY <3>1, <3>2 DEF ChainInv
  <2>11. CASE EndEmpty
    <3>1. /\ row' = row /\ core' = core /\ phase' = "bench" /\ iter' = 0 /\ pc' = 0
          /\ ready' = AtRest /\ free' = Idle(core.pipes)
      BY <2>11 DEF EndEmpty
    <3>2. First' = First /\ Last' = Last /\ Kept' = Kept /\ Whole' = Whole
      BY <3>1, ChainSame
    <3>3. Alternating(pc)' = Alternating(0)
      BY ONLY <3>1, <3>2 DEF Alternating
    <3>4. ChainLate' = 0
      <4>1. ChainLate' = 0 * (all + tail + 1) + 0
        BY ONLY <2>6, <2>9, <3>1, <3>2, <3>3 DEF ChainLate
      <4> QED BY ONLY <4>1, all \in Nat, tail \in Nat
    <3>5. Bounded(ChainLate)'
      <4>1. /\ \A loc \in Locations : ready'[loc] = 0
            /\ \A u \in Units, p \in 1..core.pipes : free'[u][p] = 0
        BY <1>2, <3>1, Begin
      <4> QED BY ONLY <3>1, <3>4, <4>1 DEF Bounded
    <3>6. ChainEarly'
      <4>1. PICK regs \in [1..Len(row.body) -> Locations], start \in Locations :
              ChainedBody(row, regs, start)
        BY <2>3 DEF ChainedRow
      <4>2. PICK q \in PathNames : <<start, q>> \in row.body[1].reads
        BY <4>1 DEF ChainedBody
      <4>3. PICK r \in row.body[1].reads : r = <<start, q>>
        BY <4>2
      <4>4. r[1] = start /\ start \in Locations /\ start \notin LoopEnd.writes
        BY <1>2, <4>1, <4>3, LoopEndIs DEF ChainedBody
      <4>5. ready'[r[1]] = 0
        BY <3>1, <4>4 DEF AtRest
      <4>6. 0 >= (0 + 0) * (all - a)
        BY ONLY all \in Nat, a \in Nat
      <4>7. 0 \notin 1..63
        OBVIOUS
      <4> QED BY ONLY <2>9, <3>1, <3>2, <4>4, <4>5, <4>6, <4>7 DEF ChainEarly
    <3> QED BY <3>1, <3>5, <3>6 DEF ChainInv
  <2>12. CASE EndBench
    <3>1. /\ row' = row /\ core' = core /\ phase = "bench" /\ phase' = "done" /\ iter = Iters
          /\ elapsed' = Cycles
      BY <1>2, <2>12, LoopOver DEF EndBench
    <3>2. pc = 0 /\ Iters \in Nat
      BY <1>2, <3>1, ItersAssumption DEF Stopped
    <3>3. Kept' = Kept /\ Whole' = Whole
      BY <3>1, ChainSame
    <3>4. Bounded(ChainLate) /\ ChainEarly
      BY <1>2, <2>2, <3>1 DEF ChainInv
    <3>5. PICK t \in Nat : t = Iters * (all + tail + 1)
      BY ONLY <3>2, all \in Nat, tail \in Nat
    <3>6. ChainLate = t
      <4>1. ChainLate = Iters * (all + tail + 1) + 0
        BY ONLY <2>6, <2>9, <3>1, <3>2 DEF ChainLate
      <4> QED BY ONLY <3>5, <4>1, t \in Nat
    <3>7. Cycles \in 0..t
      BY <1>2, <3>4, <3>6, BoundedCycles
    <3>8. PICK r \in row.body[1].reads : ready[r[1]] >= (Iters + 0) * Kept
      <4>1. 0 \notin 1..63
        OBVIOUS
      <4> QED BY ONLY <3>1, <3>2, <3>4, <4>1 DEF ChainEarly
    <3>9. PICK e \in Nat : e = Iters * (all - a)
      BY ONLY <2>7, <3>2, all \in Nat, a \in Nat
    <3>10. ready[r[1]] >= e
      <4>1. Iters + 0 = Iters
        BY <3>2
      <4> QED BY ONLY <2>9, <3>8, <3>9, <4>1
    <3>11. Cycles >= ready[r[1]] /\ ready[r[1]] \in Nat
      <4>1. GoodInsn(row, row.body[1])
        <5>1. 1 \in 1..Len(row.body)
          BY <1>2, <2>2, <2>3, ChainTimes, OneOrTwo
        <5> QED BY <1>2, <5>1, RowInsns DEF TypeOK
      <4>2. r[1] \in Locations
        BY <4>1 DEF GoodInsn, Insn
      <4> QED BY <1>2, <4>2, CyclesAre DEF TypeOK
    <3>12. Cycles \in e..t
      BY ONLY <3>7, <3>10, <3>11, e \in Nat, t \in Nat
    <3> QED BY ONLY <2>9, <3>1, <3>3, <3>5, <3>9, <3>12 DEF ChainInv
  <2> QED BY <2>2, <2>10, <2>11, <2>12, SMTT(30) DEF Next
<1> QED BY <1>1, <1>2, TypeCorrect, StopsAtFirst, PTL DEF Spec

\* What is left of the cycles of a chain, against what its row promises.
LEMMA ChainArithmetic ==
  ASSUME NEW n \in Nat, NEW a \in Nat, NEW b \in Nat, NEW m \in Nat, NEW tail \in Nat,
         a <= m, tail <= m, NEW el \in Nat, NEW em \in 0..n,
         el >= n * (32 * (a + b) - a), el <= n * (32 * (a + b) + tail + 1)
  PROVE  Abs(2 * (el - em) - (n * 64) * (a + b)) <= 2 * (n * (m + 1))
<1>1. PICK na \in Nat : na = n * a
  OBVIOUS
<1>2. PICK nb \in Nat : nb = n * b
  OBVIOUS
<1>3. PICK nm \in Nat : nm = n * m
  OBVIOUS
<1>4. PICK nt \in Nat : nt = n * tail
  OBVIOUS
<1>5. na <= nm /\ nt <= nm
  <2>1. \A x, y, z \in Nat : x <= y => z * x <= z * y
    BY ONLY TRUE
  <2> QED BY <1>1, <1>3, <1>4, <2>1
<1>6. /\ n * (32 * (a + b) - a) = 32 * na + 32 * nb - na
      /\ n * (32 * (a + b) + tail + 1) = 32 * na + 32 * nb + nt + n
      /\ (n * 64) * (a + b) = 64 * na + 64 * nb
      /\ n * (m + 1) = nm + n
  BY <1>1, <1>2, <1>3, <1>4
<1>7. /\ 2 * (el - em) - (n * 64) * (a + b) <= 2 * nm + 2 * n
      /\ 2 * (el - em) - (n * 64) * (a + b) >= -(2 * nm + 2 * n)
      /\ 2 * (el - em) - (n * 64) * (a + b) \in Int
  BY <1>5, <1>6
<1>8. 2 * (n * (m + 1)) = 2 * nm + 2 * n
  BY <1>6
<1> DEFINE d == 2 * (el - em) - (n * 64) * (a + b)
<1> HIDE DEF d
<1>9. d \in Int /\ d <= 2 * nm + 2 * n /\ d >= -(2 * nm + 2 * n)
  BY ONLY <1>7 DEF d
<1>10. Abs(d) <= 2 * nm + 2 * n
  BY ONLY <1>9, nm \in Nat, n \in Nat DEF Abs
<1> QED BY ONLY <1>8, <1>10 DEF d

\* So a chain prints the latency that its row promises.
LEMMA ChainShown ==
  ASSUME TypeOK, EmptyInv, ChainInv, row.file # "storefwd"
  PROVE  LatencyShown
<1>1. SUFFICES ASSUME phase = "done", row.kind = "lat", Undisturbed
               PROVE  Abs(2 * Net - Divisor * (First + Last)) <= 2 * Slack
  BY DEF LatencyShown
<1>2. ChainedRow(row)
  BY <1>1, RowShapes DEF TypeOK, StreamRow, TripRow
<1>3. PICK m \in Nat \ {0} : m = MaxLat
  BY MaxLatAssumption
<1>4. PICK a \in Nat : a = First /\ a <= m
  BY <1>1, <1>2, <1>3, ChainTimes
<1>5. PICK b \in Nat : b = Last /\ b <= m
  BY <1>1, <1>2, <1>3, ChainTimes
<1>6. Alternating(64) = 32 * (a + b)
  BY <1>4, <1>5, AlternatingIs
<1>7. PICK tail \in Nat : tail = Len(row.tail) /\ tail <= m
  <2>1. Len(row.tail) = 0 \/ Len(row.tail) = 1
    BY RowSizes DEF TypeOK
  <2>2. 0 \in Nat /\ 1 \in Nat /\ 0 <= m /\ 1 <= m
    BY <1>3
  <2> QED BY ONLY <2>1, <2>2
<1>8. PICK n \in Nat : n = Iters
  BY ItersAssumption
<1>9. elapsed \in n * (32 * (a + b) - a) .. n * (32 * (a + b) + tail + 1)
  <2>1. elapsed \in Iters * Kept .. Iters * Whole
    BY <1>1 DEF ChainInv
  <2> QED BY ONLY <1>4, <1>6, <1>7, <1>8, <2>1 DEF Kept, Whole
<1>10. PICK em \in 0..n : em = empty
  BY <1>1, <1>8 DEF EmptyInv
<1>11. PICK el \in Nat : el = elapsed
  BY DEF TypeOK
<1>12. el >= n * (32 * (a + b) - a) /\ el <= n * (32 * (a + b) + tail + 1)
  BY ONLY <1>9, <1>11
<1>13. Abs(2 * (el - em) - (n * 64) * (a + b)) <= 2 * (n * (m + 1))
  BY <1>4, <1>7, <1>12, ChainArithmetic
<1>14. row.ops = 64
  BY <1>2 DEF ChainedRow
<1> QED BY ONLY <1>3, <1>4, <1>5, <1>8, <1>10, <1>11, <1>13, <1>14 DEF Net, Divisor, Slack

-------------------------------------------------------------------------------
(* The round trips through memory. *)

\* What the next instruction of a round trip adds.
LEMMA RoundTripsAre ==
  ASSUME First \in Nat, core.lat["and"] \in Nat
  PROVE  /\ RoundTrips(0) = 0 /\ RoundTrips(96) = 32 * (First + core.lat["and"])
         /\ RoundTrips(96) \in Nat
         /\ \A n \in Nat :
              /\ RoundTrips(n) \in Nat
              /\ RoundTrips(n + 1) = RoundTrips(n) + IF n % 3 = 0 THEN 0
                                                    ELSE IF n % 3 = 1 THEN First ELSE core.lat["and"]
<1>1. PICK a \in Nat : a = First
  OBVIOUS
<1>2. PICK m \in Nat : m = core.lat["and"]
  OBVIOUS
<1>3. ASSUME NEW n \in Nat
      PROVE  /\ RoundTrips(n) \in Nat
             /\ RoundTrips(n + 1) = RoundTrips(n) + IF n % 3 = 0 THEN 0
                                                   ELSE IF n % 3 = 1 THEN a ELSE m
  <2>1. PICK h \in Nat : n = 3 * h \/ n = 3 * h + 1 \/ n = 3 * h + 2
    BY Thirds
  <2>2. PICK x \in Nat : x = h * (a + m)
    BY ONLY a \in Nat, m \in Nat, h \in Nat
  <2>3. (h + 1) * (a + m) = x + a + m
    BY ONLY <2>2, a \in Nat, m \in Nat, h \in Nat
  <2>4. CASE n = 3 * h
    <3>1. n % 3 = 0 /\ n \div 3 = h /\ (n + 1) % 3 = 1 /\ (n + 1) \div 3 = h
      BY <2>4
    <3>2. RoundTrips(n) = x + 0
      BY ONLY <1>1, <1>2, <2>2, <3>1 DEF RoundTrips
    <3>3. RoundTrips(n + 1) = x + 0
      BY ONLY <1>1, <1>2, <2>2, <3>1 DEF RoundTrips
    <3> QED BY ONLY <3>1, <3>2, <3>3, x \in Nat
  <2>5. CASE n = 3 * h + 1
    <3>1. n % 3 = 1 /\ n \div 3 = h /\ (n + 1) % 3 = 2 /\ (n + 1) \div 3 = h
      BY <2>5
    <3>2. RoundTrips(n) = x + 0 /\ RoundTrips(n + 1) = x + a
      BY ONLY <1>1, <1>2, <2>2, <3>1 DEF RoundTrips
    <3> QED BY ONLY <3>1, <3>2, x \in Nat, a \in Nat
  <2>6. CASE n = 3 * h + 2
    <3>1. n % 3 = 2 /\ n \div 3 = h /\ (n + 1) % 3 = 0 /\ (n + 1) \div 3 = h + 1
      BY <2>6
    <3>2. RoundTrips(n) = x + a /\ RoundTrips(n + 1) = (h + 1) * (a + m) + 0
      BY ONLY <1>1, <1>2, <2>2, <3>1 DEF RoundTrips
    <3> QED BY ONLY <2>3, <3>1, <3>2, x \in Nat, a \in Nat, m \in Nat
  <2> QED BY ONLY <2>1, <2>4, <2>5, <2>6
<1>4. 0 % 3 = 0 /\ 0 \div 3 = 0 /\ 96 % 3 = 0 /\ 96 \div 3 = 32
  OBVIOUS
<1>5. RoundTrips(0) = 0 /\ RoundTrips(96) = 32 * (a + m)
  <2>1. RoundTrips(0) = 0 * (a + m) + 0 /\ RoundTrips(96) = 32 * (a + m) + 0
    BY ONLY <1>1, <1>2, <1>4 DEF RoundTrips
  <2> QED BY ONLY <2>1, a \in Nat, m \in Nat
<1>6. 32 * (a + m) \in Nat
  OBVIOUS
<1> QED BY ONLY <1>1, <1>2, <1>3, <1>5, <1>6

\* The three instructions of a round trip, and where they stand.
LEMMA TripIs3 ==
  ASSUME TypeOK, TripRow(row)
  PROVE  /\ row.body[1].unit = "store" /\ row.body[1].writes = {"mem"} /\ row.body[1].stores # {}
         /\ Waits(row.body[1]) = {<<"x", "data">>} /\ Own(row.body[1]) = 0
         /\ row.body[2].unit = "load" /\ row.body[2].writes = {"x"} /\ row.body[2].stores = {}
         /\ row.body[2].reads = {<<"k", "one">>} /\ row.body[3] = Mask /\ Len(row.body) = 3
         /\ Mask.unit = "alu" /\ Mask.writes = {"x"} /\ Mask.stores = {}
         /\ <<"x", "and">> \in Waits(Mask)
         /\ Own(Mask) = core.lat["and"] /\ Latency("and") = core.lat["and"]
         /\ core.lat["and"] \in 1..MaxLat
<1>1. PICK st \in SUBSET Int, ld \in SUBSET Int :
        st # {} /\ row.body = <<Store(st), Load(ld), Mask>>
  BY DEF TripRow
<1>2. row.body[1] = Store(st) /\ row.body[2] = Load(ld) /\ row.body[3] = Mask /\ Len(row.body) = 3
  BY <1>1
<1>3. /\ Store(st).unit = "store" /\ Store(st).reads = {<<"x", "data">>}
      /\ Store(st).writes = {"mem"}
      /\ Store(st).loads = {} /\ Store(st).stores = st
      /\ Load(ld).unit = "load" /\ Load(ld).reads = {<<"k", "one">>} /\ Load(ld).writes = {"x"}
      /\ Load(ld).stores = {}
  BY StoreLoad
<1>4. Waits(Store(st)) = {<<"x", "data">>}
  BY <1>3, PlainWaits
<1>5. Timed(Store(st))
  <2>1. GoodInsn(row, row.body[1])
    BY <1>2, RowInsns DEF TypeOK
  <2> QED BY <1>2, <2>1, Timing
<1>6. Own(Store(st)) = 0
  <2>1. \E r \in Waits(Store(st)) : Latency(r[2]) = Own(Store(st))
    BY <1>5 DEF Timed
  <2>2. Latency("data") = 0
    BY LatencyIs
  <2> QED BY <1>4, <2>1, <2>2
<1>7. row.file = "storefwd"
  BY DEF TripRow
<1>8. /\ Own(Mask) = core.lat["and"] /\ core.lat["and"] \in 1..MaxLat
      /\ Mask.writes = {"x"} /\ Mask.stores = {} /\ Mask.unit = "alu"
      /\ <<"x", "and">> \in Waits(Mask) /\ Latency("and") = core.lat["and"]
  BY <1>7, MaskIs
<1> QED BY <1>1, <1>2, <1>3, <1>4, <1>6, <1>8

\* The next instruction of the loop of a round trip.
LEMMA TripNext ==
  ASSUME TypeOK, TripRow(row), phase = "bench"
  PROVE  /\ CodeLength = 97
         /\ pc < 96 /\ pc % 3 = 0 => NextInstruction = row.body[1]
         /\ pc < 96 /\ pc % 3 = 1 => NextInstruction = row.body[2]
         /\ pc < 96 /\ pc % 3 = 2 => NextInstruction = Mask
         /\ pc = 96 => NextInstruction = LoopEnd
<1>1. Len(row.body) = 3 /\ row.body[3] = Mask /\ row.reps = 32 /\ row.tail = <<>>
  BY TripIs3 DEF TripRow
<1>2. Copies(row) = 96 /\ Len(row.tail) = 0
  BY <1>1 DEF Copies
<1>3. /\ CodeLength = Copies(row) + Len(row.tail) + 1 /\ pc \in Nat
      /\ NextInstruction = IF pc < Copies(row) THEN row.body[(pc % Len(row.body)) + 1]
                           ELSE IF pc < Copies(row) + Len(row.tail) THEN SetZF
                           ELSE LoopEnd
  BY BenchCode DEF TypeOK
<1> QED BY ONLY <1>1, <1>2, <1>3

\* The latency that a round trip promises.
LEMMA LatShows ==
  ASSUME TypeOK, TripRow(row), row.kind = "lat"
  PROVE  First = Last /\ First \in 1..MaxLat /\ First \in Nat \ {0}
<1>1. PICK path \in {"fwd", "stall"} : row.shows = <<path>>
  BY DEF TripRow
<1>2. row.shows[1] = path /\ Len(row.shows) = 1
  BY <1>1
<1>3. path \in Paths(row)
  <2>1. path \in Range(row.shows)
    <3>1. 1 \in DOMAIN row.shows
      BY <1>1
    <3> QED BY <1>2, <3>1 DEF Range
  <2> QED BY <1>1, <2>1 DEF Paths
<1>4. core.lat[path] \in 1..MaxLat
  BY <1>3, LatencyIs
<1>5. First = core.lat[path] /\ Last = core.lat[path]
  BY ONLY <1>2 DEF First, Last
<1> QED BY <1>4, <1>5, MaxLatAssumption

\* What the load of a round trip waits for, by the bytes and by what the core compares.
LEMMA Forwarding ==
  ASSUME TypeOK, TripRow(row), stored = row.body[1].stores
  PROVE  /\ row.kind = "lat" /\ (row.name = "E1" => core.aliases) =>
              /\ First = Last /\ First \in 1..MaxLat /\ Own(row.body[2]) = First
              /\ \E p : <<"mem", p>> \in Waits(row.body[2]) /\ Latency(p) = First
              /\ \A r \in Waits(row.body[2]) : r[1] \in {"k", "mem"}
         /\ Unchained => Waits(row.body[2]) = {<<"k", "one">>} /\ Own(row.body[2]) = 1
<1>1. PICK st \in SUBSET Int, ld \in SUBSET Int :
        /\ st # {} /\ ld # {}
        /\ row.body = <<Store(st), Load(ld), Mask>>
        /\ \/ /\ row.kind = "lat" /\ row.shows = <<"fwd">> /\ row.name # "E1"
              /\ ld \subseteq st
           \/ /\ row.kind = "lat" /\ row.shows = <<"stall">> /\ row.name # "E1"
              /\ ~(ld \subseteq st) /\ ld \cap st # {}
           \/ /\ row.kind = "lat" /\ row.shows = <<"stall">> /\ row.name = "E1"
              /\ ld \cap st = {} /\ { b % 4096 : b \in ld } \cap st # {}
           \/ /\ row.kind = "control" /\ row.shows = <<>> /\ row.name # "E1"
              /\ ld \cap st = {} /\ { b % 4096 : b \in ld } \cap st = {}
  BY DEF TripRow
<1>2. row.body[1] = Store(st) /\ row.body[2] = Load(ld) /\ row.body[3] = Mask /\ Len(row.body) = 3
  BY <1>1
<1>3. stored = st /\ Load(ld).loads = ld /\ Load(ld).reads = {<<"k", "one">>}
  BY <1>2, StoreLoad
<1>4. Timed(Load(ld))
  <2>1. GoodInsn(row, row.body[2])
    BY <1>2, RowInsns DEF TypeOK
  <2> QED BY <1>2, <2>1, Timing
<1>5. Waits(Load(ld)) = {<<"k", "one">>} \cup ({"mem"} \X ForwardPaths(ld))
  BY <1>3 DEF Waits
<1>6. Latency("one") = 1
  BY LatencyIs
<1>7. \E r \in Waits(Load(ld)) : Latency(r[2]) = Own(Load(ld))
  BY <1>4 DEF Timed
<1>8. ASSUME row.kind = "lat", row.name = "E1" => core.aliases
      PROVE  /\ First = Last /\ First \in 1..MaxLat /\ Own(Load(ld)) = First
             /\ \E p : <<"mem", p>> \in Waits(Load(ld)) /\ Latency(p) = First
             /\ \A r \in Waits(Load(ld)) : r[1] \in {"k", "mem"}
  <2>1. PICK path \in {"fwd", "stall"} : row.shows = <<path>> /\ ForwardPaths(ld) = {path}
    BY <1>1, <1>3, <1>8 DEF ForwardPaths
  <2>2. row.shows[1] = path /\ Len(row.shows) = 1
    BY <2>1
  <2>3. path \in Paths(row)
    <3>1. path \in Range(row.shows)
      <4>1. 1 \in DOMAIN row.shows
        BY <2>1
      <4> QED BY <2>2, <4>1 DEF Range
    <3> QED BY <2>1, <3>1 DEF Paths
  <2>4. Latency(path) = core.lat[path] /\ core.lat[path] \in 1..MaxLat
    BY <2>1, <2>3, LatencyIs
  <2>5. First = Latency(path) /\ Last = Latency(path) /\ First \in 1..MaxLat
    BY ONLY <2>2, <2>4 DEF First, Last
  <2>6. {"mem"} \X {path} = {<<"mem", path>>}
    OBVIOUS
  <2>7. Waits(Load(ld)) = {<<"k", "one">>, <<"mem", path>>}
    BY ONLY <1>5, <2>1, <2>6
  <2>8. Latency(path) \in 0..Own(Load(ld)) /\ Own(Load(ld)) \in 0..MaxLat
    <3>1. <<"mem", path>> \in Waits(Load(ld)) /\ <<"mem", path>>[2] = path
      BY <2>7
    <3> QED BY <1>4, <3>1 DEF Timed
  <2>9. Own(Load(ld)) = 1 \/ Own(Load(ld)) = Latency(path)
    BY <1>6, <1>7, <2>7
  <2>10. Own(Load(ld)) = First
    <3>1. PICK lat \in Nat \ {0} : lat = Latency(path)
      BY <2>4, MaxLatAssumption
    <3> QED BY ONLY <2>5, <2>8, <2>9, <3>1
  <2> QED BY <2>5, <2>7, <2>10
<1>9. ASSUME Unchained
      PROVE  Waits(Load(ld)) = {<<"k", "one">>} /\ Own(Load(ld)) = 1
  <2>1. ForwardPaths(ld) = {}
    BY <1>1, <1>3, <1>9 DEF ForwardPaths, Unchained
  <2>2. {"mem"} \X {} = {}
    OBVIOUS
  <2>3. Waits(Load(ld)) = {<<"k", "one">>}
    BY ONLY <1>5, <2>1, <2>2
  <2> QED BY <1>6, <1>7, <2>3
<1> QED BY ONLY <1>2, <1>8, <1>9

\* An instruction whose pipe and operands are there in time ends in time.
LEMMA FinishBy ==
  ASSUME TypeOK, NEW insn, GoodInsn(row, insn), Timed(insn), NEW t \in Nat,
         free[insn.unit][FirstFree(insn.unit)] + Own(insn) <= t,
         \A r \in Waits(insn) : ready[r[1]] + Latency(r[2]) <= t
  PROVE  Finish(insn) <= t
BY DEF Timed

\* What a step of a round trip leaves as it was.
LEMMA TripSame ==
  ASSUME row' = row, core' = core
  PROVE  First' = First /\ \A n \in Nat : n = pc' => RoundTrips(pc)' = RoundTrips(n)
         /\ RoundTrips(96)' = RoundTrips(96)
<1>1. First' = First
  BY DEF First
<1> QED BY <1>1 DEF RoundTrips

\* An instruction of a round trip through memory keeps what TripInv says.
LEMMA TripStep ==
  ASSUME TypeOK, TripInv, TripRow(row), row.kind = "lat", row.name = "E1" => core.aliases,
         phase = "bench", Execute
  PROVE  TripInv'
<1>1. /\ row' = row /\ core' = core /\ phase' = phase /\ iter \in Nat /\ pc \in Nat
      /\ pc < CodeLength
      /\ \/ pc + 1 < CodeLength /\ pc' = pc + 1 /\ iter' = iter
         \/ pc + 1 = CodeLength /\ pc' = 0 /\ iter' = iter + 1
  BY Advance
<1>2. PICK insn : insn = NextInstruction
  OBVIOUS
<1>3. /\ GoodInsn(row, insn) /\ Timed(insn)
      /\ \A loc \in Locations :
           ready'[loc] = IF loc \in insn.writes THEN Finish(insn) ELSE ready[loc]
      /\ \A u \in Units, p \in 1..core.pipes :
           free'[u][p] = IF u = insn.unit /\ p = FirstFree(u) THEN Release(insn) ELSE free[u][p]
      /\ stored' = IF insn.stores # {} THEN insn.stores ELSE stored
  BY <1>2, Executed
<1>4. /\ CodeLength = 97
      /\ pc < 96 /\ pc % 3 = 0 => insn = row.body[1]
      /\ pc < 96 /\ pc % 3 = 1 => insn = row.body[2]
      /\ pc < 96 /\ pc % 3 = 2 => insn = Mask
      /\ pc = 96 => insn = LoopEnd
  BY <1>2, TripNext
<1>5. PICK m \in Nat \ {0} : m = core.lat["and"]
  BY TripIs3, MaxLatAssumption
<1>6. PICK s \in Nat \ {0} : s = First
  BY LatShows
<1>7. /\ RoundTrips(0) = 0 /\ RoundTrips(96) \in Nat
      /\ \A n \in Nat :
           /\ RoundTrips(n) \in Nat
           /\ RoundTrips(n + 1) = RoundTrips(n) + IF n % 3 = 0 THEN 0 ELSE IF n % 3 = 1 THEN s ELSE m
  BY <1>5, <1>6, RoundTripsAre
<1>8. PICK all \in Nat : all = RoundTrips(96)
  BY <1>7
<1>9. PICK done \in Nat : done = RoundTrips(pc)
  BY <1>1, <1>7
<1>10. PICK e \in Nat : e = TripEarly /\ e = iter * all + done
  <2>1. iter * all + done \in Nat
    BY ONLY <1>1, all \in Nat, done \in Nat
  <2> QED BY ONLY <1>8, <1>9, <2>1 DEF TripEarly
<1>11. PICK t \in Nat : t = TripLate /\ t = iter + e
  BY ONLY <1>1, <1>10 DEF TripLate
<1>12. /\ \A loc \in Locations : ready[loc] \in Nat /\ ready[loc] <= t
       /\ \A u \in Units, p \in 1..core.pipes :
            free[u][p] \in Nat /\ free[u][p] <= IF u = "store" /\ pc % 3 = 1 THEN t + 1 ELSE t
       /\ ready[IF pc % 3 = 1 THEN "mem" ELSE "x"] >= e
       /\ pc % 3 = 1 => stored = row.body[1].stores
  BY <1>10, <1>11, ZenonT(60) DEF TripInv, TripRow, TypeOK
<1>13. /\ RoundTrips(pc)' = RoundTrips(pc') /\ RoundTrips(96)' = RoundTrips(96)
  <2>1. First' = First
    BY <1>1, TripSame
  <2> QED BY ONLY <1>1, <2>1 DEF RoundTrips
<1>14. TripEarly' = iter' * all + RoundTrips(pc') /\ TripLate' = iter' + TripEarly'
  BY ONLY <1>8, <1>13 DEF TripEarly, TripLate
<1>15. ASSUME pc < 96
       PROVE  pc' = pc + 1 /\ iter' = iter
  BY ONLY <1>1, <1>4, <1>15
<1>16. CASE pc < 96 /\ pc % 3 = 0
  <2>1. insn = row.body[1] /\ insn.unit = "store" /\ insn.writes = {"mem"} /\ insn.stores # {}
        /\ Waits(insn) = {<<"x", "data">>} /\ Own(insn) = 0
    BY <1>4, <1>16, TripIs3
  <2>2. TripEarly' = e /\ TripLate' = t /\ pc' % 3 = 1
    <3>1. pc' = pc + 1 /\ iter' = iter
      BY <1>15, <1>16
    <3>2. (pc + 1) % 3 = 1
      BY ONLY <1>1, <1>16
    <3>3. RoundTrips(pc + 1) = done
      <4>1. RoundTrips(pc + 1) = RoundTrips(pc) + 0
        BY ONLY <1>1, <1>7, <1>16
      <4> QED BY ONLY <1>9, <4>1, done \in Nat
    <3> QED BY ONLY <1>10, <1>11, <1>14, <3>1, <3>2, <3>3
  <2>3. Latency("data") = 0
    BY LatencyIs
  <2>4. FirstFree("store") \in 1..core.pipes /\ "store" \in Units /\ "x" \in Locations
        /\ "mem" \in Locations
    BY <1>3, <2>1, LocationsAre DEF Timed, Units
  <2>5. Finish(insn) <= t
    <3>1. free[insn.unit][FirstFree(insn.unit)] + Own(insn) <= t
      BY <1>12, <1>16, <2>1, <2>4
    <3>2. \A r \in Waits(insn) : ready[r[1]] + Latency(r[2]) <= t
      <4>1. ready["x"] + 0 <= t
        BY <1>12, <2>4
      <4> QED BY <2>1, <2>3, <4>1
    <3> QED BY <1>3, <3>1, <3>2, FinishBy
  <2>6. Finish(insn) >= e /\ Finish(insn) \in Nat
    <3>1. <<"x", "data">> \in Waits(insn) /\ <<"x", "data">>[1] = "x" /\ <<"x", "data">>[2] = "data"
      BY <2>1
    <3>2. Finish(insn) >= ready["x"] + 0 /\ Finish(insn) \in Nat
      BY <1>3, <2>3, <3>1 DEF Timed
    <3> QED BY <1>12, <1>16, <2>4, <3>2
  <2>7. Release(insn) <= t + 1
    <3>1. Busy(insn) = 1
      BY <2>1 DEF Busy
    <3> QED BY <2>1, <2>5, <2>6, <3>1 DEF Release
  <2>8. \A loc \in Locations : ready'[loc] <= t
    BY <1>3, <1>12, <2>5
  <2>9. \A u \in Units, p \in 1..core.pipes : free'[u][p] <= IF u = "store" THEN t + 1 ELSE t
    BY <1>3, <1>12, <1>16, <2>1, <2>7
  <2>10. ready'["mem"] >= e
    BY <1>3, <2>1, <2>4, <2>6
  <2>11. stored' = row.body[1].stores
    BY <1>3, <2>1
  <2> QED BY <1>1, <2>2, <2>8, <2>9, <2>10, <2>11 DEF TripInv
<1>17. CASE pc < 96 /\ pc % 3 = 1
  <2>1. insn = row.body[2] /\ insn.unit = "load" /\ insn.writes = {"x"} /\ insn.stores = {}
    BY <1>4, <1>17, TripIs3
  <2>2. /\ Own(insn) = s /\ \A r \in Waits(insn) : r[1] \in {"k", "mem"}
        /\ \E p : <<"mem", p>> \in Waits(insn) /\ Latency(p) = s
    BY <1>6, <1>12, <1>17, <2>1, Forwarding
  <2>3. TripEarly' = e + s /\ TripLate' = t + s /\ pc' % 3 = 2
    <3>1. pc' = pc + 1 /\ iter' = iter
      BY <1>15, <1>17
    <3>2. (pc + 1) % 3 = 2
      BY ONLY <1>1, <1>17
    <3>3. RoundTrips(pc + 1) = done + s
      <4>1. RoundTrips(pc + 1) = RoundTrips(pc) + s
        <5>1. pc \in Nat /\ ~(pc % 3 = 0) /\ pc % 3 = 1
          BY ONLY <1>1, <1>17
        <5>2. RoundTrips(pc + 1)
                = RoundTrips(pc) + IF pc % 3 = 0 THEN 0 ELSE IF pc % 3 = 1 THEN s ELSE m
          BY ONLY <1>7, <5>1, Zenon
        <5> QED BY ONLY <5>1, <5>2, Zenon
      <4> QED BY ONLY <1>9, <4>1
    <3>4. PICK x \in Nat : x = iter * all
      BY ONLY <1>1, all \in Nat
    <3>5. TripEarly' = x + (done + s)
      BY ONLY <1>14, <3>1, <3>3, <3>4
    <3> QED BY ONLY <1>1, <1>10, <1>11, <1>14, <3>1, <3>2, <3>4, <3>5, s \in Nat, done \in Nat
  <2>4. FirstFree("load") \in 1..core.pipes /\ "load" \in Units /\ "x" \in Locations
        /\ "mem" \in Locations
    BY <1>3, <2>1, LocationsAre DEF Timed, Units
  <2>5. \A r \in Waits(insn) : r[1] \in Locations /\ Latency(r[2]) \in 0..s
    BY <1>3, <2>2 DEF Timed
  <2>6. Finish(insn) <= t + s
    <3>1. free[insn.unit][FirstFree(insn.unit)] + Own(insn) <= t + s
      BY <1>12, <2>1, <2>2, <2>4
    <3>2. \A r \in Waits(insn) : ready[r[1]] + Latency(r[2]) <= t + s
      BY <1>12, <2>5
    <3> QED BY <1>3, <3>1, <3>2, FinishBy
  <2>7. Finish(insn) >= e + s /\ Finish(insn) \in Nat
    <3>1. PICK p : <<"mem", p>> \in Waits(insn) /\ Latency(p) = s
      BY <2>2
    <3>2. <<"mem", p>>[1] = "mem" /\ <<"mem", p>>[2] = p
      OBVIOUS
    <3>3. Finish(insn) >= ready["mem"] + s /\ Finish(insn) \in Nat
      BY <1>3, <3>1, <3>2 DEF Timed
    <3> QED BY <1>12, <1>17, <2>4, <3>3
  <2>8. Release(insn) <= t + 1
    <3>1. Busy(insn) = 1
      BY <2>1 DEF Busy
    <3> QED BY <2>2, <2>6, <2>7, <3>1 DEF Release
  <2>9. \A loc \in Locations : ready'[loc] <= t + s
    BY <1>3, <1>12, <2>6
  <2>10. \A u \in Units, p \in 1..core.pipes : free'[u][p] <= t + s
    <3>1. t + 1 <= t + s /\ t <= t + s
      OBVIOUS
    <3>2. \A u \in Units, p \in 1..core.pipes : free[u][p] <= t + s
      BY <1>12, <3>1
    <3>3. Release(insn) <= t + s
      <4>1. Release(insn) \in Nat
        BY <1>2, Executed
      <4> QED BY <2>8, <3>1, <4>1
    <3> QED BY <1>3, <3>2, <3>3
  <2>11. ready'["x"] >= e + s
    BY <1>3, <2>1, <2>4, <2>7
  <2>12. pc' % 3 # 1
    BY <2>3
  <2> QED BY <1>1, <2>3, <2>9, <2>10, <2>11, <2>12 DEF TripInv
<1>18. CASE pc < 96 /\ pc % 3 = 2
  <2>1. insn = Mask /\ Own(insn) = m /\ insn.writes = {"x"} /\ <<"x", "and">> \in Waits(insn)
        /\ Latency("and") = m
    BY <1>4, <1>5, <1>18, TripIs3
  <2>2. TripEarly' = e + m /\ TripLate' = t + m /\ pc' % 3 = 0
    <3>1. pc' = pc + 1 /\ iter' = iter
      BY <1>15, <1>18
    <3>2. (pc + 1) % 3 = 0
      BY ONLY <1>1, <1>18
    <3>3. RoundTrips(pc + 1) = done + m
      <4>1. RoundTrips(pc + 1) = RoundTrips(pc) + m
        BY ONLY <1>1, <1>7, <1>18
      <4> QED BY ONLY <1>9, <4>1
    <3>4. PICK x \in Nat : x = iter * all
      BY ONLY <1>1, all \in Nat
    <3>5. TripEarly' = x + (done + m)
      BY ONLY <1>14, <3>1, <3>3, <3>4
    <3> QED BY ONLY <1>1, <1>10, <1>11, <1>14, <3>1, <3>2, <3>4, <3>5, m \in Nat, done \in Nat
  <2>3. Bounded(t)
    BY <1>12, <1>18 DEF Bounded
  <2>4. Bounded(t + m)'
    BY <1>2, <2>1, <2>3, BoundedStep
  <2>5. /\ \A loc \in Locations : ready'[loc] <= t + m
        /\ \A u \in Units, p \in 1..core.pipes : free'[u][p] <= t + m
    BY ONLY <1>1, <2>4 DEF Bounded
  <2>6. ready'["x"] >= e + m
    <3>1. "x" \in Locations /\ <<"x", "and">>[1] = "x" /\ <<"x", "and">>[2] = "and"
      BY LocationsAre
    <3>2. Finish(insn) >= ready["x"] + m /\ Finish(insn) \in Nat
      BY <1>3, <2>1, <3>1 DEF Timed
    <3> QED BY <1>3, <1>12, <1>18, <2>1, <3>1, <3>2
  <2>7. pc' % 3 # 1
    BY <2>2
  <2> QED BY <1>1, <2>2, <2>5, <2>6, <2>7 DEF TripInv
<1>19. CASE pc = 96
  <2>1. insn = LoopEnd /\ Own(insn) = 1 /\ insn.writes = {"i", "CF", "ZF"}
    BY <1>4, <1>19, LoopEndIs
  <2>2. TripEarly' = e /\ TripLate' = t + 1 /\ pc' = 0
    <3>1. pc' = 0 /\ iter' = iter + 1
      BY ONLY <1>1, <1>4, <1>19
    <3>2. TripEarly' = (iter + 1) * all + 0
      BY ONLY <1>7, <1>14, <3>1
    <3>3. done = all
      BY ONLY <1>8, <1>9, <1>19
    <3>4. PICK x \in Nat : x = iter * all
      BY ONLY <1>1, all \in Nat
    <3>5. (iter + 1) * all = x + all
      BY ONLY <1>1, <3>4, all \in Nat
    <3> QED BY ONLY <1>1, <1>10, <1>11, <1>14, <3>1, <3>2, <3>3, <3>4, <3>5, all \in Nat
  <2>3. Bounded(t)
    <3>1. pc % 3 # 1
      BY ONLY <1>19
    <3> QED BY <1>12, <3>1 DEF Bounded
  <2>4. Bounded(t + 1)'
    BY <1>2, <2>1, <2>3, BoundedStep
  <2>5. /\ \A loc \in Locations : ready'[loc] <= t + 1
        /\ \A u \in Units, p \in 1..core.pipes : free'[u][p] <= t + 1
    BY ONLY <1>1, <2>4 DEF Bounded
  <2>6. ready'["x"] >= e
    <3>1. "x" \in Locations /\ "x" \notin {"i", "CF", "ZF"} /\ pc % 3 # 1
      BY <1>19, LocationsAre
    <3> QED BY <1>3, <1>12, <2>1, <3>1
  <2>7. pc' % 3 # 1
    BY <2>2
  <2> QED BY <1>1, <2>2, <2>5, <2>6, <2>7 DEF TripInv
<1>20. pc % 3 \in {0, 1, 2} /\ (pc < 96 \/ pc = 96)
  BY ONLY <1>1, <1>4
<1> QED BY <1>16, <1>17, <1>18, <1>19, <1>20

\* A round trip that waits for its store costs what TripInv says.
THEOREM TripCost == Spec => []TripInv
<1>1. Init => TripInv
  BY DEF Init, TripInv
<1>2. ASSUME TypeOK, Stopped, TripInv, [Next]_vars PROVE TripInv'
  <2>1. CASE UNCHANGED vars
    BY <1>2, <2>1 DEF vars, TripInv, TripLate, TripEarly, RoundTrips, First
  <2>2. SUFFICES ASSUME Next, row.kind = "lat", row.file = "storefwd",
                        row.name = "E1" => core.aliases
                 PROVE  TripInv'
    <3>1. (row' = row /\ core' = core) \/ UNCHANGED vars
      BY <1>2 DEF Next, Execute, EndEmpty, EndBench
    <3> QED BY <1>2, <2>1, <3>1 DEF TripInv
  <2>3. TripRow(row)
    BY <1>2, <2>2, RowShapes DEF TypeOK, StreamRow, ChainedRow
  <2>4. First \in Nat /\ core.lat["and"] \in Nat
    BY <1>2, <2>2, <2>3, LatShows, TripIs3, MaxLatAssumption
  <2>5. RoundTrips(0) = 0 /\ RoundTrips(96) \in Nat
    BY <2>4, RoundTripsAre
  <2>6. PICK all \in Nat : all = RoundTrips(96)
    BY <2>5
  <2>7. CASE Execute
    <3>1. phase = "bench" => TripInv'
      BY <1>2, <2>2, <2>3, <2>7, TripStep
    <3>2. phase' = phase /\ phase \in {"empty", "bench"}
      BY <1>2, <2>7, Advance
    <3> QED BY <3>1, <3>2 DEF TripInv
  <2>8. CASE EndEmpty
    <3>1. /\ row' = row /\ core' = core /\ phase' = "bench" /\ iter' = 0 /\ pc' = 0
          /\ ready' = AtRest /\ free' = Idle(core.pipes)
      BY <2>8 DEF EndEmpty
    <3>2. First' = First
      BY <3>1, TripSame
    <3>3. TripEarly' = 0 /\ TripLate' = 0
      <4>1. TripEarly' = 0 * all + 0
        BY ONLY <2>5, <2>6, <3>1, <3>2 DEF TripEarly, RoundTrips
      <4>2. TripEarly' = 0
        BY ONLY <4>1, all \in Nat
      <4> QED BY ONLY <3>1, <4>2 DEF TripLate
    <3>4. /\ \A loc \in Locations : ready'[loc] = 0
          /\ \A u \in Units, p \in 1..core.pipes : free'[u][p] = 0
      BY <1>2, <3>1, Begin
    <3>5. 0 % 3 # 1 /\ "x" \in Locations
      BY LocationsAre
    <3> QED BY ONLY <3>1, <3>3, <3>4, <3>5 DEF TripInv
  <2>9. CASE EndBench
    <3>1. /\ row' = row /\ core' = core /\ phase = "bench" /\ phase' = "done" /\ iter = Iters
          /\ elapsed' = Cycles
      BY <1>2, <2>9, LoopOver DEF EndBench
    <3>2. pc = 0 /\ Iters \in Nat /\ 0 % 3 # 1
      BY <1>2, <3>1, ItersAssumption DEF Stopped
    <3>3. RoundTrips(96)' = RoundTrips(96)
      <4>1. First' = First
        BY <3>1, TripSame
      <4> QED BY ONLY <3>1, <4>1 DEF RoundTrips
    <3>4. PICK e \in Nat : e = Iters * all
      BY ONLY <3>2, all \in Nat
    <3>5. TripEarly = e /\ TripLate = Iters + e
      <4>1. TripEarly = e + 0
        BY ONLY <2>5, <2>6, <3>1, <3>2, <3>4 DEF TripEarly
      <4> QED BY ONLY <3>1, <4>1, e \in Nat DEF TripLate
    <3>6. /\ \A loc \in Locations : ready[loc] <= TripLate
          /\ \A u \in Units, p \in 1..core.pipes : free[u][p] <= TripLate
          /\ ready["x"] >= TripEarly
      BY <1>2, <2>2, <3>1, <3>2 DEF TripInv
    <3>7. PICK t \in Nat : t = Iters + e
      BY <3>2
    <3>8. Cycles \in 0..t
      <4>1. Bounded(t)
        BY ONLY <3>5, <3>6, <3>7 DEF Bounded
      <4> QED BY <1>2, <4>1, BoundedCycles
    <3>9. Cycles >= ready["x"] /\ ready["x"] \in Nat
      BY <1>2, CyclesAre, LocationsAre DEF TypeOK
    <3>10. Cycles \in e..t
      BY ONLY <3>5, <3>6, <3>8, <3>9, e \in Nat, t \in Nat
    <3>11. Iters * (all + 1) = t
      BY ONLY <3>2, <3>4, <3>7, all \in Nat
    <3> QED BY ONLY <2>6, <3>1, <3>3, <3>4, <3>10, <3>11 DEF TripInv
  <2> QED BY <2>2, <2>7, <2>8, <2>9 DEF Next
<1> QED BY <1>1, <1>2, TypeCorrect, StopsAtFirst, PTL DEF Spec

\* What is left when the masks of the empty loop are subtracted.
LEMMA TripArithmetic ==
  ASSUME NEW n \in Nat, NEW s \in Nat, NEW m \in Nat, NEW top \in Nat,
         NEW el \in Nat, NEW em \in Nat,
         el >= n * (32 * (s + m)), el <= n * (32 * (s + m) + 1),
         em >= n * (32 * m), em <= n * (32 * m + 1)
  PROVE  Abs(2 * (el - em) - (n * 32) * (s + s)) <= 2 * (n * (top + 1))
<1>1. PICK ns \in Nat : ns = n * s
  OBVIOUS
<1>2. PICK nm \in Nat : nm = n * m
  OBVIOUS
<1>3. PICK nt \in Nat : nt = n * top
  OBVIOUS
<1>4. /\ n * (32 * (s + m)) = 32 * ns + 32 * nm
      /\ n * (32 * (s + m) + 1) = 32 * ns + 32 * nm + n
      /\ n * (32 * m) = 32 * nm /\ n * (32 * m + 1) = 32 * nm + n
      /\ (n * 32) * (s + s) = 64 * ns
      /\ 2 * (n * (top + 1)) = 2 * nt + 2 * n
  BY <1>1, <1>2, <1>3
<1> DEFINE d == 2 * (el - em) - (n * 32) * (s + s)
<1>5. d \in Int /\ d <= 2 * n /\ d >= -(2 * n)
  BY <1>4
<1> HIDE DEF d
<1>6. Abs(d) <= 2 * nt + 2 * n
  BY ONLY <1>5, nt \in Nat, n \in Nat DEF Abs
<1> QED BY ONLY <1>4, <1>6 DEF d

\* So a round trip prints the latency that its row promises.
LEMMA TripShown ==
  ASSUME TypeOK, EmptyInv, TripInv, row.file = "storefwd"
  PROVE  LatencyShown
<1>1. SUFFICES ASSUME phase = "done", row.kind = "lat", row.name = "E1" => core.aliases
               PROVE  Abs(2 * Net - Divisor * (First + Last)) <= 2 * Slack
  BY DEF LatencyShown
<1>2. TripRow(row)
  BY RowShapes DEF TypeOK, StreamRow, ChainedRow
<1>3. PICK top \in Nat : top = MaxLat
  BY MaxLatAssumption
<1>4. PICK s \in Nat : s = First /\ s = Last
  BY <1>1, <1>2, LatShows
<1>5. PICK m \in Nat : m = core.lat["and"]
  BY <1>2, TripIs3, MaxLatAssumption
<1>6. RoundTrips(96) = 32 * (s + m)
  BY <1>4, <1>5, RoundTripsAre
<1>7. PICK n \in Nat : n = Iters
  BY ItersAssumption
<1>8. elapsed \in n * (32 * (s + m)) .. n * (32 * (s + m) + 1)
  BY <1>1, <1>6, <1>7 DEF TripInv
<1>9. empty \in n * (32 * m) .. n * (32 * m + 1)
  BY <1>1, <1>5, <1>7 DEF EmptyInv
<1>10. PICK el \in Nat : el = elapsed
  BY DEF TypeOK
<1>11. PICK em \in Nat : em = empty
  BY DEF TypeOK
<1>12. /\ el >= n * (32 * (s + m)) /\ el <= n * (32 * (s + m) + 1)
       /\ em >= n * (32 * m) /\ em <= n * (32 * m + 1)
  BY ONLY <1>8, <1>9, <1>10, <1>11
<1>13. Abs(2 * (el - em) - (n * 32) * (s + s)) <= 2 * (n * (top + 1))
  BY <1>12, TripArithmetic
<1>14. row.ops = 32
  BY <1>2 DEF TripRow
<1> QED BY ONLY <1>3, <1>4, <1>7, <1>10, <1>11, <1>13, <1>14 DEF Net, Divisor, Slack

\* A latency row of any harness prints the latency of the path that it is named for,
\* for every core and any number of iterations: by the chain through its copies, or by
\* the round trips through memory.
THEOREM RowsShowLatency == Spec => []LatencyShown
<1>1. TypeOK /\ EmptyInv /\ ChainInv /\ TripInv => LatencyShown
  BY ChainShown, TripShown
<1> QED BY <1>1, TypeCorrect, EmptyCost, ChainCost, TripCost, PTL

-------------------------------------------------------------------------------
(* Loads that wait for no store. *)

\* The position in a round trip, and in the next.
LEMMA ThirdsOf ==
  ASSUME NEW n \in Nat
  PROVE  /\ n \div 3 \in Nat /\ n % 3 \in {0, 1, 2}
         /\ (n + 1) \div 3 = n \div 3 + IF n % 3 = 2 THEN 1 ELSE 0
         /\ (n + 1) % 3 = IF n % 3 = 2 THEN 0 ELSE (n % 3) + 1
<1>1. PICK h \in Nat : n = 3 * h \/ n = 3 * h + 1 \/ n = 3 * h + 2
  BY Thirds
<1>2. CASE n = 3 * h
  <2>1. n % 3 = 0 /\ n \div 3 = h /\ (n + 1) % 3 = 1 /\ (n + 1) \div 3 = h
    BY <1>2
  <2> QED BY ONLY <2>1, h \in Nat
<1>3. CASE n = 3 * h + 1
  <2>1. n % 3 = 1 /\ n \div 3 = h /\ (n + 1) % 3 = 2 /\ (n + 1) \div 3 = h
    BY <1>3
  <2> QED BY ONLY <2>1, h \in Nat
<1>4. CASE n = 3 * h + 2
  <2>1. n % 3 = 2 /\ n \div 3 = h /\ (n + 1) % 3 = 0 /\ (n + 1) \div 3 = h + 1
    BY <1>4
  <2> QED BY ONLY <2>1, h \in Nat
<1> QED BY <1>1, <1>2, <1>3, <1>4

\* An instruction of a round trip whose load does not wait keeps what UnchainedInv says.
LEMMA UnchainedStep ==
  ASSUME TypeOK, UnchainedInv, TripRow(row), Unchained, phase = "bench", Execute
  PROVE  UnchainedInv'
<1>1. /\ row' = row /\ core' = core /\ phase' = "bench" /\ iter \in Nat /\ pc \in Nat
      /\ pc < CodeLength
      /\ \/ pc + 1 < CodeLength /\ pc' = pc + 1 /\ iter' = iter
         \/ pc + 1 = CodeLength /\ pc' = 0 /\ iter' = iter + 1
  BY Advance
<1>2. PICK insn : insn = NextInstruction
  OBVIOUS
<1>3. /\ GoodInsn(row, insn) /\ Timed(insn) /\ Release(insn) \in Nat
      /\ \A loc \in Locations :
           ready'[loc] = IF loc \in insn.writes THEN Finish(insn) ELSE ready[loc]
      /\ \A u \in Units, p \in 1..core.pipes :
           free'[u][p] = IF u = insn.unit /\ p = FirstFree(u) THEN Release(insn) ELSE free[u][p]
      /\ stored' = IF insn.stores # {} THEN insn.stores ELSE stored
  BY <1>2, Executed
<1>4. /\ CodeLength = 97
      /\ pc < 96 /\ pc % 3 = 0 => insn = row.body[1]
      /\ pc < 96 /\ pc % 3 = 1 => insn = row.body[2]
      /\ pc < 96 /\ pc % 3 = 2 => insn = Mask
      /\ pc = 96 => insn = LoopEnd
  BY <1>2, TripNext
<1>5. PICK m \in Nat \ {0} : m = core.lat["and"]
  BY TripIs3, MaxLatAssumption
<1>6. PICK t \in Nat : t = LoadsBegun
  <2>1. pc \div 3 \in Nat /\ iter * 33 \in Nat
    BY <1>1, ThirdsOf
  <2> QED BY ONLY <2>1 DEF LoadsBegun
<1>7. /\ \A loc \in Locations : ready[loc] \in Nat
      /\ \A u \in Units, p \in 1..core.pipes : free[u][p] \in Nat
  BY DEF TypeOK
<1>8. /\ ready["x"] <= t + IF pc % 3 = 2 THEN 1 ELSE m
      /\ ready["mem"] <= t + m
      /\ ready["k"] = 0
      /\ \A loc \in Locations \ {"x", "mem"} : ready[loc] <= t + 1
      /\ \A p \in 1..core.pipes :
           /\ free["load"][p] <= t + IF pc % 3 = 2 THEN 1 ELSE 0
           /\ free["store"][p] <= t + m + IF pc % 3 = 0 THEN 0 ELSE 1
           /\ free["alu"][p] <= t + 1
      /\ pc % 3 = 1 => stored = row.body[1].stores
  BY <1>5, <1>6 DEF UnchainedInv, TripRow
<1>9. {"x", "mem", "k", "i"} \subseteq Locations /\ Units = {"alu", "fp", "load", "store"}
  BY LocationsAre DEF Units
<1>10. FirstFree(insn.unit) \in 1..core.pipes /\ Finish(insn) \in Nat
  BY <1>3 DEF Timed
<1>11. ASSUME pc < 96
       PROVE  /\ pc' = pc + 1 /\ iter' = iter
              /\ LoadsBegun' = t + IF pc % 3 = 2 THEN 1 ELSE 0
              /\ pc' % 3 = IF pc % 3 = 2 THEN 0 ELSE (pc % 3) + 1
  <2>1. pc' = pc + 1 /\ iter' = iter
    BY ONLY <1>1, <1>4, <1>11
  <2>2. PICK q \in Nat : q = pc \div 3
    BY <1>1, ThirdsOf
  <2>3. PICK x \in Nat : x = iter * 33
    BY <1>1
  <2>4. /\ (pc + 1) \div 3 = q + IF pc % 3 = 2 THEN 1 ELSE 0
        /\ (pc + 1) % 3 = IF pc % 3 = 2 THEN 0 ELSE (pc % 3) + 1
    BY <1>1, <2>2, ThirdsOf
  <2>5. t = x + q /\ LoadsBegun' = x + (q + IF pc % 3 = 2 THEN 1 ELSE 0)
    BY ONLY <1>6, <2>1, <2>2, <2>3, <2>4 DEF LoadsBegun
  <2> QED BY ONLY <2>1, <2>4, <2>5, x \in Nat, q \in Nat
<1>12. \A loc \in Locations \ insn.writes : ready'[loc] = ready[loc]
  BY <1>3
<1>13. \A loc \in insn.writes : ready'[loc] = Finish(insn)
  BY <1>3 DEF GoodInsn, Insn
<1>14. CASE pc < 96 /\ pc % 3 = 0
  <2>1. /\ insn = row.body[1] /\ insn.unit = "store" /\ insn.writes = {"mem"} /\ insn.stores # {}
        /\ Waits(insn) = {<<"x", "data">>} /\ Own(insn) = 0
    BY <1>4, <1>14, TripIs3
  <2>2. LoadsBegun' = t /\ pc' % 3 = 1
    BY ONLY <1>6, <1>11, <1>14
  <2>3. Finish(insn) <= t + m
    <3>1. free[insn.unit][FirstFree(insn.unit)] + Own(insn) <= t + m
      BY <1>7, <1>8, <1>9, <1>10, <1>14, <2>1
    <3>2. \A r \in Waits(insn) : ready[r[1]] + Latency(r[2]) <= t + m
      <4>1. Latency("data") = 0
        BY LatencyIs
      <4>2. ready["x"] + 0 <= t + m
        BY <1>7, <1>8, <1>9, <1>14
      <4> QED BY <2>1, <4>1, <4>2
    <3> QED BY <1>3, <3>1, <3>2, FinishBy
  <2>4. Release(insn) <= t + m + 1
    <3>1. Busy(insn) = 1
      BY <2>1 DEF Busy
    <3> QED BY <1>10, <2>1, <2>3, <3>1 DEF Release
  <2>5. /\ ready'["x"] <= t + m /\ ready'["mem"] <= t + m /\ ready'["k"] = 0
        /\ \A loc \in Locations \ {"x", "mem"} : ready'[loc] <= t + 1
    BY <1>8, <1>9, <1>12, <1>13, <1>14, <2>1, <2>3
  <2>6. \A p \in 1..core.pipes :
          /\ free'["load"][p] <= t + 0 /\ free'["store"][p] <= t + m + 1 /\ free'["alu"][p] <= t + 1
    <3>1. \A p \in 1..core.pipes :
            /\ free'["load"][p] = free["load"][p] /\ free'["alu"][p] = free["alu"][p]
            /\ free'["store"][p] \in {Release(insn), free["store"][p]}
      BY <1>3, <1>9, <2>1
    <3> QED BY <1>7, <1>8, <1>9, <1>14, <2>4, <3>1
  <2>7. stored' = row.body[1].stores
    BY <1>3, <2>1
  <2> QED BY ONLY <1>1, <1>5, <2>2, <2>5, <2>6, <2>7 DEF UnchainedInv
<1>15. CASE pc < 96 /\ pc % 3 = 1
  <2>1. insn = row.body[2] /\ insn.unit = "load" /\ insn.writes = {"x"} /\ insn.stores = {}
    BY <1>4, <1>15, TripIs3
  <2>2. Waits(insn) = {<<"k", "one">>} /\ Own(insn) = 1
    BY <1>8, <1>15, <2>1, Forwarding
  <2>3. LoadsBegun' = t /\ pc' % 3 = 2
    BY ONLY <1>6, <1>11, <1>15
  <2>4. Finish(insn) <= t + 1
    <3>1. free[insn.unit][FirstFree(insn.unit)] + Own(insn) <= t + 1
      BY <1>7, <1>8, <1>9, <1>10, <1>15, <2>1, <2>2
    <3>2. \A r \in Waits(insn) : ready[r[1]] + Latency(r[2]) <= t + 1
      <4>1. Latency("one") = 1
        BY LatencyIs
      <4>2. ready["k"] + 1 <= t + 1
        BY <1>8
      <4> QED BY <2>2, <4>1, <4>2
    <3> QED BY <1>3, <3>1, <3>2, FinishBy
  <2>5. Release(insn) <= t + 1
    <3>1. Busy(insn) = 1
      BY <2>1 DEF Busy
    <3> QED BY <1>10, <2>2, <2>4, <3>1 DEF Release
  <2>6. /\ ready'["x"] <= t + 1 /\ ready'["mem"] <= t + m /\ ready'["k"] = 0
        /\ \A loc \in Locations \ {"x", "mem"} : ready'[loc] <= t + 1
    BY <1>8, <1>9, <1>12, <1>13, <2>1, <2>4
  <2>7. \A p \in 1..core.pipes :
          /\ free'["load"][p] <= t + 1 /\ free'["store"][p] <= t + m + 1 /\ free'["alu"][p] <= t + 1
    <3>1. \A p \in 1..core.pipes :
            /\ free'["store"][p] = free["store"][p] /\ free'["alu"][p] = free["alu"][p]
            /\ free'["load"][p] \in {Release(insn), free["load"][p]}
      BY <1>3, <1>9, <2>1
    <3> QED BY <1>7, <1>8, <1>9, <1>15, <2>5, <3>1
  <2> QED BY ONLY <1>1, <1>5, <2>3, <2>6, <2>7 DEF UnchainedInv
<1>16. CASE pc < 96 /\ pc % 3 = 2
  <2>1. /\ insn = Mask /\ Own(insn) = m /\ insn.writes = {"x"} /\ insn.unit = "alu"
    BY <1>4, <1>5, <1>16, TripIs3
  <2>2. LoadsBegun' = t + 1 /\ pc' % 3 = 0
    BY ONLY <1>6, <1>11, <1>16
  <2>3. Finish(insn) <= t + 1 + m
    <3>1. free[insn.unit][FirstFree(insn.unit)] + Own(insn) <= t + 1 + m
      BY <1>7, <1>8, <1>9, <1>10, <2>1
    <3>2. \A r \in Waits(insn) : ready[r[1]] + Latency(r[2]) <= t + 1 + m
      <4>1. Mask.reads = {"x"} \X {"and"} /\ Mask.loads = {}
        BY DEF Mask, Self, Op
      <4>2. \A r \in Waits(insn) : r[1] = "x" /\ r[2] = "and"
        BY <2>1, <4>1, PlainWaits
      <4>3. Latency("and") = m
        BY <1>5, TripIs3
      <4>4. ready["x"] + m <= t + 1 + m
        BY <1>7, <1>8, <1>9, <1>16
      <4> QED BY ONLY <4>2, <4>3, <4>4
    <3> QED BY <1>3, <3>1, <3>2, FinishBy
  <2>4. Release(insn) <= t + 2
    <3>1. Busy(insn) = 1
      BY <2>1 DEF Busy
    <3> QED BY <1>10, <2>1, <2>3, <3>1 DEF Release
  <2>5. /\ ready'["x"] <= t + 1 + m /\ ready'["mem"] <= t + 1 + m /\ ready'["k"] = 0
        /\ \A loc \in Locations \ {"x", "mem"} : ready'[loc] <= t + 1 + 1
    BY <1>7, <1>8, <1>9, <1>12, <1>13, <2>1, <2>3
  <2>6. \A p \in 1..core.pipes :
          /\ free'["load"][p] <= t + 1 + 0 /\ free'["store"][p] <= t + 1 + m + 0
          /\ free'["alu"][p] <= t + 1 + 1
    <3>1. \A p \in 1..core.pipes :
            /\ free'["store"][p] = free["store"][p] /\ free'["load"][p] = free["load"][p]
            /\ free'["alu"][p] \in {Release(insn), free["alu"][p]}
      BY <1>3, <1>9, <2>1
    <3> QED BY <1>7, <1>8, <1>9, <1>16, <2>4, <3>1
  <2> QED BY ONLY <1>1, <1>5, <2>2, <2>5, <2>6 DEF UnchainedInv
<1>17. CASE pc = 96
  <2>1. /\ insn = LoopEnd /\ Own(insn) = 1 /\ insn.writes = {"i", "CF", "ZF"} /\ insn.unit = "alu"
        /\ Waits(insn) = {<<"i", "one">>}
    BY <1>4, <1>17, LoopEndIs
  <2>2. LoadsBegun' = t + 1 /\ pc' % 3 = 0 /\ pc % 3 = 0
    <3>1. pc' = 0 /\ iter' = iter + 1
      BY ONLY <1>1, <1>4, <1>17
    <3>2. 96 \div 3 = 32 /\ 0 \div 3 = 0 /\ 0 % 3 = 0 /\ 96 % 3 = 0
      OBVIOUS
    <3>3. t = iter * 33 + 32 /\ LoadsBegun' = (iter + 1) * 33 + 0
      BY ONLY <1>6, <1>17, <3>1, <3>2 DEF LoadsBegun
    <3> QED BY ONLY <1>1, <1>17, <3>1, <3>2, <3>3
  <2>3. Finish(insn) <= t + 2
    <3>1. free[insn.unit][FirstFree(insn.unit)] + Own(insn) <= t + 2
      BY <1>7, <1>8, <1>9, <1>10, <2>1
    <3>2. \A r \in Waits(insn) : ready[r[1]] + Latency(r[2]) <= t + 2
      <4>1. Latency("one") = 1
        BY LatencyIs
      <4>2. ready["i"] + 1 <= t + 2
        BY <1>7, <1>8, <1>9
      <4> QED BY <2>1, <4>1, <4>2
    <3> QED BY <1>3, <3>1, <3>2, FinishBy
  <2>4. Release(insn) <= t + 2
    <3>1. Busy(insn) = 1
      BY <2>1 DEF Busy
    <3> QED BY <1>10, <2>1, <2>3, <3>1 DEF Release
  <2>5. /\ ready'["x"] <= t + 1 + m /\ ready'["mem"] <= t + 1 + m /\ ready'["k"] = 0
        /\ \A loc \in Locations \ {"x", "mem"} : ready'[loc] <= t + 1 + 1
    BY <1>7, <1>8, <1>9, <1>12, <1>13, <2>1, <2>2, <2>3
  <2>6. \A p \in 1..core.pipes :
          /\ free'["load"][p] <= t + 1 + 0 /\ free'["store"][p] <= t + 1 + m + 0
          /\ free'["alu"][p] <= t + 1 + 1
    <3>1. \A p \in 1..core.pipes :
            /\ free'["store"][p] = free["store"][p] /\ free'["load"][p] = free["load"][p]
            /\ free'["alu"][p] \in {Release(insn), free["alu"][p]}
      BY <1>3, <1>9, <2>1
    <3> QED BY <1>7, <1>8, <1>9, <2>2, <2>4, <3>1
  <2> QED BY ONLY <1>1, <1>5, <2>2, <2>5, <2>6 DEF UnchainedInv
<1>18. pc % 3 \in {0, 1, 2} /\ (pc < 96 \/ pc = 96)
  BY ONLY <1>1, <1>4
<1> QED BY <1>14, <1>15, <1>16, <1>17, <1>18

\* Loads that wait for no store cost what UnchainedInv says.
THEOREM UnchainedCost == Spec => []UnchainedInv
<1>1. Init => UnchainedInv
  BY DEF Init, UnchainedInv
<1>2. ASSUME TypeOK, Stopped, UnchainedInv, [Next]_vars PROVE UnchainedInv'
  <2>1. CASE UNCHANGED vars
    BY <1>2, <2>1 DEF vars, UnchainedInv, Unchained, LoadsBegun
  <2>2. SUFFICES ASSUME Next, row.file = "storefwd", Unchained
                 PROVE  UnchainedInv'
    <3>1. (row' = row /\ core' = core) \/ UNCHANGED vars
      BY <1>2 DEF Next, Execute, EndEmpty, EndBench
    <3> QED BY <1>2, <2>1, <3>1 DEF UnchainedInv, Unchained
  <2>3. TripRow(row)
    BY <1>2, <2>2, RowShapes DEF TypeOK, StreamRow, ChainedRow
  <2>4. PICK m \in Nat \ {0} : m = core.lat["and"]
    BY <1>2, <2>3, TripIs3, MaxLatAssumption
  <2>5. CASE Execute
    <3>1. phase = "bench" => UnchainedInv'
      BY <1>2, <2>2, <2>3, <2>5, UnchainedStep
    <3>2. phase' = phase /\ phase \in {"empty", "bench"}
      BY <1>2, <2>5, Advance
    <3> QED BY <3>1, <3>2 DEF UnchainedInv
  <2>6. CASE EndEmpty
    <3>1. /\ row' = row /\ core' = core /\ phase' = "bench" /\ iter' = 0 /\ pc' = 0
          /\ ready' = AtRest /\ free' = Idle(core.pipes)
      BY <2>6 DEF EndEmpty
    <3>2. 0 % 3 = 0 /\ 0 \div 3 = 0 /\ 0 * 33 + 0 = 0
      OBVIOUS
    <3>3. LoadsBegun' = 0
      BY ONLY <3>1, <3>2 DEF LoadsBegun
    <3>4. /\ \A loc \in Locations : ready'[loc] = 0
          /\ \A u \in Units, p \in 1..core.pipes : free'[u][p] = 0
      BY <1>2, <3>1, Begin
    <3>5. {"x", "mem", "k"} \subseteq Locations /\ {"load", "store", "alu"} \subseteq Units
      BY LocationsAre DEF Units
    <3>6. /\ ready'["x"] = 0 /\ ready'["mem"] = 0 /\ ready'["k"] = 0
          /\ \A p \in 1..core.pipes :
               free'["load"][p] = 0 /\ free'["store"][p] = 0 /\ free'["alu"][p] = 0
      BY ONLY <3>4, <3>5
    <3> QED BY ONLY <2>4, <3>1, <3>2, <3>3, <3>4, <3>6 DEF UnchainedInv
  <2>7. CASE EndBench
    <3>1. /\ row' = row /\ core' = core /\ phase = "bench" /\ phase' = "done" /\ iter = Iters
          /\ elapsed' = Cycles
      BY <1>2, <2>7, LoopOver DEF EndBench
    <3>2. pc = 0 /\ Iters \in Nat /\ 0 % 3 = 0 /\ 0 \div 3 = 0
      BY <1>2, <3>1, ItersAssumption DEF Stopped
    <3>3. LoadsBegun = Iters * 33
      <4>1. LoadsBegun = Iters * 33 + 0
        BY ONLY <3>1, <3>2 DEF LoadsBegun
      <4> QED BY ONLY <3>2, <4>1
    <3>4. PICK t \in Nat : t = Iters * 33
      BY <3>2
    <3>5. /\ ready["x"] <= t + m /\ ready["mem"] <= t + m
          /\ \A loc \in Locations \ {"x", "mem"} : ready[loc] <= t + 1
      BY <1>2, <2>2, <2>4, <3>1, <3>2, <3>3, <3>4 DEF UnchainedInv
    <3>6. Cycles \in Nat /\ \E loc \in Locations : Cycles = ready[loc]
      BY <1>2, CyclesAre DEF TypeOK
    <3>7. Cycles <= t + m
      BY <3>5, <3>6
    <3> QED BY ONLY <2>4, <3>1, <3>4, <3>7 DEF UnchainedInv
  <2> QED BY <2>2, <2>5, <2>6, <2>7 DEF Next
<1> QED BY <1>1, <1>2, TypeCorrect, StopsAtFirst, PTL DEF Spec

\* What is left of a loop without a chain when the masks are subtracted.
LEMMA UnchainedArithmetic ==
  ASSUME NEW n \in Nat \ {0}, NEW m \in Nat \ {0}, NEW top \in Nat, m <= top,
         NEW el \in Nat, NEW em \in Nat, el <= n * 33 + m, em >= n * (32 * m)
  PROVE  el - em <= n * (top + 1)
<1>1. PICK k \in Nat : m = k + 1
  <2>1. m - 1 \in Nat /\ m = (m - 1) + 1
    OBVIOUS
  <2> QED BY <2>1
<1>2. PICK nk \in Nat : nk = n * k
  OBVIOUS
<1>3. n * (32 * m) = 32 * nk + 32 * n
  BY <1>1, <1>2
<1>4. el - em <= n + m - 32 * nk
  BY ONLY <1>2, <1>3, n \in Nat, m \in Nat, el \in Nat, em \in Nat, nk \in Nat,
          el <= n * 33 + m, em >= n * (32 * m)
<1>5. n * (top + 1) = n * top + n /\ n * top \in Nat
  OBVIOUS
<1>6. n * top >= top
  <2>1. \A x, y \in Nat : x # 0 => x * y >= y
    BY ONLY TRUE
  <2> QED BY <2>1
<1> QED BY ONLY <1>4, <1>5, <1>6, n \in Nat, m \in Nat, top \in Nat, m <= top, nk \in Nat,
           el \in Nat, em \in Nat

\* Where a load does not wait for the store - apart from it, or 4096 bytes away on a core
\* that compares all address bits - the row prints nothing, for every such core.
THEOREM UnchainedRowsShowNothing == Spec => []UnchainedShowsNothing
<1>1. ASSUME TypeOK, EmptyInv, UnchainedInv PROVE UnchainedShowsNothing
  <2>1. SUFFICES ASSUME phase = "done", row.file = "storefwd", Unchained
                 PROVE  Net <= Slack
    BY DEF UnchainedShowsNothing
  <2>2. TripRow(row)
    BY <1>1, <2>1, RowShapes DEF TypeOK, StreamRow, ChainedRow
  <2>3. PICK m \in Nat \ {0} : m = core.lat["and"] /\ m <= MaxLat
    BY <1>1, <2>2, TripIs3, MaxLatAssumption
  <2>4. PICK n \in Nat \ {0} : n = Iters
    BY ItersAssumption
  <2>5. PICK top \in Nat : top = MaxLat
    BY MaxLatAssumption
  <2>6. PICK el \in Nat : el = elapsed
    BY <1>1 DEF TypeOK
  <2>7. PICK em \in Nat : em = empty
    BY <1>1 DEF TypeOK
  <2>8. el <= n * 33 + m
    BY <1>1, <2>1, <2>3, <2>4, <2>6 DEF UnchainedInv
  <2>9. em >= n * (32 * m)
    <3>1. empty \in n * (32 * m) .. n * (32 * m + 1)
      BY <1>1, <2>1, <2>3, <2>4 DEF EmptyInv
    <3> QED BY ONLY <2>7, <3>1
  <2>10. el - em <= n * (top + 1)
    BY <2>3, <2>5, <2>8, <2>9, UnchainedArithmetic
  <2> QED BY ONLY <2>4, <2>5, <2>6, <2>7, <2>10 DEF Net, Slack
<1> QED BY <1>1, TypeCorrect, EmptyCost, UnchainedCost, PTL

-------------------------------------------------------------------------------
(* Independent streams. *)

\* The registers of the streams are eight others than those of everything else.
LEMMA EightRegisters ==
  /\ \A j \in 1..8 : Eight[j] \in Locations \ {"x", "i", "k", "CF", "ZF", "mem"}
  /\ \A j, l \in 1..8 : Eight[j] = Eight[l] => j = l
  /\ Eight[1] = "a" /\ DOMAIN Eight = 1..8
<1>1. \A j \in 1..8 : j = 1 \/ j = 2 \/ j = 3 \/ j = 4 \/ j = 5 \/ j = 6 \/ j = 7 \/ j = 8
  OBVIOUS
<1>2. /\ Eight[1] = "a" /\ Eight[2] = "b" /\ Eight[3] = "c" /\ Eight[4] = "d"
      /\ Eight[5] = "e" /\ Eight[6] = "f" /\ Eight[7] = "g" /\ Eight[8] = "h"
  BY DEF Eight
<1>3. \A j \in 1..8 : Eight[j] \in Locations \ {"x", "i", "k", "CF", "ZF", "mem"}
  BY <1>1, <1>2, LocationsAre
<1>4. \A j, l \in 1..8 : Eight[j] = Eight[l] => j = l
  BY <1>1, <1>2
<1> QED BY <1>2, <1>3, <1>4, EightAre

\* The instructions of independent streams: all on one unit, each on its register, and
\* all equally slow.  Each reads its own register, or none reads what another wrote.
LEMMA StreamIs ==
  ASSUME TypeOK, StreamRow(row)
  PROVE  /\ StreamUnit \in {"alu", "fp", "load"}
         /\ Own(row.body[1]) \in 1..MaxLat
         /\ \A j \in 1..Len(row.body) :
              /\ row.body[j].unit = StreamUnit /\ row.body[j].writes = {Eight[j]}
              /\ Own(row.body[j]) = Own(row.body[1]) /\ Busy(row.body[j]) = Occupied
              /\ IF Regained = 0 THEN \A r \in Waits(row.body[j]) : r[1] = "k"
                 ELSE \A r \in Waits(row.body[j]) : r[1] = Eight[j]
         /\ Regained \in {0, Own(row.body[1])} /\ Occupied \in {1, Own(row.body[1])}
         /\ StreamUnit # "fp" => Occupied = 1
<1> DEFINE n == Len(row.body)
<1>1. PICK unit \in {"alu", "fp", "load"}, paths \in (SUBSET Plain) \ {{}}, from \in {"own", "k"} :
        \A j \in 1..n :
          row.body[j] = Op(unit, {IF from = "k" THEN "k" ELSE Eight[j]} \X paths, {Eight[j]})
  BY DEF StreamRow
<1>2. n \in {4, 8} /\ 1 \in 1..n /\ row.tail = <<>> /\ row.shows = <<>> /\ row.body \in Seq(Insn)
      /\ row.tail \in Seq(Insn)
  BY RowSizes DEF StreamRow, TypeOK
<1> DEFINE source(j) == IF from = "k" THEN "k" ELSE Eight[j]
<1>3. \A j \in 1..n : /\ row.body[j].unit = unit /\ row.body[j].writes = {Eight[j]}
                      /\ row.body[j].reads = {source(j)} \X paths /\ row.body[j].loads = {}
                      /\ row.body[j].stores = {}
  <2> SUFFICES ASSUME NEW j \in 1..n
               PROVE  /\ row.body[j].unit = unit /\ row.body[j].writes = {Eight[j]}
                      /\ row.body[j].reads = {source(j)} \X paths /\ row.body[j].loads = {}
                      /\ row.body[j].stores = {}
    OBVIOUS
  <2>1. PICK s : s = source(j)
    OBVIOUS
  <2>2. row.body[j] = Op(unit, {s} \X paths, {Eight[j]})
    BY <1>1, <2>1
  <2> QED BY ONLY <2>1, <2>2 DEF Op
<1>4. \A insn \in Instructions(row) : \E j \in 1..n : insn = row.body[j]
  <2>1. \A j \in 1..Len(row.tail) : FALSE
    BY <1>2
  <2> QED BY <1>2, <2>1, InstructionsAre
<1>5. \A j \in 1..n : row.body[j] \in Instructions(row)
  BY <1>2, InstructionsAre
<1>6. ~UsesMemory(row) /\ Range(row.shows) = {}
  BY <1>2, <1>3, <1>4 DEF UsesMemory, Range
<1>7. UNION { { r[2] : r \in insn.reads } : insn \in Instructions(row) } = paths
  <2>1. ASSUME NEW insn \in Instructions(row) PROVE { r[2] : r \in insn.reads } \subseteq paths
    BY <1>3, <1>4
  <2>2. ASSUME NEW p \in paths PROVE p \in { r[2] : r \in row.body[1].reads }
    <3>1. <<source(1), p>> \in row.body[1].reads /\ <<source(1), p>>[2] = p
      BY <1>2, <1>3
    <3> QED BY <3>1
  <2> QED BY <1>2, <1>5, <2>1, <2>2
<1>8. Paths(row) = paths
  <2>1. paths \cap {"one", "data"} = {}
    BY DEF Plain
  <2> QED BY <1>6, <1>7, <2>1 DEF Paths
<1>9. \A p \in paths : Latency(p) = core.lat[p] /\ core.lat[p] \in 1..MaxLat
  BY <1>8, LatencyIs
<1> DEFINE lats == { core.lat[p] : p \in paths }
<1>10. \E p : p \in paths
  OBVIOUS
<1>11. MaxLat \in Nat /\ lats \in SUBSET (0..MaxLat) /\ lats # {}
  BY <1>9, <1>10, MaxLatAssumption
<1>12. PICK w : w = Max(lats)
  OBVIOUS
<1>13. w \in lats /\ (\A y \in lats : y <= w) /\ w \in 1..MaxLat
  <2> HIDE DEF lats
  <2>1. w \in lats /\ \A y \in lats : y <= w
    BY <1>11, <1>12, MaxIs
  <2>2. lats \subseteq 1..MaxLat
    BY <1>9 DEF lats
  <2> QED BY <2>1, <2>2
<1>14. ASSUME NEW j \in 1..n
       PROVE  /\ Own(row.body[j]) = w /\ \A r \in Waits(row.body[j]) : r[1] = source(j)
              /\ row.body[j].unit = unit /\ row.body[j].writes = {Eight[j]}
  <2>1. Waits(row.body[j]) = {source(j)} \X paths
    BY <1>3, PlainWaits
  <2>2. { Latency(r[2]) : r \in Waits(row.body[j]) } = lats
    <3>1. ASSUME NEW p \in paths PROVE core.lat[p] \in { Latency(r[2]) : r \in Waits(row.body[j]) }
      <4>1. <<source(j), p>> \in Waits(row.body[j]) /\ <<source(j), p>>[2] = p
        BY <2>1
      <4> QED BY <1>9, <4>1
    <3>2. ASSUME NEW r \in Waits(row.body[j]) PROVE Latency(r[2]) \in lats
      BY <1>9, <2>1
    <3> QED BY <3>1, <3>2
  <2>3. \A r \in {source(j)} \X paths : r[1] = source(j)
    OBVIOUS
  <2> QED BY <1>3, <1>12, <2>1, <2>2, <2>3 DEF Own
<1>15. StreamUnit = unit /\ Own(row.body[1]) = w
  BY <1>2, <1>14 DEF StreamUnit
<1>16. Regained = IF from = "k" THEN 0 ELSE w
  <2> DEFINE reads == UNION { insn.reads : insn \in Instructions(row) }
  <2>1. CASE from = "k"
    <3>1. \A r \in reads : r[1] = "k"
      BY <1>3, <1>4, <2>1
    <3>2. Carried = {}
      BY <3>1 DEF Carried
    <3>3. {0} \cup { core.lat[p] : p \in {} } = {0}
      OBVIOUS
    <3>4. Max({0}) = 0
      <4>1. {0} \in SUBSET (0..0) /\ {0} # {} /\ 0 \in Nat
        OBVIOUS
      <4>2. Max({0}) \in {0}
        BY ONLY <4>1, MaxIs
      <4> QED BY <4>2
    <3> QED BY <2>1, <3>2, <3>3, <3>4 DEF Regained
  <2>2. CASE from # "k"
    <3>1. \A j \in 1..n : source(j) = Eight[j] /\ Eight[j] # "k"
      <4>1. \A j \in 1..n : j \in 1..8
        <5>1. PICK m \in {4, 8} : m = n
          BY <1>2
        <5>2. \A j \in 1..m : j \in 1..8
          BY ONLY TRUE
        <5> QED BY <5>1, <5>2
      <4> QED BY <2>2, <4>1, EightRegisters
    <3>2. ASSUME NEW p \in paths PROVE p \in Carried
      <4>1. <<source(1), p>> \in reads /\ <<source(1), p>>[1] # "k" /\ <<source(1), p>>[2] = p
        BY <1>2, <1>3, <1>5, <3>1
      <4> QED BY <4>1 DEF Carried
    <3>3. ASSUME NEW p \in Carried PROVE p \in paths
      BY <1>7, <3>3 DEF Carried
    <3>4. Regained = Max({0} \cup lats)
      <4>1. Carried = paths
        BY <3>2, <3>3
      <4> QED BY <4>1 DEF Regained
    <3> DEFINE S == {0} \cup lats
    <3>5. S \in SUBSET (0..MaxLat) /\ S # {}
      BY <1>11
    <3>6. Max(S) \in S /\ \A y \in S : y <= Max(S)
      <4> HIDE DEF S
      <4> QED BY <1>11, <3>5, MaxIs
    <3>7. Max(S) \in Int /\ w <= Max(S) /\ (Max(S) = 0 \/ Max(S) \in lats)
      BY <1>13, <3>5, <3>6
    <3>8. PICK top : top = Max(S)
      OBVIOUS
    <3>9. top = w
      <4> HIDE DEF lats, S
      <4> QED BY <1>13, <1>11, <3>7, <3>8
    <3> QED BY <2>2, <3>4, <3>8, <3>9
  <2> QED BY <2>1, <2>2
<1>17. core.pipelined \in BOOLEAN /\ (~core.pipelined => unit = "fp")
  <2>1. (\E insn \in Instructions(row) : insn.unit = "fp") => unit = "fp"
    BY <1>3, <1>4
  <2> QED BY <2>1 DEF TypeOK, Cores
<1>18. Occupied = IF core.pipelined THEN 1 ELSE w
  BY <1>8, <1>12 DEF Occupied
<1>19. \A j \in 1..n : Busy(row.body[j]) = Occupied
  BY <1>14, <1>17, <1>18 DEF Busy
<1>20. w # 0 /\ w \in 1..MaxLat
  BY <1>11, <1>13
<1>21. \A j \in 1..n : IF Regained = 0 THEN \A r \in Waits(row.body[j]) : r[1] = "k"
                       ELSE \A r \in Waits(row.body[j]) : r[1] = Eight[j]
  BY <1>14, <1>16, <1>20
<1>22. /\ Regained \in {0, w} /\ Occupied \in {1, w} /\ (unit # "fp" => Occupied = 1)
  BY <1>16, <1>17, <1>18
<1> QED BY <1>14, <1>15, <1>19, <1>20, <1>21, <1>22

\* Which instruction is next, and in which turn: n registers that take turns.
LEMMA Turns ==
  ASSUME NEW n \in {4, 8}, NEW t \in Nat
  PROVE  /\ t % n \in 0..(n - 1) /\ t - (t % n) \in Nat
         /\ (t + 1) % n = IF t % n = n - 1 THEN 0 ELSE (t % n) + 1
         /\ (t + n - 1) \div n \in Nat
         /\ ((t + 1) + n - 1) \div n = ((t + n - 1) \div n) + IF t % n = 0 THEN 1 ELSE 0
         /\ 0 % n = 0 /\ (0 + n - 1) \div n = 0 /\ 64 % n = 0 /\ 512 % n = 0
         /\ n = 4 => (64 + n - 1) \div n = 16
         /\ n = 8 => (64 + n - 1) \div n = 8 /\ (512 + n - 1) \div n = 64
<1>1. CASE n = 4
  <2>1. t % 4 \in 0..3 /\ t = 4 * (t \div 4) + (t % 4) /\ t \div 4 \in Nat
    OBVIOUS
  <2>2. PICK q \in Nat, r \in 0..3 : q = t \div 4 /\ r = t % 4 /\ t = 4 * q + r
    BY <2>1
  <2>3. (t + 1) % 4 = IF r = 3 THEN 0 ELSE r + 1
    BY <2>2
  <2>4. (t + 3) \div 4 = q + IF r = 0 THEN 0 ELSE 1
    BY <2>2
  <2>5. (t + 4) \div 4 = q + 1
    BY <2>2
  <2> QED BY <1>1, <2>2, <2>3, <2>4, <2>5
<1>2. CASE n = 8
  <2>1. t % 8 \in 0..7 /\ t = 8 * (t \div 8) + (t % 8) /\ t \div 8 \in Nat
    OBVIOUS
  <2>2. PICK q \in Nat, r \in 0..7 : q = t \div 8 /\ r = t % 8 /\ t = 8 * q + r
    BY <2>1
  <2>3. (t + 1) % 8 = IF r = 7 THEN 0 ELSE r + 1
    BY <2>2
  <2>4. (t + 7) \div 8 = q + IF r = 0 THEN 0 ELSE 1
    BY <2>2
  <2>5. (t + 8) \div 8 = q + 1
    BY <2>2
  <2> QED BY <1>2, <2>2, <2>3, <2>4, <2>5
<1> QED BY <1>1, <1>2

\* NextOf by the counter alone.
TurnOf(n, t, j) == t - (t % n) + (j - 1) + IF j <= t % n THEN n ELSE 0

\* When the j-th register has its next turn, and how that moves with an instruction.
LEMMA TurnsOf ==
  ASSUME NEW n \in {4, 8}, NEW t \in Nat, NEW j \in 1..n
  PROVE  /\ TurnOf(n, t, j) \in Nat /\ TurnOf(n, 0, j) = j - 1
         /\ t \in {64, 512} => TurnOf(n, t, j) = t + j - 1
         /\ j = (t % n) + 1 => TurnOf(n, t, j) = t /\ TurnOf(n, t + 1, j) = t + n
         /\ j # (t % n) + 1 => TurnOf(n, t + 1, j) = TurnOf(n, t, j)
<1>1. /\ t % n \in 0..(n - 1) /\ t - (t % n) \in Nat
      /\ (t + 1) % n = IF t % n = n - 1 THEN 0 ELSE (t % n) + 1
      /\ 0 % n = 0 /\ 64 % n = 0 /\ 512 % n = 0
  <2>1. CASE n = 4
    <3>1. /\ t % 4 \in 0..3 /\ t - (t % 4) \in Nat
          /\ (t + 1) % 4 = IF t % 4 = 3 THEN 0 ELSE (t % 4) + 1
          /\ 0 % 4 = 0 /\ 64 % 4 = 0 /\ 512 % 4 = 0
      OBVIOUS
    <3> QED BY <2>1, <3>1
  <2>2. CASE n = 8
    <3>1. /\ t % 8 \in 0..7 /\ t - (t % 8) \in Nat
          /\ (t + 1) % 8 = IF t % 8 = 7 THEN 0 ELSE (t % 8) + 1
          /\ 0 % 8 = 0 /\ 64 % 8 = 0 /\ 512 % 8 = 0
      OBVIOUS
    <3> QED BY <2>2, <3>1
  <2> QED BY <2>1, <2>2
<1>2. PICK r \in 0..(n - 1) : r = t % n
  BY <1>1
<1>3. PICK s : s = (t + 1) % n
  OBVIOUS
<1>4. PICK m \in {4, 8} : m = n
  OBVIOUS
<1>5. PICK jj \in 1..m : jj = j
  BY <1>4
<1>6. s = IF r = m - 1 THEN 0 ELSE r + 1
  BY <1>1, <1>2, <1>3, <1>4
<1>7. r \in 0..(m - 1) /\ t - r \in Nat
  BY <1>1, <1>2, <1>4
<1>8. /\ TurnOf(n, t, j) = t - r + (jj - 1) + IF jj <= r THEN m ELSE 0
      /\ TurnOf(n, t + 1, j) = (t + 1) - s + (jj - 1) + IF jj <= s THEN m ELSE 0
      /\ TurnOf(n, 0, j) = 0 - 0 + (jj - 1) + IF jj <= 0 THEN m ELSE 0
  BY <1>1, <1>2, <1>3, <1>4, <1>5 DEF TurnOf
<1>9. t \in {64, 512} => r = 0
  BY <1>1, <1>2
<1>10. PICK x, y, z : x = TurnOf(n, t, j) /\ y = TurnOf(n, t + 1, j) /\ z = TurnOf(n, 0, j)
  OBVIOUS
<1>11. /\ x = t - r + (jj - 1) + IF jj <= r THEN m ELSE 0
       /\ y = (t + 1) - s + (jj - 1) + IF jj <= s THEN m ELSE 0
       /\ z = 0 - 0 + (jj - 1) + IF jj <= 0 THEN m ELSE 0
  BY <1>8, <1>10
<1>12. /\ x \in Nat /\ z = jj - 1
       /\ r = 0 => x = t + jj - 1
       /\ jj = r + 1 => x = t /\ y = t + m
       /\ jj # r + 1 => y = x
  <2>1. /\ t \in Nat /\ m \in Nat /\ m >= 1 /\ r \in Int /\ r >= 0 /\ r <= m - 1 /\ jj \in Int
        /\ jj >= 1 /\ jj <= m /\ t - r >= 0
    BY <1>7
  <2>2. CASE r = m - 1
    BY ONLY <1>6, <1>11, <2>1, <2>2
  <2>3. CASE r # m - 1
    BY ONLY <1>6, <1>11, <2>1, <2>3
  <2> QED BY <2>2, <2>3
<1> QED BY ONLY <1>2, <1>4, <1>5, <1>9, <1>10, <1>12

\* The next instruction of a loop of streams.
LEMMA StreamNext ==
  ASSUME TypeOK, StreamRow(row), phase = "bench"
  PROVE  /\ Len(row.body) \in {4, 8} /\ row.ops \in {64, 512} /\ row.reps \in Nat
         /\ row.ops = Len(row.body) * row.reps /\ CodeLength = row.ops + 1 /\ pc \in 0..row.ops
         /\ (row.ops + Len(row.body) - 1) \div Len(row.body) = row.reps
         /\ pc < row.ops => /\ (pc % Len(row.body)) + 1 \in 1..Len(row.body)
                            /\ NextInstruction = row.body[(pc % Len(row.body)) + 1]
         /\ pc = row.ops => NextInstruction = LoopEnd
<1>1. /\ CodeLength = Copies(row) + Len(row.tail) + 1 /\ pc \in Nat
      /\ NextInstruction = IF pc < Copies(row) THEN row.body[(pc % Len(row.body)) + 1]
                           ELSE IF pc < Copies(row) + Len(row.tail) THEN SetZF
                           ELSE LoopEnd
      /\ pc % Len(row.body) \in 0..(Len(row.body) - 1) /\ pc \in 0..(CodeLength - 1)
  BY BenchCode DEF TypeOK
<1>2. PICK n \in {4, 8}, reps \in {8, 16, 64}, ops \in {64, 512} :
        /\ n = Len(row.body) /\ reps = row.reps /\ ops = row.ops
        /\ ops = n * reps /\ (ops + n - 1) \div n = reps
  <2>1. \A n \in {4, 8} : /\ n = 4 => (64 + n - 1) \div n = 16
                          /\ n = 8 => (64 + n - 1) \div n = 8 /\ (512 + n - 1) \div n = 64
    BY Turns
  <2> QED BY <2>1 DEF StreamRow
<1>3. Copies(row) = ops /\ Len(row.tail) = 0
  BY <1>2 DEF Copies, StreamRow
<1>4. CodeLength = ops + 1
  BY <1>1, <1>2, <1>3
<1>5. pc \in 0..ops
  <2>1. (ops + 1) - 1 = ops
    BY ONLY <1>2
  <2> QED BY <1>1, <1>4, <2>1
<1>6. PICK r \in 0..(n - 1) : r = pc % n
  BY <1>1, <1>2
<1>7. (pc % n) + 1 \in 1..n
  <2>1. n \in {4, 8} /\ r \in 0..(n - 1)
    OBVIOUS
  <2>2. CASE n = 4
    BY ONLY <1>6, <2>1, <2>2
  <2>3. CASE n = 8
    BY ONLY <1>6, <2>1, <2>3
  <2> QED BY <2>1, <2>2, <2>3
<1>8. pc < ops => NextInstruction = row.body[(pc % n) + 1]
  BY <1>1, <1>2, <1>3
<1>9. pc = ops => NextInstruction = LoopEnd
  BY <1>1, <1>2, <1>3
<1>10. n \in {4, 8} /\ reps \in {8, 16, 64} /\ ops \in {64, 512}
  OBVIOUS
<1>11. row.ops = n * reps
  BY ONLY <1>2
<1>12. reps \in Nat
  BY ONLY <1>10
<1>13. Len(row.body) \in {4, 8} /\ row.ops \in {64, 512} /\ row.reps \in Nat
  BY ONLY <1>2, <1>10, <1>12
<1>14. CodeLength = row.ops + 1 /\ pc \in 0..row.ops
  BY ONLY <1>2, <1>4, <1>5
<1>15. row.ops = Len(row.body) * row.reps
  BY ONLY <1>2
<1>16. (row.ops + Len(row.body) - 1) \div Len(row.body) = row.reps
  BY ONLY <1>2
<1>17. (pc % Len(row.body)) + 1 \in 1..Len(row.body)
  BY ONLY <1>2, <1>7
<1>18. pc < row.ops => NextInstruction = row.body[(pc % Len(row.body)) + 1]
  BY ONLY <1>2, <1>8
<1>19. pc = row.ops => NextInstruction = LoopEnd
  BY ONLY <1>2, <1>9
<1> QED BY ONLY <1>13, <1>14, <1>15, <1>16, <1>17, <1>18, <1>19

\* The sizes of a row of streams on a core: n registers and `pipes' pipes; instructions
\* of latency `own', which keep a pipe for `busy' cycles and, if they wait for their own
\* register, each stream for `back' cycles; in turns of which there are `shared' to a
\* cycle, an instruction takes `limit'.
SizesAre(n, pipes, own, busy, back, limit, shared) ==
  /\ n \in {4, 8} /\ pipes \in Nat \ {0} /\ own \in Nat \ {0}
  /\ busy \in {1, own} /\ back \in {0, own}
  /\ limit \in {back * pipes, busy * n} /\ limit >= back * pipes /\ limit >= busy * n
  /\ shared = pipes * n

\* Neither a pipe nor a register asks for more turns than Limit allows it.
LEMMA SizesCost ==
  ASSUME NEW n, NEW pipes, NEW own, NEW busy, NEW back, NEW limit, NEW shared,
         SizesAre(n, pipes, own, busy, back, limit, shared)
  PROVE  /\ n \in Nat \ {0} /\ pipes \in Nat \ {0} /\ own \in Nat \ {0} /\ busy \in Nat \ {0}
         /\ back \in Nat /\ limit \in Nat \ {0} /\ shared \in Nat \ {0}
         /\ busy <= own /\ back <= own
         /\ busy * shared <= pipes * limit /\ back * shared <= n * limit
         /\ limit <= own * shared
<1>1. /\ n \in Nat \ {0} /\ pipes \in Nat \ {0} /\ own \in Nat \ {0} /\ busy \in Nat \ {0}
      /\ back \in Nat /\ busy <= own /\ back <= own
  BY DEF SizesAre
<1>2. \A x, y \in Nat : x * y \in Nat /\ (x # 0 /\ y # 0 => x * y # 0)
  BY ONLY TRUE
<1>3. busy * n \in Nat \ {0} /\ back * pipes \in Nat /\ pipes * n \in Nat \ {0}
  BY <1>1, <1>2
<1>4. limit \in Nat \ {0} /\ shared \in Nat \ {0} /\ shared = pipes * n
  BY <1>3 DEF SizesAre
<1>5. \A x, y, z \in Nat : x <= y => z * x <= z * y
  BY ONLY TRUE
<1>6. busy * shared <= pipes * limit
  <2>1. busy * (pipes * n) = pipes * (busy * n)
    BY <1>1
  <2>2. pipes * (busy * n) <= pipes * limit
    BY <1>1, <1>3, <1>4, <1>5 DEF SizesAre
  <2> QED BY ONLY <1>4, <2>1, <2>2
<1>7. back * shared <= n * limit
  <2>1. back * (pipes * n) = n * (back * pipes)
    BY <1>1
  <2>2. n * (back * pipes) <= n * limit
    BY <1>1, <1>3, <1>4, <1>5 DEF SizesAre
  <2> QED BY ONLY <1>4, <2>1, <2>2
<1>8. limit <= own * shared
  <2>1. \A x, y, z, b \in Nat : z # 0 /\ b <= x => b * y <= x * (y * z)
    <3>1. SUFFICES ASSUME NEW x \in Nat, NEW y \in Nat, NEW z \in Nat, NEW b \in Nat, z # 0, b <= x
                   PROVE  b * y <= x * (y * z)
      OBVIOUS
    <3>2. y <= y * z /\ y * z \in Nat
      BY <3>1
    <3>3. b * y <= x * y
      BY <3>1
    <3>4. x * y <= x * (y * z)
      BY <1>5, <3>2
    <3>5. b * y \in Nat /\ x * y \in Nat /\ x * (y * z) \in Nat
      BY <3>2
    <3> QED BY ONLY <3>3, <3>4, <3>5
  <2>2. back * pipes <= own * (pipes * n)
    BY <1>1, <2>1
  <2>3. busy * n <= own * (n * pipes)
    BY <1>1, <2>1
  <2>4. n * pipes = pipes * n
    BY <1>1
  <2> QED BY <1>4, <2>2, <2>3, <2>4 DEF SizesAre
<1> QED BY ONLY <1>1, <1>4, <1>6, <1>7, <1>8

\* The sizes of a row of streams on a core.
LEMMA StreamSizes ==
  ASSUME TypeOK, StreamRow(row)
  PROVE  /\ SizesAre(Len(row.body), core.pipes, Own(row.body[1]), Occupied, Regained, Limit, Shared)
         /\ Own(row.body[1]) <= MaxLat
<1>1. /\ Own(row.body[1]) \in 1..MaxLat /\ Regained \in {0, Own(row.body[1])}
      /\ Occupied \in {1, Own(row.body[1])}
  BY StreamIs
<1>2. Len(row.body) \in {4, 8}
  BY DEF StreamRow
<1>3. core.pipes \in Nat \ {0}
  BY PipesAssumption DEF TypeOK, Cores
<1>4. PICK x \in Nat, y \in Nat : x = Regained * core.pipes /\ y = Occupied * Len(row.body)
  <2>1. Regained \in Nat /\ Occupied \in Nat /\ core.pipes \in Nat /\ Len(row.body) \in Nat
    BY <1>1, <1>2, <1>3, MaxLatAssumption
  <2>2. \A i, j \in Nat : i * j \in Nat
    BY ONLY TRUE
  <2> QED BY <2>1, <2>2
<1>5. Limit = Max({x, y})
  BY <1>4 DEF Limit
<1>6. Max({x, y}) \in {x, y} /\ \A z \in {x, y} : z <= Max({x, y})
  <2>1. x + y \in Nat /\ {x, y} \in SUBSET (0..(x + y)) /\ {x, y} # {}
    OBVIOUS
  <2> QED BY ONLY <2>1, MaxIs
<1>7. Shared = core.pipes * Len(row.body)
  BY DEF Shared
<1>8. Own(row.body[1]) \in Nat \ {0} /\ Own(row.body[1]) <= MaxLat
  BY <1>1, MaxLatAssumption
<1> HIDE DEF Limit, Shared, Own, Occupied, Regained
<1> QED BY ONLY <1>1, <1>2, <1>3, <1>4, <1>5, <1>6, <1>7, <1>8 DEF SizesAre

\* The turns as a function of the number of the instruction, for `it' iterations.
Turn(limit, shared, it) == [x \in Int |-> x * limit + it * shared]

\* It grows as fast as the pipes and the registers need it to.
Grows(n, pipes, B, R, d) ==
  /\ d \in [Int -> Int] /\ \A x \in Nat : d[x] \in Nat
  /\ \A x, y \in Int : x <= y => d[x] <= d[y]
  /\ \A x \in Int : d[x] + B <= d[x + pipes] /\ d[x] + R <= d[x + n]

\* Due grows with every turn by enough for a pipe and for a register.
LEMMA TurnGrows ==
  ASSUME NEW n, NEW pipes, NEW own, NEW busy, NEW back, NEW limit, NEW shared,
         SizesAre(n, pipes, own, busy, back, limit, shared), NEW it \in Nat
  PROVE  /\ Grows(n, pipes, busy * shared, back * shared, Turn(limit, shared, it))
         /\ \A x \in Int : Turn(limit, shared, it + 1)[x] = Turn(limit, shared, it)[x] + shared
<1>1. /\ n \in Nat \ {0} /\ pipes \in Nat \ {0} /\ busy \in Nat \ {0} /\ back \in Nat
      /\ limit \in Nat \ {0} /\ shared \in Nat \ {0}
      /\ busy * shared <= pipes * limit /\ back * shared <= n * limit
  BY SizesCost
<1>2. PICK e \in Nat : e = it * shared
  <2>1. it * shared \in Nat
    BY <1>1
  <2> QED BY <2>1
<1>3. PICK d : d = Turn(limit, shared, it)
  OBVIOUS
<1>4. \A x \in Int : x * limit \in Int /\ d[x] = x * limit + e
  BY <1>1, <1>2, <1>3 DEF Turn
<1>5. d \in [Int -> Int]
  <2>1. \A x \in Int : d[x] \in Int
    BY <1>2, <1>4
  <2>2. d = [x \in Int |-> d[x]]
    BY <1>3 DEF Turn
  <2> QED BY <2>1, <2>2
<1>6. ASSUME NEW x \in Nat PROVE d[x] \in Nat
  <2>1. x * limit \in Nat
    BY <1>1
  <2> QED BY ONLY <1>2, <1>4, <2>1, x \in Nat
<1>7. ASSUME NEW x \in Int, NEW y \in Int, x <= y PROVE d[x] <= d[y]
  <2>1. x * limit <= y * limit
    <3>1. (y - x) * limit \in Nat /\ y * limit = x * limit + (y - x) * limit
      BY <1>1, <1>7
    <3> QED BY <1>4, <3>1
  <2> QED BY ONLY <1>2, <1>4, <2>1, x \in Int, y \in Int
<1>8. PICK b \in Nat, r \in Nat : b = busy * shared /\ r = back * shared
  <2>1. busy * shared \in Nat /\ back * shared \in Nat
    BY <1>1
  <2> QED BY <2>1
<1>9. ASSUME NEW x \in Int PROVE d[x] + b <= d[x + pipes] /\ d[x] + r <= d[x + n]
  <2>1. /\ (x + pipes) * limit = x * limit + pipes * limit
        /\ (x + n) * limit = x * limit + n * limit
        /\ pipes * limit \in Nat /\ n * limit \in Nat /\ x + pipes \in Int /\ x + n \in Int
    BY <1>1
  <2>2. b <= pipes * limit /\ r <= n * limit
    BY ONLY <1>1, <1>8
  <2> QED BY ONLY <1>2, <1>4, <1>8, <2>1, <2>2, x \in Int
<1>10. ASSUME NEW x \in Int PROVE Turn(limit, shared, it + 1)[x] = d[x] + shared
  <2>1. (it + 1) * shared = e + shared
    BY <1>1, <1>2
  <2>2. Turn(limit, shared, it + 1)[x] = x * limit + (e + shared)
    BY <2>1 DEF Turn
  <2> QED BY ONLY <1>1, <1>2, <1>4, <2>2, x \in Int
<1> QED BY ONLY <1>3, <1>5, <1>6, <1>7, <1>8, <1>9, <1>10 DEF Grows

\* As many pipes as ever are behind by one instruction more, and the one just taken.
LEMMA OneMoreBehind ==
  ASSUME NEW before, IsFiniteSet(before), NEW p, NEW after \in SUBSET (before \cup {p}),
         NEW m \in Nat, Cardinality(before) <= m
  PROVE  Cardinality(after) <= m + 1
<1>1. Cardinality(before) \in Nat
  BY FS_CardinalityType
<1>2. /\ IsFiniteSet(before \cup {p})
      /\ Cardinality(before \cup {p}) = IF p \in before THEN Cardinality(before)
                                        ELSE Cardinality(before) + 1
  BY FS_AddElement, Zenon
<1>3. Cardinality(before \cup {p}) <= m + 1 /\ Cardinality(before \cup {p}) \in Nat
  BY <1>1, <1>2
<1>4. IsFiniteSet(after) /\ Cardinality(after) <= Cardinality(before \cup {p})
  BY <1>2, FS_Subset
<1>5. Cardinality(after) \in Nat
  BY <1>4, FS_CardinalityType
<1> QED BY <1>3, <1>4, <1>5

\* The pipes that are taken beyond a turn.
NotFree(pipes, f, turn) == { p \in 1..pipes : f[p] > turn }

\* The pipes are finitely many.
LEMMA NotFreeIsFinite ==
  ASSUME NEW pipes \in Nat, NEW f, NEW turn
  PROVE  IsFiniteSet(NotFree(pipes, f, turn))
<1>1. IsFiniteSet(1..pipes) /\ NotFree(pipes, f, turn) \in SUBSET (1..pipes)
  BY FS_Interval DEF NotFree
<1> QED BY <1>1, FS_Subset

\* If fewer than all are behind, one is not; if none may be, none is.
LEMMA SomeNotBehind ==
  ASSUME NEW pipes \in Nat \ {0}, NEW f \in [1..pipes -> Nat], NEW a \in Int
  PROVE  /\ Cardinality(NotFree(pipes, f, a)) <= pipes - 1
              => \E q \in 1..pipes : f[q] <= a
         /\ Cardinality(NotFree(pipes, f, a)) <= 0 <=> \A q \in 1..pipes : f[q] <= a
<1> DEFINE behind == { q \in 1..pipes : f[q] > a }
<1>1. IsFiniteSet(1..pipes) /\ Cardinality(1..pipes) = pipes
  BY FS_Interval
<1>2. IsFiniteSet(behind) /\ Cardinality(behind) \in Nat
  BY <1>1, FS_Subset, FS_CardinalityType
<1>3. (\A q \in 1..pipes : f[q] > a) => Cardinality(behind) = pipes
  <2>1. (\A q \in 1..pipes : f[q] > a) => behind = 1..pipes
    OBVIOUS
  <2> HIDE DEF behind
  <2> QED BY <1>1, <2>1
<1>4. Cardinality(behind) = 0 <=> behind = {}
  <2> HIDE DEF behind
  <2> QED BY <1>2, FS_EmptySet
<1>5. behind = {} <=> \A q \in 1..pipes : ~ (f[q] > a)
  OBVIOUS
<1>6. \A q \in 1..pipes : (f[q] > a) \/ f[q] <= a
  OBVIOUS
<1>7. \A q \in 1..pipes : ~ (f[q] > a /\ f[q] <= a)
  OBVIOUS
<1>8. ASSUME Cardinality(behind) <= pipes - 1 PROVE \E q \in 1..pipes : f[q] <= a
  <2> HIDE DEF behind
  <2> QED BY <1>2, <1>3, <1>6, <1>8
<1>9. Cardinality(behind) <= 0 <=> Cardinality(behind) = 0
  <2> HIDE DEF behind
  <2> QED BY <1>2
<1>10. Cardinality(behind) <= 0 <=> \A q \in 1..pipes : f[q] <= a
  BY <1>4, <1>5, <1>6, <1>7, <1>9
<1> QED BY <1>8, <1>10 DEF NotFree

\* StreamLate in turns: of the pipes, those of the other unit where the end of the loop
\* has its own, and the locations.  B, W and S are what a pipe is kept, an instruction
\* takes and the end of the loop takes.
FreedAt(B, d, k, m) == IF k <= m THEN 0 ELSE d[k - 1 - m] + B

\* Of the pipes, no more are behind than have been given an instruction since.
OnTime(pipes, B, d, k, f) ==
  \A m \in 0..(pipes - 1) : Cardinality(NotFree(pipes, f, FreedAt(B, d, k, m))) <= m

\* StreamLate of the numbers themselves, times counted in turns.
LateAt(n, pipes, unit, back, B, W, S, d, round, c, rs, fs, au) ==
  /\ OnTime(pipes, B, d, round + c, fs)
  /\ unit # "alu" => \A p \in 1..pipes : au[p] <= d[round]
  /\ \A loc \in {"i", "CF", "ZF"} : rs[loc] <= d[round]
  /\ \A loc \in {"k", "x", "mem"} : rs[loc] = 0
  /\ \A j \in 1..8 :
       /\ rs[Eight[j]] # 0 =>
            j <= n /\ rs[Eight[j]] <= (IF c = 0 THEN d[round - 2] - S ELSE d[round + c - 1]) + W
       /\ j <= n /\ back # 0 => rs[Eight[j]] <= d[round + TurnOf(n, c, j)]

\* Freed is a number.
LEMMA FreedIs ==
  ASSUME NEW B \in Nat, NEW d \in [Int -> Int], NEW k \in Nat, NEW m \in Nat
  PROVE  FreedAt(B, d, k, m) \in Int
<1>1. k - 1 - m \in Int
  OBVIOUS
<1>2. d[k - 1 - m] \in Int
  BY <1>1
<1> QED BY <1>2 DEF FreedAt

\* The next instruction begins in time.
Turning(n, pipes, B, R, d, k, fs) ==
  /\ n \in {4, 8} /\ pipes \in Nat \ {0} /\ B \in Nat /\ R \in Nat /\ k \in Nat
  /\ Grows(n, pipes, B, R, d) /\ fs \in [1..pipes -> Nat] /\ OnTime(pipes, B, d, k, fs)

\* The pipe that is free first is free when the instruction is due: of the latest pipes - 1
\* instructions each holds one at most.
LEMMA BeginsInTime ==
  ASSUME NEW n, NEW pipes, NEW B, NEW R, NEW d, NEW k, NEW fs, Turning(n, pipes, B, R, d, k, fs)
  PROVE  \E p \in 1..pipes : fs[p] <= d[k]
<1> USE DEF Turning
<1>1. d \in [Int -> Int] /\ k \in Nat /\ pipes - 1 \in Nat
  BY DEF Grows
<1>3. PICK m \in Nat : m = pipes - 1
  BY <1>1
<1>4. m \in 0..(pipes - 1)
  BY <1>3
<1>5. PICK a \in Int : a = FreedAt(B, d, k, m)
  BY <1>1, FreedIs
<1>6. Cardinality(NotFree(pipes, fs, a)) <= pipes - 1
  <2>1. OnTime(pipes, B, d, k, fs)
    OBVIOUS
  <2>2. Cardinality(NotFree(pipes, fs, FreedAt(B, d, k, m))) <= m
    BY ONLY <1>4, <2>1 DEF OnTime
  <2> QED BY ONLY <1>3, <1>5, <2>2
<1>7. \E p \in 1..pipes : fs[p] <= a
  BY <1>6, SomeNotBehind
<1>8. a <= d[k]
  <2>1. CASE k <= m
    <3>1. a = 0 /\ d[k] \in Nat
      BY <1>5, <2>1 DEF FreedAt, Grows
    <3> QED BY <3>1
  <2>2. CASE ~(k <= m)
    <3>1. PICK x \in Int : x = k - 1 - m
      OBVIOUS
    <3>2. a = d[x] + B
      BY <1>5, <2>2, <3>1 DEF FreedAt
    <3>3. x + pipes = k
      BY <1>3, <3>1
    <3>4. d[x] + B <= d[x + pipes]
      BY DEF Grows
    <3> QED BY ONLY <3>2, <3>3, <3>4
  <2> QED BY <2>1, <2>2
<1>9. \A p \in 1..pipes : fs[p] \in Nat
  OBVIOUS
<1>10. d[k] \in Nat
  BY DEF Grows
<1> QED BY <1>5, <1>7, <1>8, <1>9, <1>10

\* An instruction is given the pipe p; turns may have become later.
Moves(n, pipes, B, R, d, d2, k, fs, p, fs2) ==
  /\ pipes \in Nat \ {0} /\ B \in Nat /\ R \in Nat /\ k \in Nat
  /\ Grows(n, pipes, B, R, d) /\ d2 \in [Int -> Int] /\ (\A x \in Int : d[x] <= d2[x])
  /\ fs \in [1..pipes -> Nat] /\ fs2 \in [1..pipes -> Nat] /\ p \in 1..pipes
  /\ (\A q \in (1..pipes) \ {p} : fs2[q] = fs[q]) /\ fs2[p] <= d2[k] + B

\* No more pipes are behind then.
LEMMA BehindMoves ==
  ASSUME NEW n, NEW pipes, NEW B, NEW R, NEW d, NEW d2, NEW k, NEW fs, NEW p, NEW fs2,
         Moves(n, pipes, B, R, d, d2, k, fs, p, fs2), OnTime(pipes, B, d, k, fs)
  PROVE  OnTime(pipes, B, d2, k + 1, fs2)
<1> USE DEF Moves
<1>1. /\ d \in [Int -> Int] /\ (\A x \in Int : d[x] \in Int) /\ (\A x \in Nat : d[x] \in Nat)
      /\ (\A x, y \in Int : x <= y => d[x] <= d[y]) /\ (\A x \in Int : d2[x] \in Int)
  BY DEF Grows
<1>2. k + 1 \in Nat /\ k \in Int /\ d[k] \in Nat /\ d2[k] \in Int /\ d[k] <= d2[k]
  BY <1>1
<1> DEFINE now == d[k]
           then == d2[k]
<1>a. now \in Nat /\ then \in Int /\ now <= then
  BY <1>2
<1>3. ASSUME NEW m \in 0..(pipes - 1)
      PROVE  Cardinality(NotFree(pipes, fs2, FreedAt(B, d2, k + 1, m))) <= m
  <2>0. m \in Nat
    OBVIOUS
  <2>1. CASE m = 0
    <3>1. Cardinality(NotFree(pipes, fs, FreedAt(B, d, k, 0))) <= 0
      <4>1. 0 \in 0..(pipes - 1)
        OBVIOUS
      <4> QED BY ONLY <4>1, OnTime(pipes, B, d, k, fs) DEF OnTime
    <3>2. PICK a \in Int : a = FreedAt(B, d, k, 0)
      BY <1>1, FreedIs
    <3>3. \A q \in 1..pipes : fs[q] <= a
      BY <3>1, <3>2, SomeNotBehind
    <3>4. FreedAt(B, d2, k + 1, 0) = d2[k] + B
      <4>1. ~(k + 1 <= 0) /\ k + 1 - 1 - 0 = k
        BY ONLY k \in Nat
      <4> QED BY <4>1 DEF FreedAt
    <3>5. a <= d2[k] + B
      <4>1. CASE k = 0
        <5>1. a = 0
          BY <3>2, <4>1 DEF FreedAt
        <5>2. 0 <= then + B
          <6> HIDE DEF now, then
          <6> QED BY ONLY <1>a, B \in Nat
        <5> QED BY <5>1, <5>2
      <4>2. CASE k # 0
        <5>1. ~(k <= 0) /\ k - 1 - 0 = k - 1 /\ k - 1 <= k /\ k - 1 \in Int
          BY ONLY <4>2, k \in Nat
        <5>2. a = d[k - 1] + B
          BY <3>2, <5>1 DEF FreedAt
        <5>3. PICK x \in Int : x = k - 1 /\ x <= k
          BY <5>1
        <5>4. d[x] <= d[k] /\ d[x] \in Int
          BY <1>1, <1>2, <5>3
        <5>5. PICK y \in Int : y = d[x]
          BY <5>4
        <5>6. a = y + B /\ y <= now
          BY <5>2, <5>3, <5>4, <5>5
        <5>7. a <= then + B
          <6> HIDE DEF now, then
          <6> QED BY ONLY <1>a, <5>6, B \in Nat, y \in Int
        <5> QED BY <5>7
      <4> QED BY <4>1, <4>2
    <3>6. PICK b \in Int : b = d2[k] + B
      <4>1. d2[k] + B \in Int
        BY ONLY <1>2, B \in Nat
      <4> QED BY <4>1
    <3>7. \A q \in 1..pipes : fs2[q] <= b
      <4>1. ASSUME NEW q \in 1..pipes PROVE fs[q] <= b
        <5>1. fs[q] \in Nat /\ fs[q] <= a
          BY <3>3
        <5> QED BY ONLY <3>5, <3>6, <5>1, a \in Int, b \in Int
      <4>2. fs2[p] <= b
        BY <3>6
      <4>3. \A q \in 1..pipes : q = p \/ q \in (1..pipes) \ {p}
        OBVIOUS
      <4> QED BY <4>1, <4>2, <4>3
    <3>8. Cardinality(NotFree(pipes, fs2, b)) <= 0
      BY ONLY <3>7, b \in Int, fs2 \in [1..pipes -> Nat], pipes \in Nat \ {0}, SomeNotBehind
    <3> QED BY ONLY <2>1, <3>4, <3>6, <3>8
  <2>2. CASE m # 0
    <3>1. PICK i \in 0..(pipes - 1) : i \in Nat /\ i = m - 1 /\ i + 1 = m
      <4>1. m - 1 \in 0..(pipes - 1) /\ m - 1 \in Nat /\ (m - 1) + 1 = m
        BY ONLY <2>0, <2>2, m \in 0..(pipes - 1), pipes \in Nat \ {0}
      <4> QED BY <4>1
    <3>2. PICK a \in Int : a = FreedAt(B, d, k, i)
      BY <1>1, <3>1, FreedIs
    <3>3. PICK b \in Int : b = FreedAt(B, d2, k + 1, m)
      BY <1>2, <2>0, FreedIs
    <3>4. Cardinality(NotFree(pipes, fs, a)) <= i
      BY ONLY <3>2, i \in 0..(pipes - 1), OnTime(pipes, B, d, k, fs) DEF OnTime
    <3>5. a <= b
      <4>1. (k + 1 <= m <=> k <= i) /\ k + 1 - 1 - m = k - 1 - i
        BY ONLY <2>0, <3>1, k \in Nat
      <4>2. CASE k <= i
        BY <3>2, <3>3, <4>1, <4>2 DEF FreedAt
      <4>3. CASE ~(k <= i)
        <5>1. PICK x \in Int : x = k - 1 - i
          BY <3>1
        <5>2. a = d[x] + B /\ b = d2[x] + B
          BY <3>2, <3>3, <4>1, <4>3, <5>1 DEF FreedAt
        <5>3. d[x] <= d2[x] /\ d[x] \in Int /\ d2[x] \in Int
          BY <1>1
        <5>4. PICK y \in Int, z \in Int : y = d[x] /\ z = d2[x]
          BY <5>3
        <5>5. a = y + B /\ b = z + B /\ y <= z
          BY <5>2, <5>3, <5>4
        <5> QED BY ONLY <5>5, B \in Nat, y \in Int, z \in Int
      <4> QED BY <4>2, <4>3
    <3>6. PICK before : before = NotFree(pipes, fs, a)
      OBVIOUS
    <3>7. PICK after : after = NotFree(pipes, fs2, b)
      OBVIOUS
    <3>8. after \in SUBSET (before \cup {p})
      <4>1. SUFFICES ASSUME NEW q \in 1..pipes, fs2[q] > b, q # p PROVE fs[q] > a
        BY <3>6, <3>7 DEF NotFree
      <4>2. fs2[q] = fs[q] /\ fs[q] \in Nat
        BY <4>1
      <4> QED BY ONLY <3>5, <4>1, <4>2, a \in Int, b \in Int
    <3>9. IsFiniteSet(before)
      BY <3>6, NotFreeIsFinite
    <3>10. Cardinality(after) <= i + 1
      BY ONLY <3>1, <3>4, <3>6, <3>8, <3>9, OneMoreBehind
    <3> QED BY ONLY <3>1, <3>3, <3>7, <3>10
  <2> QED BY <2>1, <2>2
<1> QED BY ONLY <1>3 DEF OnTime

\* An instruction of a stream that begins in time leaves the others time.
LEMMA LateStream ==
  ASSUME NEW n \in {4, 8}, NEW pipes \in Nat \ {0}, NEW unit, NEW back \in Nat,
         NEW B \in Nat, NEW W \in Nat, NEW S \in Nat, NEW R \in Nat, NEW d,
         Grows(n, pipes, B, R, d),
         back # 0 => R = W,
         NEW round \in Nat, NEW c \in Nat, NEW rs \in [Locations -> Nat],
         NEW fs \in [1..pipes -> Nat], NEW au, NEW au2, unit # "alu" => au2 = au,
         LateAt(n, pipes, unit, back, B, W, S, d, round, c, rs, fs, au),
         NEW start \in Nat, start <= d[round + c], NEW p \in 1..pipes,
         NEW j0 \in 1..n, j0 = (c % n) + 1,
         NEW rs2, rs2 = [rs EXCEPT ![Eight[j0]] = start + W],
         NEW fs2, fs2 = [fs EXCEPT ![p] = start + B]
  PROVE  LateAt(n, pipes, unit, back, B, W, S, d, round, c + 1, rs2, fs2, au2)
<1>0. PICK k \in Nat : k = round + c
  OBVIOUS
<1>1. /\ d \in [Int -> Int] /\ (\A x \in Int : d[x] \in Int) /\ (\A x \in Nat : d[x] \in Nat)
      /\ (\A x, y \in Int : x <= y => d[x] <= d[y])
      /\ (\A x \in Int : d[x] + B <= d[x + pipes] /\ d[x] + R <= d[x + n])
  BY DEF Grows
<1>2. /\ k \in Nat /\ round + (c + 1) = k + 1 /\ round + (c + 1) - 1 = k /\ c + 1 # 0 /\ n \in Nat
      /\ d[k] \in Nat /\ start <= d[k] /\ k \in Int
  <2>1. d[k] \in Nat /\ start <= d[k]
    BY <1>0, <1>1
  <2> QED BY ONLY <1>0, <2>1, k \in Nat, n \in {4, 8}, c \in Nat, round \in Nat
<1>3. fs2 \in [1..pipes -> Nat]
  BY SMTT(30)
<1>4. OnTime(pipes, B, d, round + (c + 1), fs2)
  <2>1. OnTime(pipes, B, d, k, fs)
    BY <1>0 DEF LateAt
  <2>2. fs2[p] <= d[k] + B /\ \A q \in (1..pipes) \ {p} : fs2[q] = fs[q]
    <3>1. fs2[p] = start + B /\ \A q \in (1..pipes) \ {p} : fs2[q] = fs[q]
      OBVIOUS
    <3>2. start + B <= d[k] + B
      BY ONLY <1>2, start \in Nat, B \in Nat
    <3> QED BY <3>1, <3>2
  <2>3. \A x \in Int : d[x] <= d[x]
    BY <1>1
  <2>4. OnTime(pipes, B, d, k + 1, fs2)
    <3>1. PICK e \in [Int -> Int] : e = d /\ (\A x \in Int : d[x] <= e[x]) /\ fs2[p] <= e[k] + B
      BY <1>1, <2>2, <2>3
    <3>2. Moves(n, pipes, B, R, d, e, k, fs, p, fs2)
      BY ONLY <1>2, <1>3, <2>2, <3>1, Grows(n, pipes, B, R, d), e \in [Int -> Int],
              pipes \in Nat \ {0}, B \in Nat, R \in Nat, fs \in [1..pipes -> Nat],
              p \in 1..pipes DEF Moves
    <3>3. OnTime(pipes, B, e, k + 1, fs2)
      BY ONLY <2>1, <3>2, BehindMoves
    <3> QED BY ONLY <3>1, <3>3
  <2> QED BY ONLY <1>2, <2>4
<1>5. unit # "alu" => \A q \in 1..pipes : au2[q] <= d[round]
  BY DEF LateAt
<1>6. \A loc \in Locations : rs2[loc] = IF loc = Eight[j0] THEN start + W ELSE rs[loc]
  OBVIOUS
<1>7. j0 \in 1..8 /\ 1..n \subseteq 1..8
  <2>1. CASE n = 4
    BY <2>1
  <2>2. CASE n = 8
    BY <2>2
  <2> QED BY <2>1, <2>2
<1>8. Eight[j0] \in Locations \ {"x", "i", "k", "CF", "ZF", "mem"}
  BY <1>7, EightRegisters
<1>9. {"i", "CF", "ZF", "k", "x", "mem"} \subseteq Locations
  BY LocationsAre
<1>10. \A loc \in {"i", "CF", "ZF", "k", "x", "mem"} : rs2[loc] = rs[loc]
  BY <1>6, <1>8, <1>9
<1>11. (\A loc \in {"i", "CF", "ZF"} : rs2[loc] <= d[round]) /\ \A loc \in {"k", "x", "mem"} :
         rs2[loc] = 0
  BY <1>10 DEF LateAt
<1>12. ASSUME NEW j \in 1..8
       PROVE  /\ rs2[Eight[j]] # 0 => j <= n /\ rs2[Eight[j]] <= d[k] + W
              /\ j <= n /\ back # 0 => rs2[Eight[j]] <= d[round + TurnOf(n, c + 1, j)]
  <2>1. Eight[j] \in Locations /\ (Eight[j] = Eight[j0] => j = j0)
    BY <1>7, EightRegisters
  <2>2. CASE j = j0
    <3>1. rs2[Eight[j]] = start + W /\ j <= n
      BY <1>6, <2>1, <2>2, SMTT(30)
    <3>2. start <= d[k] /\ d[k] \in Nat
      BY ONLY <1>2
    <3>3. start + W <= d[k] + W
      BY ONLY <3>2, start \in Nat, W \in Nat
    <3>4. TurnOf(n, c + 1, j0) = c + n
      BY TurnsOf
    <3>5. round + (c + n) = k + n /\ k \in Int
      BY <1>0, <1>2
    <3>6. d[k] + R <= d[k + n]
      BY ONLY <1>1, <3>5
    <3>7. k + n \in Int /\ d[k + n] \in Int
      <4>1. k + n \in Int
        BY ONLY <1>2
      <4> QED BY ONLY <1>1, <4>1
    <3>8. back # 0 => start + W <= d[k + n]
      BY ONLY <3>2, <3>6, <3>7, start \in Nat, W \in Nat, R \in Nat, back # 0 => R = W
    <3> QED BY ONLY <2>2, <3>1, <3>3, <3>4, <3>5, <3>8
  <2>3. CASE j # j0
    <3>1. rs2[Eight[j]] = rs[Eight[j]] /\ rs[Eight[j]] \in Nat
      BY <1>6, <2>1, <2>3
    <3>2. PICK last \in Int : last = IF c = 0 THEN d[round - 2] - S ELSE d[round + c - 1]
      <4>1. d[round - 2] \in Int /\ d[round + c - 1] \in Int
        <5>1. round - 2 \in Int /\ round + c - 1 \in Int
          OBVIOUS
        <5> QED BY ONLY <1>1, <5>1
      <4>2. (IF c = 0 THEN d[round - 2] - S ELSE d[round + c - 1]) \in Int
        BY ONLY <4>1, S \in Nat
      <4> QED BY ONLY <4>2
    <3>3. last <= d[k]
      <4>1. /\ round - 2 \in Int /\ round + c - 1 \in Int /\ round - 2 <= k /\ round + c - 1 <= k
            /\ k \in Int
        BY ONLY <1>0, round \in Nat, c \in Nat
      <4>2. d[round - 2] <= d[k] /\ d[round + c - 1] <= d[k] /\ d[round - 2] \in Int /\ d[k] \in Int
        BY ONLY <1>1, <4>1
      <4> QED BY ONLY <3>2, <4>2, S \in Nat
    <3>4. rs[Eight[j]] # 0 => j <= n /\ rs[Eight[j]] <= last + W
      BY <3>2 DEF LateAt
    <3>5. rs[Eight[j]] # 0 => j <= n /\ rs[Eight[j]] <= d[k] + W
      <4>1. d[k] \in Int
        BY ONLY <1>2
      <4> QED BY ONLY <3>1, <3>3, <3>4, <4>1, W \in Nat, last \in Int
    <3>6. ASSUME j <= n PROVE TurnOf(n, c + 1, j) = TurnOf(n, c, j)
      <4>1. j \in 1..n /\ j # (c % n) + 1
        BY <1>2, <2>3, <3>6
      <4> QED BY <4>1, TurnsOf, ZenonT(60)
    <3>7. j <= n /\ back # 0 => rs[Eight[j]] <= d[round + TurnOf(n, c, j)]
      BY DEF LateAt
    <3> QED BY ONLY <3>1, <3>5, <3>6, <3>7
  <2> QED BY <2>2, <2>3
<1> QED BY <1>2, <1>4, <1>5, <1>11, <1>12 DEF LateAt

\* A cycle more for every turn that is due, and what the end of the loop writes.
Later(d, S, d2) == d2 \in [Int -> Int] /\ \A x \in Int : d2[x] = d[x] + S
LoopEnded(rs, f, rs2) ==
  \A loc \in Locations : rs2[loc] = IF loc \in {"i", "CF", "ZF"} THEN f ELSE rs[loc]

\* The end of the loop begins by then, on the pipe p.
EndMoves(n, pipes, unit, back, B, W, S, R, d, round, ops, rs, fs, au, start, p, d2, rs2, fs2, au2) ==
  /\ n \in {4, 8} /\ pipes \in Nat \ {0} /\ back \in Nat /\ B \in Nat /\ W \in Nat /\ S \in Nat
  /\ R \in Nat /\ Grows(n, pipes, B, R, d) /\ round \in Nat /\ ops \in {64, 512}
  /\ rs \in [Locations -> Nat] /\ fs \in [1..pipes -> Nat] /\ au \in [1..pipes -> Nat]
  /\ LateAt(n, pipes, unit, back, B, W, S, d, round, ops, rs, fs, au)
  /\ start \in Nat /\ start <= d[round + ops] /\ p \in 1..pipes
  /\ Later(d, S, d2) /\ LoopEnded(rs, start + S, rs2)
  /\ fs2 = (IF unit # "alu" THEN fs ELSE [fs EXCEPT ![p] = start + S])
  /\ \A q \in 1..pipes : au2[q] \in {au[q], start + S}

\* The end of the loop is late by what it takes, which the next iteration has more time.
LEMMA LateEnd ==
  ASSUME NEW n, NEW pipes, NEW unit, NEW back, NEW B, NEW W, NEW S, NEW R, NEW d, NEW round,
         NEW ops,
         NEW rs, NEW fs, NEW au, NEW start, NEW p, NEW d2, NEW rs2, NEW fs2, NEW au2,
         EndMoves(n, pipes, unit, back, B, W, S, R, d, round, ops, rs, fs, au, start, p, d2, rs2, fs2, au2)
  PROVE  LateAt(n, pipes, unit, back, B, W, S, d2, round + ops + 1, 0, rs2, fs2, au2)
<1> SUFFICES ASSUME n \in {4, 8}, pipes \in Nat \ {0}, back \in Nat, B \in Nat, W \in Nat,
                    S \in Nat,
                    R \in Nat, Grows(n, pipes, B, R, d), round \in Nat, ops \in {64, 512},
                    rs \in [Locations -> Nat], fs \in [1..pipes -> Nat], au \in [1..pipes -> Nat],
                    LateAt(n, pipes, unit, back, B, W, S, d, round, ops, rs, fs, au),
                    start \in Nat, start <= d[round + ops], p \in 1..pipes,
                    Later(d, S, d2), LoopEnded(rs, start + S, rs2),
                    fs2 = IF unit # "alu" THEN fs ELSE [fs EXCEPT ![p] = start + S],
                    \A q \in 1..pipes : au2[q] \in {au[q], start + S}
             PROVE  LateAt(n, pipes, unit, back, B, W, S, d2, round + ops + 1, 0, rs2, fs2, au2)
  BY DEF EndMoves
<1>0. PICK k \in Nat : k = round + ops
  OBVIOUS
<1>1. /\ d \in [Int -> Int] /\ (\A x \in Int : d[x] \in Int) /\ (\A x \in Nat : d[x] \in Nat)
      /\ (\A x, y \in Int : x <= y => d[x] <= d[y])
  BY DEF Grows
<1>d. d2 \in [Int -> Int] /\ (\A x \in Int : d2[x] = d[x] + S) /\ \A x \in Int : d2[x] \in Int
  <2>1. d2 \in [Int -> Int] /\ \A x \in Int : d2[x] = d[x] + S
    BY ONLY Later(d, S, d2) DEF Later
  <2>2. \A x \in Int : d2[x] \in Int
    BY ONLY <2>1
  <2> QED BY ONLY <2>1, <2>2
<1>r. \A loc \in Locations :
        rs2[loc] = (IF loc \in {"i", "CF", "ZF"} THEN start + S ELSE rs[loc]) /\ rs[loc] \in Nat
  BY ONLY LoopEnded(rs, start + S, rs2), rs \in [Locations -> Nat] DEF LoopEnded
<1>f. (\A q \in 1..pipes : fs[q] \in Nat) /\ \A q \in 1..pipes : au[q] \in Nat
  <2>1. \A q \in 1..pipes : fs[q] \in Nat
    BY ONLY fs \in [1..pipes -> Nat]
  <2>2. \A q \in 1..pipes : au[q] \in Nat
    BY ONLY au \in [1..pipes -> Nat]
  <2> QED BY ONLY <2>1, <2>2
<1>2. /\ round + ops + 1 = k + 1 /\ (round + ops + 1) + 0 = k + 1 /\ round + ops + 1 - 2 = k - 1
      /\ round + ops - 1 = k - 1 /\ round <= k /\ ops # 0
  BY ONLY <1>0, round \in Nat, ops \in {64, 512}
<1>3. start <= d[k] /\ d[k] \in Nat /\ d[k] <= d[k + 1] /\ d[k + 1] \in Int /\ d[round] <= d[k]
      /\ d[round] \in Int /\ d2[k + 1] = d[k + 1] + S
  <2>1. k \in Int /\ k + 1 \in Int /\ k <= k + 1 /\ round \in Int
    OBVIOUS
  <2>2. start <= d[k]
    BY ONLY <1>0, start <= d[round + ops]
  <2>3. d2[k + 1] = d[k + 1] + S
    BY ONLY <1>d, <2>1
  <2>4. d[k] \in Nat /\ d[k] <= d[k + 1] /\ d[k + 1] \in Int /\ d[round] <= d[k] /\ d[round] \in Int
    <3>1. \A x \in Int : d[x] \in Int
      BY ONLY <1>1
    <3>2. \A x \in Nat : d[x] \in Nat
      BY ONLY <1>1
    <3>3. \A x, y \in Int : x <= y => d[x] <= d[y]
      BY ONLY <1>1
    <3>4. d[k] <= d[k + 1] /\ d[round] <= d[k]
      BY ONLY <1>2, <2>1, <3>3
    <3> QED BY ONLY <2>1, <3>1, <3>2, <3>4, k \in Nat
  <2> QED BY ONLY <2>2, <2>3, <2>4
<1>4. start + S <= d2[k + 1]
  BY ONLY <1>3, start \in Nat, S \in Nat
<1>5. fs2 \in [1..pipes -> Nat] /\ fs2[p] <= d2[k] + B /\ \A q \in (1..pipes) \ {p} : fs2[q] = fs[q]
  <2>1. start + S \in Nat /\ start + S <= d[k] + S /\ d2[k] = d[k] + S
    <3>1. d2[k] = d[k] + S
      BY ONLY <1>d, k \in Nat
    <3> QED BY ONLY <1>3, <3>1, start \in Nat, S \in Nat
  <2>2. CASE unit # "alu"
    <3>1. fs2 = fs
      BY <2>2
    <3>2. fs[p] <= d[k] + B
      \* No pipe is behind at all.
      <4>1. 0 \in 0..(pipes - 1)
        OBVIOUS
      <4>2. Cardinality(NotFree(pipes, fs, FreedAt(B, d, k, 0))) <= 0
        BY <1>0, <4>1 DEF LateAt, OnTime
      <4>3. PICK a \in Int : a = FreedAt(B, d, k, 0)
        BY <1>1, FreedIs
      <4>4. fs[p] <= a
        BY ONLY <4>2, <4>3, SomeNotBehind, pipes \in Nat \ {0}, a \in Int, fs \in [1..pipes -> Nat],
                p \in 1..pipes
      <4>5. k # 0 /\ ~(k <= 0) /\ k - 1 - 0 = k - 1 /\ k - 1 <= k /\ k - 1 \in Int
        BY ONLY <1>0, round \in Nat, ops \in {64, 512}
      <4>6. a = d[k - 1] + B
        BY <4>3, <4>5 DEF FreedAt
      <4>7. PICK x \in Int : x = k - 1 /\ x <= k
        BY <4>5
      <4>8. d[x] <= d[k] /\ d[x] \in Int
        BY ONLY <1>1, <4>7, x \in Int, k \in Nat
      <4>9. PICK y \in Int : y = d[x]
        BY ONLY <4>8
      <4>10. PICK z \in Nat : z = fs[p]
        BY ONLY <1>f, p \in 1..pipes
      <4>11. PICK now \in Nat : now = d[k]
        BY ONLY <1>3
      <4>12. z <= a /\ a = y + B /\ y <= now
        BY ONLY <4>4, <4>6, <4>7, <4>8, <4>9, <4>10, <4>11
      <4>13. z <= now + B
        BY ONLY <4>12, B \in Nat, a \in Int, y \in Int, z \in Nat, now \in Nat
      <4> QED BY ONLY <4>10, <4>11, <4>13
    <3>3. fs[p] \in Nat /\ fs \in [1..pipes -> Nat]
      BY ONLY <1>f, p \in 1..pipes, fs \in [1..pipes -> Nat]
    <3>4. PICK z \in Nat, now \in Nat, then \in Int :
            z = fs[p] /\ now = d[k] /\ then = d2[k] /\ z <= now + B /\ then = now + S
      BY ONLY <1>3, <2>1, <3>2, <3>3, S \in Nat
    <3>5. z <= then + B
      <4>1. z <= now + B /\ then = now + S
        BY ONLY <3>4
      <4> QED BY ONLY <4>1, z \in Nat, now \in Nat, then \in Int, S \in Nat, B \in Nat
    <3> QED BY ONLY <3>1, <3>3, <3>4, <3>5
  <2>3. CASE ~(unit # "alu")
    <3>1. fs2 = [fs EXCEPT ![p] = start + S]
      BY <2>3
    <3>2. fs2[p] = start + S /\ fs2 \in [1..pipes -> Nat]
          /\ \A q \in (1..pipes) \ {p} : fs2[q] = fs[q]
      BY ONLY <2>1, <3>1, fs \in [1..pipes -> Nat], p \in 1..pipes
    <3>3. PICK now \in Nat : now = d[k]
      BY ONLY <1>3
    <3>4. start + S <= (now + S) + B
      BY ONLY <1>3, <3>3, now \in Nat, start \in Nat, S \in Nat, B \in Nat
    <3> QED BY ONLY <2>1, <3>2, <3>3, <3>4
  <2> QED BY <2>2, <2>3
<1>6. OnTime(pipes, B, d2, (round + ops + 1) + 0, fs2)
  <2>1. OnTime(pipes, B, d, k, fs)
    BY <1>0 DEF LateAt
  <2>0. d2 \in [Int -> Int]
    BY ONLY <1>d
  <2>2. \A x \in Int : d[x] <= d2[x]
    <3>1. SUFFICES ASSUME NEW x \in Int PROVE d[x] <= d2[x]
      OBVIOUS
    <3>2. PICK y \in Int : y = d[x]
      BY ONLY <1>1, x \in Int
    <3>3. d2[x] = y + S
      BY ONLY <1>d, <3>2, x \in Int
    <3> QED BY ONLY <3>2, <3>3, y \in Int, S \in Nat
  <2>3. OnTime(pipes, B, d2, k + 1, fs2)
    <3>1. fs2 \in [1..pipes -> Nat]
      BY ONLY <1>5
    <3>2. fs2[p] <= d2[k] + B
      BY ONLY <1>5
    <3>3. \A q \in (1..pipes) \ {p} : fs2[q] = fs[q]
      BY ONLY <1>5
    <3>4. /\ pipes \in Nat \ {0} /\ B \in Nat /\ R \in Nat /\ k \in Nat
          /\ fs \in [1..pipes -> Nat] /\ p \in 1..pipes
      OBVIOUS
    <3>5. Moves(n, pipes, B, R, d, d2, k, fs, p, fs2)
      BY ONLY <2>0, <2>2, <3>1, <3>2, <3>3, <3>4, Grows(n, pipes, B, R, d) DEF Moves
    <3> QED BY ONLY <2>1, <3>5, BehindMoves
  <2> QED BY ONLY <1>2, <2>3
<1>7. unit # "alu" => \A q \in 1..pipes : au2[q] <= d2[round + ops + 1]
  <2>1. SUFFICES ASSUME unit # "alu", NEW q \in 1..pipes PROVE au2[q] <= d2[k + 1]
    BY <1>2, ZenonT(60)
  <2>2. au[q] <= d[round] /\ au[q] \in Nat
    BY ONLY <1>f, <2>1, q \in 1..pipes, LateAt(n, pipes, unit, back, B, W, S, d, round, ops, rs, fs,
                                               au) DEF LateAt
  <2>3. au2[q] \in {au[q], start + S}
    OBVIOUS
  <2>5. d[k] <= d[k + 1] /\ d[round] <= d[k] /\ d[k] \in Int /\ d[k + 1] \in Int /\ d[round] \in Int
    BY ONLY <1>3
  <2>6. au[q] <= d[k + 1] + S
    BY ONLY <2>2, <2>5, S \in Nat
  <2>7. d2[k + 1] = d[k + 1] + S
    BY ONLY <1>3
  <2> QED BY ONLY <1>4, <2>3, <2>6, <2>7
<1>8. {"i", "CF", "ZF", "k", "x", "mem"} \subseteq Locations
  BY LocationsAre
<1>9. /\ \A loc \in {"i", "CF", "ZF"} : rs2[loc] <= d2[round + ops + 1]
      /\ \A loc \in {"k", "x", "mem"} : rs2[loc] = 0
  <2>1. \A loc \in {"i", "CF", "ZF"} : rs2[loc] = start + S
    BY ONLY <1>8, <1>r
  <2>2. \A loc \in {"k", "x", "mem"} : rs2[loc] = rs[loc]
    BY ONLY <1>8, <1>r
  <2>3. \A loc \in {"k", "x", "mem"} : rs[loc] = 0
    BY ONLY LateAt(n, pipes, unit, back, B, W, S, d, round, ops, rs, fs, au) DEF LateAt
  <2> QED BY ONLY <1>2, <1>4, <2>1, <2>2, <2>3
<1>10. ASSUME NEW j \in 1..8
       PROVE  /\ rs2[Eight[j]] # 0 => j <= n /\ rs2[Eight[j]] <= (d2[k - 1] - S) + W
              /\ j <= n /\ back # 0 => rs2[Eight[j]] <= d2[(round + ops + 1) + TurnOf(n, 0, j)]
  <2>1. rs2[Eight[j]] = rs[Eight[j]] /\ rs[Eight[j]] \in Nat
    <3>1. Eight[j] \in Locations \ {"x", "i", "k", "CF", "ZF", "mem"}
      BY EightRegisters, ZenonT(60)
    <3> QED BY ONLY <1>r, <3>1
  <2>2. d2[k - 1] - S = d[k - 1]
    <3>1. k - 1 \in Int
      OBVIOUS
    <3>2. d2[k - 1] = d[k - 1] + S /\ d[k - 1] \in Int
      BY ONLY <1>1, <1>d, <3>1
    <3>3. PICK y \in Int : y = d[k - 1]
      BY ONLY <3>2
    <3> QED BY ONLY <3>2, <3>3, y \in Int, S \in Nat
  <2>3. rs[Eight[j]] # 0 => j <= n /\ rs[Eight[j]] <= d[k - 1] + W
    BY <1>2 DEF LateAt
  <2>4. ASSUME j <= n, back # 0 PROVE rs[Eight[j]] <= d2[(round + ops + 1) + TurnOf(n, 0, j)]
    <3>1. rs[Eight[j]] <= d[round + TurnOf(n, ops, j)]
      BY <2>4 DEF LateAt
    <3>2. j \in 1..n /\ ops \in Nat
      BY ONLY <2>4, n \in {4, 8}, j \in 1..8, ops \in {64, 512}
    <3>3. TurnOf(n, 0, j) = j - 1 /\ TurnOf(n, ops, j) = ops + j - 1
      <4>1. TurnOf(n, 0, j) = j - 1
        <5>1. 0 \in Nat /\ j \in 1..n
          BY ONLY <3>2
        <5>2. 0 % n = 0
          <6>1. 0 % 4 = 0 /\ 0 % 8 = 0
            OBVIOUS
          <6> QED BY ONLY <6>1, n \in {4, 8}
        <5>3. ~(j <= 0) /\ j \in Int
          BY ONLY j \in 1..8
        <5> QED BY ONLY <5>2, <5>3 DEF TurnOf
      <4>2. TurnOf(n, ops, j) = ops + j - 1
        BY ONLY <3>2, TurnsOf, n \in {4, 8}, ops \in {64, 512}, ZenonT(60)
      <4> QED BY ONLY <4>1, <4>2
    <3>4. PICK x \in Int :
            x = round + (ops + j - 1) /\ x + 1 = (round + ops + 1) + (j - 1) /\ x <= x + 1
      <4>1. /\ round + (ops + j - 1) \in Int
            /\ (round + (ops + j - 1)) + 1 = (round + ops + 1) + (j - 1)
            /\ round + (ops + j - 1) <= (round + (ops + j - 1)) + 1
        BY ONLY round \in Nat, ops \in {64, 512}, j \in 1..8
      <4> QED BY <4>1
    <3>5. PICK x1 \in Int : x1 = x + 1 /\ x <= x1
      BY <3>4
    <3>6. d2[x1] = d[x1] + S /\ d[x] <= d[x1] /\ d[x] \in Int /\ d[x1] \in Int
      <4>1. d2[x1] = d[x1] + S
        BY ONLY <1>d, x1 \in Int
      <4>2. d[x] <= d[x1]
        BY ONLY <1>1, <3>5, x \in Int, x1 \in Int
      <4>3. d[x] \in Int /\ d[x1] \in Int
        BY ONLY <1>1, x \in Int, x1 \in Int
      <4> QED BY ONLY <4>1, <4>2, <4>3
    <3>7. PICK y \in Int, y1 \in Int, t \in Nat : y = d[x] /\ y1 = d[x1] /\ t = rs[Eight[j]]
      BY ONLY <2>1, <3>6
    <3>8. t <= y
      BY ONLY <3>1, <3>3, <3>4, <3>7
    <3>9. t <= y1 + S
      BY ONLY <3>6, <3>7, <3>8, y \in Int, y1 \in Int, t \in Nat, S \in Nat
    <3>10. d2[(round + ops + 1) + TurnOf(n, 0, j)] = y1 + S
      BY ONLY <3>3, <3>4, <3>5, <3>6, <3>7
    <3> QED BY ONLY <3>7, <3>9, <3>10
  <2> QED BY ONLY <2>1, <2>2, <2>3, <2>4
<1> QED BY ONLY <1>2, <1>6, <1>7, <1>9, <1>10 DEF LateAt

\* Times counted in turns.
Scaled(f, s) == [x \in DOMAIN f |-> f[x] * s]

\* StreamLate says that.
LEMMA LateIs ==
  TypeOK /\ StreamRow(row) =>
    (StreamLate <=>
       LateAt(Len(row.body), core.pipes, StreamUnit, Regained, Occupied * Shared,
              Own(row.body[1]) * Shared, Shared, Turn(Limit, Shared, iter), Round, pc,
              Scaled(ready, Shared), Scaled(free[StreamUnit], Shared), Scaled(free["alu"], Shared)))
<1> SUFFICES ASSUME TypeOK, StreamRow(row)
             PROVE  StreamLate <=>
                      LateAt(Len(row.body), core.pipes, StreamUnit, Regained, Occupied * Shared,
                             Own(row.body[1]) * Shared, Shared, Turn(Limit, Shared, iter), Round, pc,
                             Scaled(ready, Shared), Scaled(free[StreamUnit], Shared),
                             Scaled(free["alu"], Shared))
  OBVIOUS
<1>1. SizesAre(Len(row.body), core.pipes, Own(row.body[1]), Occupied, Regained, Limit, Shared)
  BY StreamSizes
<1>2. /\ Len(row.body) \in {4, 8} /\ core.pipes \in Nat \ {0} /\ Own(row.body[1]) \in Nat
      /\ Occupied \in Nat /\ Regained \in Nat /\ Limit \in Nat /\ Shared \in Nat \ {0}
  <2>1. Len(row.body) \in {4, 8}
    BY DEF StreamRow
  <2> QED BY ONLY <1>1, <2>1, SizesCost
<1>3. /\ iter \in Nat /\ pc \in Nat /\ row.ops \in Nat /\ StreamUnit \in Units /\ "alu" \in Units
      /\ ready \in [Locations -> Nat] /\ free \in [Units -> [1..core.pipes -> Nat]]
  <2>1. iter \in Nat /\ pc \in Nat
    BY ItersAssumption DEF TypeOK
  <2>2. row.ops \in Nat
    BY DEF StreamRow
  <2>3. StreamUnit \in Units /\ "alu" \in Units
    BY StreamIs DEF Units
  <2> QED BY <2>1, <2>2, <2>3 DEF TypeOK
<1>4. Round \in Nat
  <2>1. \A x, y \in Nat : x * (y + 1) \in Nat
    BY ONLY TRUE
  <2> QED BY ONLY <1>3, <2>1 DEF Round
<1> DEFINE d == Turn(Limit, Shared, iter)
           fs == Scaled(free[StreamUnit], Shared)
           au == Scaled(free["alu"], Shared)
           rs == Scaled(ready, Shared)
           B == Occupied * Shared
           W == Own(row.body[1]) * Shared
<1>5. \A x \in Int : Due(x) = d[x]
  BY DEF Due, Turn
<1>6. ASSUME NEW m \in Nat PROVE Freed(m) = FreedAt(B, d, Round + pc, m)
  <2>1. Round + pc - 1 - m \in Int
    BY ONLY <1>3, <1>4, m \in Nat
  <2>2. Due(Round + pc - 1 - m) = d[Round + pc - 1 - m]
    BY ONLY <1>5, <2>1
  <2>3. PICK k \in Nat : k = Round + pc
    BY ONLY <1>3, <1>4
  <2>4. PICK b \in Nat : b = B
    BY ONLY <1>2
  <2>5. FreedAt(b, d, k, m) = IF k <= m THEN 0 ELSE d[k - 1 - m] + b
    BY ONLY TRUE DEF FreedAt
  <2>6. Due(k - 1 - m) = d[k - 1 - m]
    <3>1. k - 1 - m \in Int
      BY ONLY k \in Nat, m \in Nat
    <3> QED BY ONLY <1>5, <3>1
  <2>7. Freed(m) = IF k <= m THEN 0 ELSE Due(k - 1 - m) + b
    <3>1. Freed(m) = IF Round + pc <= m THEN 0 ELSE Due(Round + pc - 1 - m) + Occupied * Shared
      BY ONLY Zenon DEF Freed
    <3>2. b = Occupied * Shared
      BY <2>4
    <3>3. PICK g : g = Occupied * Shared
      OBVIOUS
    <3>4. Freed(m) = IF Round + pc <= m THEN 0 ELSE Due(Round + pc - 1 - m) + g
      BY ONLY <3>1, <3>3, Zenon
    <3>5. PICK r \in Nat, c \in Nat : r = Round /\ c = pc
      BY ONLY <1>3, <1>4
    <3>6. Freed(m) = IF r + c <= m THEN 0 ELSE Due(r + c - 1 - m) + g
      BY ONLY <3>4, <3>5, Zenon
    <3>7. k = r + c /\ g = b
      BY ONLY <2>3, <3>2, <3>3, <3>5
    <3> QED BY ONLY <3>6, <3>7
  <2> HIDE DEF B, d
  <2>8. FreedAt(B, d, Round + pc, m) = FreedAt(b, d, k, m)
    BY ONLY <2>3, <2>4
  <2> QED BY ONLY <2>5, <2>6, <2>7, <2>8
<1>7. /\ \A p \in 1..core.pipes : fs[p] = free[StreamUnit][p] * Shared
      /\ \A p \in 1..core.pipes : au[p] = free["alu"][p] * Shared
      /\ \A loc \in Locations : rs[loc] = ready[loc] * Shared
  <2>1. DOMAIN free[StreamUnit] = 1..core.pipes /\ DOMAIN free["alu"] = 1..core.pipes
        /\ DOMAIN ready = Locations
    BY ONLY <1>3
  <2> QED BY ONLY <2>1 DEF Scaled
<1>8. ASSUME NEW m \in Nat PROVE Behind(m) = NotFree(core.pipes, fs, FreedAt(B, d, Round + pc, m))
  <2>1. PICK t : t = Freed(m) /\ t = FreedAt(B, d, Round + pc, m)
    BY <1>6
  <2>2. Behind(m) = { p \in 1..core.pipes : free[StreamUnit][p] * Shared > t }
    BY ONLY <2>1 DEF Behind
  <2>3. NotFree(core.pipes, fs, t) = { p \in 1..core.pipes : fs[p] > t }
    BY ONLY TRUE DEF NotFree
  <2> HIDE DEF fs, d, B
  <2> QED BY ONLY <1>7, <2>1, <2>2, <2>3
<1>9. (\A m \in 0..(core.pipes - 1) : Cardinality(Behind(m)) <= m)
        <=> OnTime(core.pipes, B, d, Round + pc, fs)
  <2>1. \A m \in 0..(core.pipes - 1) : m \in Nat
    OBVIOUS
  <2> HIDE DEF fs, d, B
  <2> QED BY ONLY <1>8, <2>1 DEF OnTime
<1>10. LoopEnd.writes = {"i", "CF", "ZF"} /\ DOMAIN Eight = 1..8
  BY LoopEndIs, EightRegisters
<1>11. (StreamUnit # "alu" => \A p \in 1..core.pipes : free["alu"][p] * Shared <= Due(Round))
        <=> (StreamUnit # "alu" => \A p \in 1..core.pipes : au[p] <= d[Round])
  <2>1. Due(Round) = d[Round]
    BY ONLY <1>4, <1>5
  <2> HIDE DEF au, d
  <2> QED BY ONLY <1>7, <2>1
<1>12. {"i", "CF", "ZF", "k", "x", "mem"} \subseteq Locations
  BY LocationsAre
<1>13. (\A loc \in LoopEnd.writes : ready[loc] * Shared <= Due(Round))
         <=> \A loc \in {"i", "CF", "ZF"} : rs[loc] <= d[Round]
  <2>1. Due(Round) = d[Round]
    BY ONLY <1>4, <1>5
  <2> HIDE DEF rs, d
  <2> QED BY ONLY <1>7, <1>10, <1>12, <2>1
<1>14. \A loc \in Locations : ready[loc] = 0 <=> rs[loc] = 0
  <2>1. \A x \in Nat, y \in Nat \ {0} : x = 0 <=> x * y = 0
    BY ONLY TRUE
  <2>2. \A loc \in Locations : ready[loc] \in Nat
    BY ONLY <1>3
  <2> HIDE DEF rs
  <2> QED BY ONLY <1>2, <1>7, <2>1, <2>2
<1>15. (\A loc \in {"k", "x", "mem"} : ready[loc] = 0)
         <=> \A loc \in {"k", "x", "mem"} : rs[loc] = 0
  <2> HIDE DEF rs
  <2> QED BY ONLY <1>12, <1>14
<1>16. LastDue = IF pc = 0 THEN d[Round - 2] - Shared ELSE d[Round + pc - 1]
  <2>1. Round - 2 \in Int /\ Round + pc - 1 \in Int
    BY ONLY <1>3, <1>4
  <2>2. Due(Round - 2) = d[Round - 2] /\ Due(Round + pc - 1) = d[Round + pc - 1]
    BY ONLY <1>5, <2>1
  <2> HIDE DEF d
  <2> QED BY ONLY <2>2 DEF LastDue
<1>17. ASSUME NEW j \in 1..8
       PROVE  /\ (ready[Eight[j]] # 0 =>
                    j <= Len(row.body) /\ ready[Eight[j]] * Shared <= LastDue + Own(row.body[1]) * Shared)
                <=> (rs[Eight[j]] # 0 =>
                       j <= Len(row.body)
                       /\ rs[Eight[j]] <= (IF pc = 0 THEN d[Round - 2] - Shared ELSE d[Round + pc - 1]) + W)
              /\ (j <= Len(row.body) /\ Regained # 0 => ready[Eight[j]] * Shared <= Due(Round + NextOf(j)))
                <=> (j <= Len(row.body) /\ Regained # 0 =>
                       rs[Eight[j]] <= d[Round + TurnOf(Len(row.body), pc, j)])
  <2>1. Eight[j] \in Locations
    BY EightRegisters
  <2>2. rs[Eight[j]] = ready[Eight[j]] * Shared /\ (ready[Eight[j]] = 0 <=> rs[Eight[j]] = 0)
    BY ONLY <1>7, <1>14, <2>1
  <2>3. NextOf(j) = TurnOf(Len(row.body), pc, j)
    BY ONLY TRUE DEF NextOf, TurnOf
  <2>4. j <= Len(row.body) => Due(Round + NextOf(j)) = d[Round + TurnOf(Len(row.body), pc, j)]
    <3>1. SUFFICES ASSUME j <= Len(row.body)
                   PROVE  Due(Round + NextOf(j)) = d[Round + TurnOf(Len(row.body), pc, j)]
      OBVIOUS
    <3>2. PICK n \in {4, 8} : n = Len(row.body)
      BY <1>2
    <3>3. j \in 1..n
      BY ONLY <3>1, <3>2, n \in {4, 8}, j \in 1..8
    <3>4. TurnOf(n, pc, j) \in Nat
      BY <1>3, <3>3, TurnsOf
    <3>5. Round + TurnOf(n, pc, j) \in Int
      BY ONLY <1>4, <3>4
    <3> HIDE DEF d
    <3> QED BY ONLY <1>5, <2>3, <3>2, <3>5
  <2> HIDE DEF rs, d
  <2> QED BY ONLY <1>16, <2>2, <2>4
<1> HIDE DEF fs, au, rs, d
<1>18. StreamLate <=> LateAt(Len(row.body), core.pipes, StreamUnit, Regained, B, W, Shared, d,
                             Round, pc, rs, fs, au)
  BY ONLY <1>9, <1>10, <1>11, <1>13, <1>15, <1>17 DEF StreamLate, LateAt
<1> QED BY ONLY <1>18 DEF d, fs, au, rs

\* The same of the next state.
LEMMA LateIsNext ==
  (TypeOK /\ StreamRow(row) =>
    (StreamLate <=>
       LateAt(Len(row.body), core.pipes, StreamUnit, Regained, Occupied * Shared,
              Own(row.body[1]) * Shared, Shared, Turn(Limit, Shared, iter), Round, pc,
              Scaled(ready, Shared), Scaled(free[StreamUnit], Shared), Scaled(free["alu"], Shared))))'
  BY LateIs, PTL

\* An instruction of a stream begins at `start' on the pipe p: when the pipe is free and,
\* if it waits for its own register, that is there.
Begins(start, p) ==
  LET own == Eight[(pc % Len(row.body)) + 1]
      pipe == free[StreamUnit][p]
  IN  /\ \A q \in 1..core.pipes : pipe <= free[StreamUnit][q]
      /\ start >= pipe
      /\ IF Regained = 0 THEN start = pipe \/ start <= ready["k"]
                         ELSE start >= ready[own] /\ start \in {pipe, ready[own]}
      /\ ready' = [ready EXCEPT ![own] = start + Own(row.body[1])]
      /\ free' = [free EXCEPT ![StreamUnit][p] = start + Occupied]

\* So does the end of the loop, whose register is the counter.
Ends(start, p) ==
  /\ start >= free["alu"][p] /\ start >= ready["i"] /\ start \in {free["alu"][p], ready["i"]}
  /\ \A q \in 1..core.pipes : free["alu"][p] <= free["alu"][q]
  /\ ready' = [loc \in Locations |-> IF loc \in {"i", "CF", "ZF"} THEN start + 1 ELSE ready[loc]]
  /\ free' = [free EXCEPT !["alu"][p] = start + 1]

\* An instruction of the row is one of its streams.
LEMMA StreamBegins ==
  ASSUME TypeOK, StreamRow(row), phase = "bench", Execute, pc < row.ops
  PROVE  \E start \in Nat, p \in 1..core.pipes : Begins(start, p)
<1>1. /\ Len(row.body) \in {4, 8} /\ pc \in 0..row.ops
      /\ (pc % Len(row.body)) + 1 \in 1..Len(row.body)
      /\ NextInstruction = row.body[(pc % Len(row.body)) + 1]
  BY StreamNext
<1>2. PICK n \in {4, 8} : n = Len(row.body)
  BY <1>1
<1>3. PICK j \in 1..n : j = (pc % n) + 1
  BY <1>1, <1>2
<1>4. PICK insn : insn = row.body[j]
  OBVIOUS
<1>5. /\ GoodInsn(row, insn) /\ Timed(insn) /\ Release(insn) \in Nat
  BY <1>1, <1>2, <1>3, <1>4, Executed
<1>6. /\ insn.unit = StreamUnit /\ insn.writes = {Eight[j]}
      /\ Own(insn) = Own(row.body[1]) /\ Busy(insn) = Occupied
      /\ IF Regained = 0 THEN \A r \in Waits(insn) : r[1] = "k"
         ELSE \A r \in Waits(insn) : r[1] = Eight[j]
  BY <1>2, <1>4, StreamIs
<1>7. PICK w \in Nat : w = Own(row.body[1])
  BY StreamIs, MaxLatAssumption
<1>8. PICK p : p = FirstFree(StreamUnit)
  OBVIOUS
<1>9. p \in 1..core.pipes /\ \A q \in 1..core.pipes : free[StreamUnit][p] <= free[StreamUnit][q]
  BY <1>5, <1>6, <1>8 DEF Timed
<1>10. StreamUnit \in Units /\ free \in [Units -> [1..core.pipes -> Nat]]
       /\ ready \in [Locations -> Nat]
  BY StreamIs DEF TypeOK, Units
<1>11. PICK f \in Nat : f = free[StreamUnit][p]
  BY <1>9, <1>10
<1>12. PICK fin \in Nat : fin = Finish(insn)
  BY <1>5 DEF Timed
<1>13. /\ fin >= f + w
       /\ \A r \in Waits(insn) : fin >= ready[r[1]] + Latency(r[2]) /\ Latency(r[2]) \in 0..w
       /\ fin = f + w \/ \E r \in Waits(insn) : fin = ready[r[1]] + Latency(r[2])
       /\ \E r \in Waits(insn) : Latency(r[2]) = w
  BY <1>5, <1>6, <1>7, <1>8, <1>11, <1>12 DEF Timed
<1>14. PICK start \in Nat : start = fin - w /\ fin = start + w /\ start >= f
  <2>1. fin - w \in Nat /\ fin = (fin - w) + w /\ fin - w >= f
    BY ONLY <1>13, fin \in Nat, w \in Nat, f \in Nat
  <2> QED BY <2>1
<1>15. PICK source \in Locations : \A r \in Waits(insn) : r[1] = source
  <2>1. Eight[j] \in Locations /\ "k" \in Locations
    <3>1. j \in 1..8
      BY ONLY n \in {4, 8}, j \in 1..n
    <3> QED BY <3>1, EightRegisters, LocationsAre
  <2> QED BY <1>6, <2>1
<1>16. PICK at \in Nat : at = ready[source]
  BY <1>10
<1>18. start >= at
  <2>1. PICK r \in Waits(insn) : Latency(r[2]) = w
    BY <1>13
  <2>2. fin >= at + w
    BY <1>13, <1>15, <1>16, <2>1
  <2> QED BY ONLY <1>14, <2>2, at \in Nat, fin \in Nat, w \in Nat, start \in Nat
<1>19. start \in {f, at}
  <2>1. CASE fin = f + w
    BY <1>14, <2>1
  <2>2. ASSUME NEW r \in Waits(insn), fin = ready[r[1]] + Latency(r[2])
        PROVE  start = at
    <3>1. PICK l \in 0..w : l = Latency(r[2])
      BY <1>13
    <3>2. fin = at + l
      BY <1>15, <1>16, <2>2, <3>1
    <3> QED BY ONLY <1>14, <1>18, <3>2, at \in Nat, w \in Nat, start \in Nat, l \in 0..w
  <2> QED BY <1>13, <2>1, <2>2
<1>20. IF Regained = 0 THEN source = "k" ELSE source = Eight[j]
  BY <1>6, <1>13, <1>15
<1>21. IF Regained = 0 THEN start = f \/ start <= ready["k"]
       ELSE start >= ready[Eight[j]] /\ start \in {f, ready[Eight[j]]}
  BY <1>16, <1>18, <1>19, <1>20
<1>22. ready' = [ready EXCEPT ![Eight[j]] = start + w]
  <2>1. ready' = [loc \in Locations |-> IF loc \in insn.writes THEN Finish(insn) ELSE ready[loc]]
    BY <1>1, <1>2, <1>3, <1>4 DEF Execute
  <2> QED BY ONLY <1>6, <1>10, <1>12, <1>14, <2>1
<1>23. Release(insn) = start + Occupied
  <2>1. PICK b \in Nat : b = Occupied
    BY StreamIs, MaxLatAssumption
  <2>2. Release(insn) = fin - w + b
    BY <1>6, <1>7, <1>12, <2>1 DEF Release
  <2> QED BY ONLY <1>14, <2>1, <2>2
<1>24. free' = [free EXCEPT ![StreamUnit][p] = start + Occupied]
  <2>1. free' = [free EXCEPT ![insn.unit][FirstFree(insn.unit)] = Release(insn)]
    BY <1>1, <1>2, <1>3, <1>4 DEF Execute, Release
  <2> QED BY ONLY <1>6, <1>8, <1>23, <2>1
<1>25. Begins(start, p)
  BY ONLY <1>2, <1>3, <1>7, <1>9, <1>11, <1>14, <1>21, <1>22, <1>24 DEF Begins
<1> QED BY <1>9, <1>25

\* The last instruction of an iteration is the end of the loop.
LEMMA StreamEnds ==
  ASSUME TypeOK, StreamRow(row), phase = "bench", Execute, pc = row.ops
  PROVE  \E start \in Nat, p \in 1..core.pipes : Ends(start, p)
<1>1. NextInstruction = LoopEnd
  BY StreamNext
<1>2. /\ GoodInsn(row, LoopEnd) /\ Timed(LoopEnd)
  BY <1>1, Executed
<1>3. /\ Own(LoopEnd) = 1 /\ LoopEnd.writes = {"i", "CF", "ZF"}
      /\ LoopEnd.unit = "alu" /\ Waits(LoopEnd) = {<<"i", "one">>} /\ Latency("one") = 1
  BY LoopEndIs, LatencyIs
<1>4. PICK p : p = FirstFree("alu")
  OBVIOUS
<1>5. p \in 1..core.pipes /\ \A q \in 1..core.pipes : free["alu"][p] <= free["alu"][q]
  BY <1>2, <1>3, <1>4 DEF Timed
<1>6. "alu" \in Units /\ "i" \in Locations /\ free \in [Units -> [1..core.pipes -> Nat]]
      /\ ready \in [Locations -> Nat]
  BY LocationsAre DEF TypeOK, Units
<1>7. PICK f \in Nat, at \in Nat : f = free["alu"][p] /\ at = ready["i"]
  BY <1>5, <1>6
<1>8. PICK fin \in Nat : fin = Finish(LoopEnd)
  BY <1>2 DEF Timed
<1>9. fin >= f + 1 /\ fin >= at + 1 /\ fin \in {f + 1, at + 1}
  BY <1>2, <1>3, <1>4, <1>7, <1>8 DEF Timed
<1>10. PICK start \in Nat : fin = start + 1 /\ start >= f /\ start >= at /\ start \in {f, at}
  <2>1. fin - 1 \in Nat /\ fin = (fin - 1) + 1 /\ fin - 1 >= f /\ fin - 1 >= at
        /\ fin - 1 \in {f, at}
    BY ONLY <1>9, f \in Nat, at \in Nat, fin \in Nat
  <2> QED BY <2>1
<1>11. ready' = [loc \in Locations |-> IF loc \in {"i", "CF", "ZF"} THEN start + 1 ELSE ready[loc]]
  <2>1. ready' = [loc \in Locations |-> IF loc \in LoopEnd.writes THEN Finish(LoopEnd) ELSE ready[loc]]
    BY <1>1 DEF Execute
  <2> QED BY ONLY <1>3, <1>8, <1>10, <2>1
<1>12. free' = [free EXCEPT !["alu"][p] = start + 1]
  <2>1. free' = [free EXCEPT ![LoopEnd.unit][FirstFree(LoopEnd.unit)] = Release(LoopEnd)]
    BY <1>1 DEF Execute, Release
  <2>2. Busy(LoopEnd) = 1
    BY <1>3 DEF Busy
  <2>3. Release(LoopEnd) = start + 1
    BY ONLY <1>3, <1>8, <1>10, <2>2, start \in Nat DEF Release
  <2> QED BY ONLY <1>3, <1>4, <2>1, <2>3
<1>13. Ends(start, p)
  BY ONLY <1>5, <1>7, <1>10, <1>11, <1>12 DEF Ends
<1> QED BY <1>5, <1>13

\* The sizes do not change with the measurement.
LEMMA StreamSame ==
  ASSUME TypeOK, StreamRow(row), row' = row, core' = core
  PROVE  /\ StreamUnit' = StreamUnit /\ Regained' = Regained /\ Occupied' = Occupied
         /\ Limit' = Limit /\ Shared' = Shared /\ Own(row.body[1])' = Own(row.body[1])
<1>1. StreamUnit' = StreamUnit
  BY DEF StreamUnit
<1>2. Regained' = Regained
  BY DEF Regained, Carried
<1>3. Occupied' = Occupied
  BY DEF Occupied, Paths
<1>4. Limit' = Limit /\ Shared' = Shared
  BY <1>2, <1>3 DEF Limit, Shared
<1>5. row.body[1].loads = {}
  <2>1. 1 \in 1..Len(row.body)
    <3>1. PICK n \in {4, 8} : n = Len(row.body)
      BY DEF StreamRow
    <3>2. 1 \in 1..n
      BY ONLY n \in {4, 8}
    <3> QED BY ONLY <3>1, <3>2
  <2>2. PICK unit \in {"alu", "fp", "load"}, paths \in (SUBSET Plain) \ {{}}, from \in {"own", "k"} :
          \A j \in 1..Len(row.body) :
            row.body[j] = Op(unit, {IF from = "k" THEN "k" ELSE Eight[j]} \X paths, {Eight[j]})
    BY DEF StreamRow
  <2>3. row.body[1] = Op(unit, {IF from = "k" THEN "k" ELSE Eight[1]} \X paths, {Eight[1]})
    BY ONLY <2>1, <2>2
  <2> QED BY ONLY <2>3 DEF Op
<1>6. ForwardPaths({}) = {} /\ ForwardPaths({})' = {}
  BY DEF ForwardPaths
<1>7. Waits(row.body[1]) = row.body[1].reads /\ Waits(row.body[1])' = row.body[1].reads
  <2>1. {"mem"} \X {} = {}
    OBVIOUS
  <2> QED BY <1>5, <1>6, <2>1 DEF Waits
<1>8. \A q : Latency(q)' = Latency(q)
  BY DEF Latency
<1>9. Own(row.body[1])' = Own(row.body[1])
  BY <1>7, <1>8 DEF Own
<1> QED BY <1>1, <1>2, <1>3, <1>4, <1>9

\* A change, counted in turns.
LEMMA ScaledExcept ==
  \A f, s, x, v, w : x \in DOMAIN f /\ v * s = w =>
    Scaled([f EXCEPT ![x] = v], s) = [Scaled(f, s) EXCEPT ![x] = w]
BY DEF Scaled

\* No instruction of a stream begins later than it is due.
LEMMA LateBegins ==
  ASSUME TypeOK, TypeOK', StreamRow(row), StreamLate, row' = row, core' = core,
         pc \in Nat, pc' = pc + 1, iter' = iter,
         NEW start \in Nat, NEW p \in 1..core.pipes, Begins(start, p)
  PROVE  StreamLate'
<1>0. PICK n \in {4, 8} : n = Len(row.body)
  BY DEF StreamRow
<1>1. PICK pipes, own, busy, back, limit, shared :
        /\ n = Len(row.body) /\ pipes = core.pipes /\ own = Own(row.body[1]) /\ busy = Occupied
        /\ back = Regained /\ limit = Limit /\ shared = Shared
  BY <1>0
<1>2. SizesAre(n, pipes, own, busy, back, limit, shared)
  <2>1. SizesAre(Len(row.body), core.pipes, Own(row.body[1]), Occupied, Regained, Limit, Shared)
    BY StreamSizes
  <2> QED BY ONLY <1>1, <2>1
<1>3. /\ pipes \in Nat \ {0} /\ own \in Nat \ {0} /\ busy \in Nat \ {0}
      /\ back \in Nat /\ limit \in Nat \ {0} /\ shared \in Nat \ {0}
  BY ONLY <1>2, SizesCost
<1>4. back \in {0, own}
  BY ONLY <1>2 DEF SizesAre
<1>5. PICK it \in Nat, c \in Nat, ops \in Nat : it = iter /\ c = pc /\ ops = row.ops
  <2>1. iter \in Nat
    BY ItersAssumption DEF TypeOK
  <2>2. row.ops \in Nat
    BY DEF StreamRow
  <2> QED BY <2>1, <2>2
<1>6. PICK round \in Nat : round = Round
  <2>1. it * (ops + 1) \in Nat
    BY ONLY it \in Nat, ops \in Nat
  <2> QED BY ONLY <1>5, <2>1 DEF Round
<1>7. PICK B \in Nat, W \in Nat, R \in Nat :
        B = busy * shared /\ W = own * shared /\ R = back * shared
  <2>1. \A x, y \in Nat : x * y \in Nat
    BY ONLY TRUE
  <2> QED BY ONLY <1>3, <2>1
<1>8. PICK unit : unit = StreamUnit
  OBVIOUS
<1>9. PICK d : d = Turn(limit, shared, it)
  OBVIOUS
<1>10. Grows(n, pipes, B, R, d)
  <2>1. Grows(n, pipes, busy * shared, back * shared, Turn(limit, shared, it))
    BY ONLY <1>2, it \in Nat, TurnGrows
  <2> QED BY ONLY <1>7, <1>9, <2>1
<1>11. PICK rs, fs, au : /\ rs = Scaled(ready, shared) /\ fs = Scaled(free[unit], shared)
                        /\ au = Scaled(free["alu"], shared)
  OBVIOUS
<1>12. PICK rs2, fs2, au2 : /\ rs2 = Scaled(ready', shared) /\ fs2 = Scaled(free'[unit], shared)
                           /\ au2 = Scaled(free'["alu"], shared)
  OBVIOUS
<1>13. LateAt(n, pipes, unit, back, B, W, shared, d, round, c, rs, fs, au)
  <2>1. LateAt(Len(row.body), core.pipes, StreamUnit, Regained, Occupied * Shared,
               Own(row.body[1]) * Shared, Shared, Turn(Limit, Shared, iter), Round, pc,
               Scaled(ready, Shared), Scaled(free[StreamUnit], Shared), Scaled(free["alu"], Shared))
    BY LateIs
  <2> QED BY ONLY <1>1, <1>5, <1>6, <1>7, <1>8, <1>9, <1>11, <2>1
<1>14. /\ unit \in Units /\ "alu" \in Units
       /\ ready \in [Locations -> Nat] /\ free \in [Units -> [1..pipes -> Nat]]
  BY <1>1, <1>8, StreamIs DEF TypeOK, Units
<1>15. /\ free[unit] \in [1..pipes -> Nat] /\ shared \in Nat
  BY ONLY <1>3, <1>14
<1>16. /\ rs \in [Locations -> Nat] /\ \A loc \in Locations : rs[loc] = ready[loc] * shared
  BY ONLY <1>11, <1>14, <1>15 DEF Scaled
<1>17. /\ fs \in [1..pipes -> Nat] /\ \A q \in 1..pipes : fs[q] = free[unit][q] * shared
  <2>1. PICK g : g = free[unit] /\ g \in [1..pipes -> Nat]
    BY ONLY <1>15
  <2>2. fs = Scaled(g, shared)
    BY ONLY <1>11, <2>1
  <2>3. fs \in [1..pipes -> Nat] /\ \A q \in 1..pipes : fs[q] = g[q] * shared
    BY ONLY <1>3, <2>1, <2>2 DEF Scaled
  <2> QED BY ONLY <2>1, <2>3
<1>18. PICK j0 \in 1..n : j0 = (c % n) + 1
  <2>1. c % n \in 0..(n - 1)
    BY Turns
  <2>2. PICK r \in 0..(n - 1) : r = c % n
    BY <2>1
  <2>3. r + 1 \in 1..n
    BY ONLY n \in {4, 8}, r \in 0..(n - 1)
  <2> QED BY ONLY <2>2, <2>3
<1>19. Eight[j0] \in Locations /\ "k" \in Locations /\ j0 \in 1..8
  <2>1. j0 \in 1..8
    BY ONLY n \in {4, 8}, j0 \in 1..n
  <2> QED BY <2>1, EightRegisters, LocationsAre
<1>20. PICK f \in Nat, at \in Nat : f = free[unit][p] /\ at = ready[Eight[j0]]
  BY ONLY <1>1, <1>14, <1>15, <1>19, p \in 1..core.pipes
<1>21. /\ \A q \in 1..pipes : f <= free[unit][q]
       /\ start >= f
       /\ IF back = 0 THEN start = f \/ start <= ready["k"] ELSE start >= at /\ start \in {f, at}
       /\ ready' = [ready EXCEPT ![Eight[j0]] = start + own]
       /\ free' = [free EXCEPT ![unit][p] = start + busy]
  BY ONLY <1>1, <1>5, <1>8, <1>18, <1>20, Begins(start, p) DEF Begins
<1>22. PICK due \in Nat : due = d[round + c]
  BY ONLY <1>10, round \in Nat, c \in Nat DEF Grows
<1>23. f * shared <= due
  <2>1. PICK q \in 1..pipes : fs[q] <= due
    <3>1. PICK k \in Nat : k = round + c /\ due = d[k]
      <4>1. round + c \in Nat
        BY ONLY round \in Nat, c \in Nat
      <4> QED BY ONLY <1>22, <4>1
    <3>2. OnTime(pipes, B, d, k, fs)
      BY ONLY <1>13, <3>1 DEF LateAt
    <3>3. Turning(n, pipes, B, R, d, k, fs)
      BY ONLY <1>3, <1>10, <1>17, <3>2, n \in {4, 8}, B \in Nat, R \in Nat, k \in Nat DEF Turning
    <3> QED BY ONLY <3>1, <3>3, BeginsInTime
  <2>2. f * shared <= free[unit][q] * shared
    <3>1. \A x, y, z \in Nat : x <= y => x * z <= y * z
      BY ONLY TRUE
    <3> QED BY ONLY <1>3, <1>15, <1>21, <3>1, f \in Nat, q \in 1..pipes
  <2>3. free[unit][q] * shared = fs[q] /\ fs[q] \in Nat
    BY ONLY <1>17, q \in 1..pipes
  <2>4. f * shared \in Nat
    BY ONLY <1>3, f \in Nat
  <2> QED BY ONLY <2>1, <2>2, <2>3, <2>4, due \in Nat
<1>24. back # 0 => at * shared <= due
  <2>1. back # 0 => rs[Eight[j0]] <= d[round + TurnOf(n, c, j0)]
    BY ONLY <1>13, <1>19, n \in {4, 8}, j0 \in 1..n DEF LateAt
  <2>2. TurnOf(n, c, j0) = c
    BY <1>18, TurnsOf
  <2> QED BY ONLY <1>16, <1>19, <1>20, <1>22, <2>1, <2>2
<1>25. back = 0 => ready["k"] = 0
  <2>1. rs["k"] = 0
    BY ONLY <1>13 DEF LateAt
  <2>2. \A x \in Nat, y \in Nat \ {0} : x * y = 0 => x = 0
    BY ONLY TRUE
  <2>3. ready["k"] \in Nat /\ rs["k"] = ready["k"] * shared
    BY ONLY <1>14, <1>16, <1>19
  <2> QED BY ONLY <1>3, <2>1, <2>2, <2>3
<1>26. PICK begun \in Nat : begun = start * shared /\ begun <= due
  <2>1. start * shared \in Nat /\ 0 * shared = 0
    BY ONLY <1>3, start \in Nat
  <2>2. start = f \/ start = 0 \/ (back # 0 /\ start = at)
    BY ONLY <1>21, <1>25, start \in Nat
  <2> QED BY ONLY <1>23, <1>24, <2>1, <2>2, due \in Nat
<1>27. rs2 = [rs EXCEPT ![Eight[j0]] = begun + W]
  <2>1. PICK v \in Nat, b \in Nat : v = start + own /\ v * shared = b /\ b = begun + W
    <3>1. start + own \in Nat /\ (start + own) * shared = begun + W /\ begun + W \in Nat
      BY ONLY <1>3, <1>7, <1>26, start \in Nat
    <3> QED BY ONLY <3>1
  <2>2. PICK x \in Locations : x = Eight[j0]
    BY ONLY <1>19
  <2>3. ready' = [ready EXCEPT ![x] = v]
    BY ONLY <1>21, <2>1, <2>2
  <2>4. rs2 = [rs EXCEPT ![x] = b]
    <3>1. x \in DOMAIN ready
      BY ONLY <1>14, x \in Locations
    <3>2. Scaled([ready EXCEPT ![x] = v], shared) = [Scaled(ready, shared) EXCEPT ![x] = b]
      BY <2>1, <3>1, ScaledExcept
    <3> QED BY ONLY <1>11, <1>12, <2>3, <3>2
  <2> QED BY ONLY <2>1, <2>2, <2>4
<1>28. fs2 = [fs EXCEPT ![p] = begun + B]
  <2>1. PICK v \in Nat, b \in Nat : v = start + busy /\ v * shared = b /\ b = begun + B
    <3>1. start + busy \in Nat /\ (start + busy) * shared = begun + B /\ begun + B \in Nat
      BY ONLY <1>3, <1>7, <1>26, start \in Nat
    <3> QED BY ONLY <3>1
  <2>2. free'[unit] = [free[unit] EXCEPT ![p] = v]
    BY ONLY <1>14, <1>21, <2>1
  <2>3. p \in 1..pipes
    BY ONLY <1>1, p \in 1..core.pipes
  <2>4. fs2 = [fs EXCEPT ![p] = b]
    <3>1. p \in DOMAIN free[unit]
      BY ONLY <1>15, <2>3
    <3>2. Scaled([free[unit] EXCEPT ![p] = v], shared) = [Scaled(free[unit], shared) EXCEPT ![p] = b]
      BY <2>1, <3>1, ScaledExcept
    <3> QED BY ONLY <1>11, <1>12, <2>2, <3>2
  <2> QED BY ONLY <2>1, <2>4
<1>29. unit # "alu" => au2 = au
  <2>1. unit # "alu" => free'["alu"] = free["alu"]
    BY ONLY <1>14, <1>21
  <2> QED BY ONLY <1>11, <1>12, <2>1
<1>30. back # 0 => R = W
  BY ONLY <1>4, <1>7
<1>31. LateAt(n, pipes, unit, back, B, W, shared, d, round, c + 1, rs2, fs2, au2)
  <2>1. shared \in Nat /\ back \in Nat /\ pipes \in Nat \ {0} /\ begun <= d[round + c]
        /\ p \in 1..pipes
    BY ONLY <1>1, <1>3, <1>22, <1>26, p \in 1..core.pipes
  <2> QED BY ONLY <1>10, <1>13, <1>16, <1>17, <1>18, <1>27, <1>28, <1>29, <1>30, <2>1, LateStream,
                  n \in {4, 8}, B \in Nat, W \in Nat, R \in Nat, round \in Nat, c \in Nat,
                  begun \in Nat, j0 \in 1..n
<1>32. /\ n = Len(row'.body) /\ pipes = core'.pipes /\ own = Own(row.body[1])' /\ busy = Occupied'
       /\ back = Regained' /\ limit = Limit' /\ shared = Shared' /\ unit = StreamUnit'
       /\ it = iter' /\ c + 1 = pc' /\ round = Round'
  <2>1. Round' = Round
    BY DEF Round
  <2>2. /\ StreamUnit' = StreamUnit /\ Regained' = Regained /\ Occupied' = Occupied
        /\ Limit' = Limit /\ Shared' = Shared /\ Own(row.body[1])' = Own(row.body[1])
    BY StreamSame
  <2> QED BY ONLY <1>1, <1>5, <1>6, <1>8, <2>1, <2>2, row' = row, core' = core, iter' = iter,
                  pc' = pc + 1
<1>33. LateAt(Len(row.body), core.pipes, StreamUnit, Regained, Occupied * Shared,
              Own(row.body[1]) * Shared, Shared, Turn(Limit, Shared, iter), Round, pc,
              Scaled(ready, Shared), Scaled(free[StreamUnit], Shared), Scaled(free["alu"], Shared))'
  BY ONLY <1>7, <1>9, <1>12, <1>31, <1>32
<1>34. StreamRow(row)'
  BY ONLY StreamRow(row), row' = row
<1> QED BY <1>33, <1>34, LateIsNext

\* Nor does the end of the loop make the next iteration later than a cycle.
LEMMA LateEnds ==
  ASSUME TypeOK, TypeOK', StreamRow(row), StreamLate, row' = row, core' = core,
         row.ops \in {64, 512}, pc = row.ops, pc' = 0, iter' = iter + 1,
         NEW start \in Nat, NEW p \in 1..core.pipes, Ends(start, p)
  PROVE  StreamLate'
<1>0. PICK n \in {4, 8} : n = Len(row.body)
  BY DEF StreamRow
<1>1. PICK pipes, own, busy, back, limit, shared :
        /\ n = Len(row.body) /\ pipes = core.pipes /\ own = Own(row.body[1]) /\ busy = Occupied
        /\ back = Regained /\ limit = Limit /\ shared = Shared
  BY <1>0
<1>2. SizesAre(n, pipes, own, busy, back, limit, shared)
  <2>1. SizesAre(Len(row.body), core.pipes, Own(row.body[1]), Occupied, Regained, Limit, Shared)
    BY StreamSizes
  <2> QED BY ONLY <1>1, <2>1
<1>3. /\ pipes \in Nat \ {0} /\ own \in Nat \ {0} /\ busy \in Nat \ {0}
      /\ back \in Nat /\ limit \in Nat \ {0} /\ shared \in Nat \ {0}
  BY ONLY <1>2, SizesCost
<1>4. back \in {0, own}
  BY ONLY <1>2 DEF SizesAre
<1>5. PICK it \in Nat, ops \in {64, 512} : it = iter /\ ops = pc /\ ops = row.ops
  <2>1. iter \in Nat
    BY ItersAssumption DEF TypeOK
  <2> QED BY <2>1
<1>6. PICK round \in Nat : round = Round
  <2>1. it * (ops + 1) \in Nat
    BY ONLY it \in Nat, ops \in {64, 512}
  <2> QED BY ONLY <1>5, <2>1 DEF Round
<1>7. PICK B \in Nat, W \in Nat, R \in Nat :
        B = busy * shared /\ W = own * shared /\ R = back * shared
  <2>1. \A x, y \in Nat : x * y \in Nat
    BY ONLY TRUE
  <2> QED BY ONLY <1>3, <2>1
<1>8. PICK unit : unit = StreamUnit
  OBVIOUS
<1>9. PICK d : d = Turn(limit, shared, it)
  OBVIOUS
<1>10. Grows(n, pipes, B, R, d)
  <2>1. Grows(n, pipes, busy * shared, back * shared, Turn(limit, shared, it))
    BY ONLY <1>2, it \in Nat, TurnGrows
  <2> QED BY ONLY <1>7, <1>9, <2>1
<1>11. PICK rs, fs, au : /\ rs = Scaled(ready, shared) /\ fs = Scaled(free[unit], shared)
                        /\ au = Scaled(free["alu"], shared)
  OBVIOUS
<1>12. PICK rs2, fs2, au2 : /\ rs2 = Scaled(ready', shared) /\ fs2 = Scaled(free'[unit], shared)
                           /\ au2 = Scaled(free'["alu"], shared)
  OBVIOUS
<1>13. LateAt(n, pipes, unit, back, B, W, shared, d, round, ops, rs, fs, au)
  <2>1. LateAt(Len(row.body), core.pipes, StreamUnit, Regained, Occupied * Shared,
               Own(row.body[1]) * Shared, Shared, Turn(Limit, Shared, iter), Round, pc,
               Scaled(ready, Shared), Scaled(free[StreamUnit], Shared), Scaled(free["alu"], Shared))
    BY LateIs
  <2> QED BY ONLY <1>1, <1>5, <1>6, <1>7, <1>8, <1>9, <1>11, <2>1
<1>14. /\ unit \in Units /\ "alu" \in Units
       /\ ready \in [Locations -> Nat] /\ free \in [Units -> [1..pipes -> Nat]]
  BY <1>1, <1>8, StreamIs DEF TypeOK, Units
<1>15. /\ free[unit] \in [1..pipes -> Nat] /\ shared \in Nat
  BY ONLY <1>3, <1>14
<1>16. /\ rs \in [Locations -> Nat] /\ \A loc \in Locations : rs[loc] = ready[loc] * shared
  BY ONLY <1>11, <1>14, <1>15 DEF Scaled
<1>17. /\ fs \in [1..pipes -> Nat] /\ \A q \in 1..pipes : fs[q] = free[unit][q] * shared
  <2>1. PICK g : g = free[unit] /\ g \in [1..pipes -> Nat]
    BY ONLY <1>15
  <2>2. fs = Scaled(g, shared)
    BY ONLY <1>11, <2>1
  <2>3. fs \in [1..pipes -> Nat] /\ \A q \in 1..pipes : fs[q] = g[q] * shared
    BY ONLY <1>3, <2>1, <2>2 DEF Scaled
  <2> QED BY ONLY <2>1, <2>3
<1>18. au \in [1..pipes -> Nat] /\ \A q \in 1..pipes : au[q] = free["alu"][q] * shared
  <2>1. PICK g : g = free["alu"] /\ g \in [1..pipes -> Nat]
    BY ONLY <1>14
  <2>2. au = Scaled(g, shared)
    BY ONLY <1>11, <2>1
  <2>3. au \in [1..pipes -> Nat] /\ \A q \in 1..pipes : au[q] = g[q] * shared
    BY ONLY <1>3, <2>1, <2>2 DEF Scaled
  <2> QED BY ONLY <2>1, <2>3
<1>19. "i" \in Locations /\ p \in 1..pipes
  BY <1>1, LocationsAre
<1>20. PICK f \in Nat, at \in Nat : f = free["alu"][p] /\ at = ready["i"]
  <2>1. free["alu"] \in [1..pipes -> Nat]
    BY ONLY <1>14
  <2>2. free["alu"][p] \in Nat
    <3>1. PICK g : g = free["alu"] /\ g \in [1..pipes -> Nat]
      BY ONLY <2>1
    <3>2. g[p] \in Nat
      <4>1. p \in 1..pipes
        BY ONLY <1>19
      <4> QED BY ONLY <3>1, <4>1
    <3> QED BY ONLY <3>1, <3>2
  <2>3. ready["i"] \in Nat
    BY ONLY <1>14, <1>19
  <2> QED BY ONLY <2>2, <2>3
<1>21. /\ \A q \in 1..pipes : f <= free["alu"][q]
       /\ start \in {f, at}
       /\ ready' = [loc \in Locations |-> IF loc \in {"i", "CF", "ZF"} THEN start + 1 ELSE ready[loc]]
       /\ free' = [free EXCEPT !["alu"][p] = start + 1]
  BY ONLY <1>1, <1>20, Ends(start, p) DEF Ends
<1>22. PICK due \in Nat, soon \in Nat : due = d[round + ops] /\ soon = d[round] /\ soon <= due
  <2>1. d[round + ops] \in Nat /\ d[round] \in Nat /\ d[round] <= d[round + ops]
    <3>1. round + ops \in Nat /\ round <= round + ops /\ round \in Int /\ round + ops \in Int
      BY ONLY round \in Nat, ops \in {64, 512}
    <3>2. (\A x \in Nat : d[x] \in Nat) /\ \A x, y \in Int : x <= y => d[x] <= d[y]
      BY ONLY <1>10 DEF Grows
    <3> QED BY ONLY <3>1, <3>2, round \in Nat
  <2> QED BY ONLY <2>1
<1>23. f * shared <= due
  <2>1. CASE unit # "alu"
    <3>1. au[p] <= soon /\ au[p] = f * shared
      BY ONLY <1>13, <1>18, <1>19, <1>20, <1>22, <2>1 DEF LateAt
    <3>2. f * shared \in Nat
      BY ONLY <1>3, f \in Nat
    <3> QED BY ONLY <1>22, <3>1, <3>2, due \in Nat, soon \in Nat
  <2>2. CASE unit = "alu"
    <3>1. PICK q \in 1..pipes : fs[q] <= due
      <4>1. PICK k \in Nat : k = round + ops /\ due = d[k]
        <5>1. round + ops \in Nat
          BY ONLY round \in Nat, ops \in {64, 512}
        <5> QED BY ONLY <1>22, <5>1
      <4>2. OnTime(pipes, B, d, k, fs)
        BY ONLY <1>13, <4>1 DEF LateAt
      <4>3. Turning(n, pipes, B, R, d, k, fs)
        BY ONLY <1>3, <1>10, <1>17, <4>2, n \in {4, 8}, B \in Nat, R \in Nat, k \in Nat DEF Turning
      <4> QED BY ONLY <4>1, <4>3, BeginsInTime
    <3>2. f * shared <= free[unit][q] * shared
      <4>1. \A x, y, z \in Nat : x <= y => x * z <= y * z
        BY ONLY TRUE
      <4>2. free[unit][q] \in Nat /\ f <= free[unit][q]
        <5>1. PICK g : g = free["alu"] /\ g \in [1..pipes -> Nat]
          BY ONLY <1>14
        <5>2. g[q] \in Nat /\ g[q] = free[unit][q]
          BY ONLY <2>2, <5>1, q \in 1..pipes, ZenonT(60)
        <5> QED BY ONLY <1>21, <2>2, <5>1, <5>2, q \in 1..pipes, SMTT(30)
      <4> QED BY ONLY <1>3, <4>1, <4>2, f \in Nat
    <3>3. free[unit][q] * shared = fs[q] /\ fs[q] \in Nat
      BY ONLY <1>17, q \in 1..pipes
    <3>4. f * shared \in Nat
      BY ONLY <1>3, f \in Nat
    <3> QED BY ONLY <3>1, <3>2, <3>3, <3>4, due \in Nat
  <2> QED BY ONLY <2>1, <2>2
<1>24. at * shared <= due
  <2>1. rs["i"] <= soon
    BY ONLY <1>13, <1>22 DEF LateAt
  <2>2. rs["i"] = at * shared
    BY ONLY <1>16, <1>19, <1>20
  <2>3. at * shared \in Nat
    BY ONLY <1>3, at \in Nat
  <2> QED BY ONLY <1>22, <2>1, <2>2, <2>3, due \in Nat, soon \in Nat
<1>25. PICK begun \in Nat : begun = start * shared /\ begun <= due
  <2>1. start * shared \in Nat
    BY ONLY <1>3, start \in Nat
  <2> QED BY ONLY <1>21, <1>23, <1>24, <2>1, due \in Nat
<1>26. PICK v \in Nat, b \in Nat : v = start + 1 /\ v * shared = b /\ b = begun + shared
  <2>1. start + 1 \in Nat /\ (start + 1) * shared = begun + shared /\ begun + shared \in Nat
    BY ONLY <1>3, <1>25, start \in Nat
  <2> QED BY ONLY <2>1
<1>27. LoopEnded(rs, begun + shared, rs2)
  <2>1. ready' = [loc \in Locations |-> IF loc \in {"i", "CF", "ZF"} THEN v ELSE ready[loc]]
    BY ONLY <1>21, <1>26
  <2>2. \A loc \in Locations : rs2[loc] = ready'[loc] * shared
    BY ONLY <1>12, <2>1 DEF Scaled
  <2>3. ASSUME NEW loc \in Locations
        PROVE  rs2[loc] = IF loc \in {"i", "CF", "ZF"} THEN begun + shared ELSE rs[loc]
    BY ONLY <1>16, <1>26, <2>1, <2>2, loc \in Locations
  <2> QED BY ONLY <2>3 DEF LoopEnded
<1>28. free'["alu"] = [free["alu"] EXCEPT ![p] = v] /\ (unit # "alu" => free'[unit] = free[unit])
  BY ONLY <1>14, <1>21, <1>26
<1>29. au2 = [au EXCEPT ![p] = begun + shared]
  <2>1. p \in DOMAIN free["alu"]
    <3>1. free["alu"] \in [1..pipes -> Nat]
      BY ONLY <1>14
    <3> QED BY ONLY <1>19, <3>1, ZenonT(60)
  <2>2. Scaled([free["alu"] EXCEPT ![p] = v], shared) = [Scaled(free["alu"], shared) EXCEPT ![p] = b]
    BY <1>26, <2>1, ScaledExcept
  <2> QED BY ONLY <1>11, <1>12, <1>26, <1>28, <2>2
<1>30. fs2 = IF unit # "alu" THEN fs ELSE [fs EXCEPT ![p] = begun + shared]
  <2>1. CASE unit # "alu"
    BY ONLY <1>11, <1>12, <1>28, <2>1
  <2>2. CASE ~(unit # "alu")
    BY ONLY <1>11, <1>12, <1>29, <2>2
  <2> QED BY ONLY <2>1, <2>2
<1>31. \A q \in 1..pipes : au2[q] \in {au[q], begun + shared}
  BY ONLY <1>18, <1>29
<1>32. PICK d2 : d2 = Turn(limit, shared, it + 1)
  OBVIOUS
<1>33. Later(d, shared, d2)
  <2>1. it + 1 \in Nat
    BY ONLY it \in Nat
  <2>2. /\ Grows(n, pipes, busy * shared, back * shared, Turn(limit, shared, it + 1))
        /\ \A x \in Int : Turn(limit, shared, it + 1)[x] = Turn(limit, shared, it)[x] + shared
    BY ONLY <1>2, <2>1, it \in Nat, TurnGrows
  <2>3. d2 \in [Int -> Int]
    BY ONLY <1>32, <2>2 DEF Grows
  <2> QED BY ONLY <1>9, <1>32, <2>2, <2>3 DEF Later
<1>34. LateAt(n, pipes, unit, back, B, W, shared, d2, round + ops + 1, 0, rs2, fs2, au2)
  <2>1. shared \in Nat /\ back \in Nat /\ pipes \in Nat \ {0} /\ begun <= d[round + ops]
    BY ONLY <1>3, <1>22, <1>25
  <2>2. /\ rs \in [Locations -> Nat] /\ fs \in [1..pipes -> Nat] /\ au \in [1..pipes -> Nat]
        /\ p \in 1..pipes
    BY ONLY <1>16, <1>17, <1>18, <1>19
  <2>3. EndMoves(n, pipes, unit, back, B, W, shared, R, d, round, ops, rs, fs, au, begun, p, d2,
                 rs2, fs2, au2)
    BY ONLY <1>10, <1>13, <1>27, <1>30, <1>31, <1>33, <2>1, <2>2,
            n \in {4, 8}, B \in Nat, W \in Nat, R \in Nat, round \in Nat, ops \in {64, 512},
            begun \in Nat DEF EndMoves
  <2> QED BY ONLY <2>3, LateEnd
<1>35. /\ n = Len(row'.body) /\ pipes = core'.pipes /\ own = Own(row.body[1])' /\ busy = Occupied'
       /\ back = Regained' /\ limit = Limit' /\ shared = Shared' /\ unit = StreamUnit'
       /\ it + 1 = iter' /\ 0 = pc' /\ round + ops + 1 = Round'
  <2>1. Round' = (it + 1) * (ops + 1)
    BY <1>5 DEF Round
  <2>2. /\ StreamUnit' = StreamUnit /\ Regained' = Regained /\ Occupied' = Occupied
        /\ Limit' = Limit /\ Shared' = Shared /\ Own(row.body[1])' = Own(row.body[1])
    BY StreamSame
  <2>3. round = it * (ops + 1)
    BY ONLY <1>5, <1>6 DEF Round
  <2>4. (it + 1) * (ops + 1) = it * (ops + 1) + ops + 1
    BY ONLY it \in Nat, ops \in {64, 512}
  <2>5. round + ops + 1 = Round'
    BY ONLY <2>1, <2>3, <2>4
  <2> QED BY ONLY <1>1, <1>5, <1>6, <1>8, <2>5, <2>2, row' = row, core' = core, iter' = iter + 1,
                  pc' = 0
<1>36. LateAt(Len(row.body), core.pipes, StreamUnit, Regained, Occupied * Shared,
              Own(row.body[1]) * Shared, Shared, Turn(Limit, Shared, iter), Round, pc,
              Scaled(ready, Shared), Scaled(free[StreamUnit], Shared), Scaled(free["alu"], Shared))'
  BY ONLY <1>7, <1>12, <1>32, <1>34, <1>35
<1>37. StreamRow(row)'
  BY ONLY StreamRow(row), row' = row
<1> QED BY <1>36, <1>37, LateIsNext

\* The cycles up to `top' in which a pipe was taken that is free again at f.
TakenOf(pipes, top, f) == { s \in (1..pipes) \X (0..top) : s[2] < f[s[1]] }

\* The cycles in which the pipes were taken are finitely many.
LEMMA TakenIsFinite ==
  ASSUME NEW pipes \in Nat, NEW top \in Nat, NEW f
  PROVE  /\ IsFiniteSet(TakenOf(pipes, top, f)) /\ Cardinality(TakenOf(pipes, top, f)) \in Nat
         /\ Cardinality(TakenOf(pipes, top, f)) <= pipes * (top + 1)
<1>1. PICK S : S = (1..pipes) \X (0..top)
  OBVIOUS
<1>2. IsFiniteSet(1..pipes) /\ Cardinality(1..pipes) = pipes
  BY FS_Interval
<1>3. IsFiniteSet(0..top) /\ Cardinality(0..top) = top + 1
  BY FS_Interval
<1>4. IsFiniteSet(S) /\ Cardinality(S) = pipes * (top + 1)
  <2>1. PICK U : U = 1..pipes
    OBVIOUS
  <2>2. PICK T : T = 0..top
    OBVIOUS
  <2>3. /\ IsFiniteSet(U) /\ Cardinality(U) = pipes
        /\ IsFiniteSet(T) /\ Cardinality(T) = top + 1
    BY ONLY <1>2, <1>3, <2>1, <2>2
  <2>4. IsFiniteSet(U \X T) /\ Cardinality(U \X T) = Cardinality(U) * Cardinality(T)
    BY ONLY <2>3, FS_Product
  <2>5. S = U \X T
    BY ONLY <1>1, <2>1, <2>2
  <2> QED BY ONLY <2>3, <2>4, <2>5
<1>5. TakenOf(pipes, top, f) \in SUBSET S
  BY <1>1 DEF TakenOf
<1>6. IsFiniteSet(TakenOf(pipes, top, f)) /\ Cardinality(TakenOf(pipes, top, f)) <= Cardinality(S)
  BY ONLY <1>4, <1>5, FS_Subset
<1>7. Cardinality(TakenOf(pipes, top, f)) \in Nat
  BY ONLY <1>6, FS_CardinalityType
<1> QED BY ONLY <1>4, <1>6, <1>7

\* A pipe that is taken for another `for' cycles was free in them.
TakesMore(pipes, top, top2, f, f2, p, for) ==
  /\ pipes \in Nat /\ top \in Nat /\ top2 \in Nat /\ for \in Nat /\ p \in 1..pipes
  /\ f \in [1..pipes -> Nat] /\ f2 \in [1..pipes -> Nat]
  /\ (\A q \in 1..pipes : f[q] <= f2[q] /\ f2[q] <= top2) /\ f[p] + for <= f2[p]

\* An instruction takes its pipe for cycles in which nothing had it before.
LEMMA TakenGrows ==
  ASSUME NEW pipes, NEW top, NEW top2, NEW f, NEW f2, NEW p, NEW for,
         TakesMore(pipes, top, top2, f, f2, p, for)
  PROVE  Cardinality(TakenOf(pipes, top2, f2)) >= Cardinality(TakenOf(pipes, top, f)) + for
<1> USE DEF TakesMore
<1>1. PICK before : before = TakenOf(pipes, top, f)
  OBVIOUS
<1>2. PICK after : after = TakenOf(pipes, top2, f2)
  OBVIOUS
<1>3. PICK at \in Nat : at = f[p]
  OBVIOUS
<1>4. PICK new : new = {p} \X (at..(at + for - 1))
  OBVIOUS
<1>5. IsFiniteSet(before) /\ Cardinality(before) \in Nat /\ IsFiniteSet(after)
      /\ Cardinality(after) \in Nat
  BY <1>1, <1>2, TakenIsFinite
<1>6. IsFiniteSet(new) /\ Cardinality(new) = for
  <2>1. IsFiniteSet({p}) /\ Cardinality({p}) = 1
    BY FS_Singleton
  <2>2. IsFiniteSet(at..(at + for - 1)) /\ Cardinality(at..(at + for - 1)) = for
    <3>1. at \in Int /\ at + for - 1 \in Int
      BY ONLY at \in Nat, for \in Nat DEF TakesMore
    <3>2. Cardinality(at..(at + for - 1)) = IF at > at + for - 1 THEN 0 ELSE (at + for - 1) - at + 1
      BY ONLY <3>1, FS_Interval
    <3>3. (IF at > at + for - 1 THEN 0 ELSE (at + for - 1) - at + 1) = for
      OBVIOUS
    <3> QED BY ONLY <3>1, <3>2, <3>3, FS_Interval
  <2>3. IsFiniteSet(new) /\ Cardinality(new) = 1 * for
    <3>1. PICK one : one = {p}
      OBVIOUS
    <3>2. PICK cycles : cycles = at..(at + for - 1)
      OBVIOUS
    <3>3. /\ IsFiniteSet(one) /\ Cardinality(one) = 1
          /\ IsFiniteSet(cycles) /\ Cardinality(cycles) = for
      BY ONLY <2>1, <2>2, <3>1, <3>2
    <3>4. IsFiniteSet(one \X cycles) /\ Cardinality(one \X cycles) = 1 * for
      <4>1. /\ IsFiniteSet(one \X cycles)
            /\ Cardinality(one \X cycles) = Cardinality(one) * Cardinality(cycles)
        BY ONLY <3>3, FS_Product
      <4> QED BY ONLY <3>3, <4>1
    <3>5. new = one \X cycles
      BY ONLY <1>4, <3>1, <3>2
    <3> QED BY ONLY <3>4, <3>5
  <2> QED BY <2>3
<1>7. before \cap new = {}
  <2> SUFFICES ASSUME NEW s \in before, s \in new PROVE FALSE
    OBVIOUS
  <2>1. s[2] < f[s[1]]
    BY <1>1 DEF TakenOf
  <2>2. s[1] = p /\ s[2] \in Int /\ s[2] >= at
    BY <1>4
  <2> QED BY ONLY <1>3, <2>1, <2>2, at \in Nat
<1>8. before \subseteq after
  <2> SUFFICES ASSUME NEW s \in before PROVE s \in after
    OBVIOUS
  <2>1. s \in (1..pipes) \X (0..top) /\ s[2] < f[s[1]]
    BY <1>1 DEF TakenOf
  <2>2. s[1] \in 1..pipes /\ s[2] \in 0..top /\ s = <<s[1], s[2]>>
    BY <2>1
  <2>3. PICK c \in Nat, q \in 1..pipes : c = s[2] /\ q = s[1]
    BY <2>2
  <2>4. c < f2[q] /\ c \in 0..top2
    <3>1. f[q] \in Nat /\ f2[q] \in Nat /\ f[q] <= f2[q] /\ f2[q] <= top2 /\ c < f[q]
      BY <2>1, <2>3
    <3>2. top2 \in Nat
      OBVIOUS
    <3>3. PICK x \in Nat, y \in Nat, z \in Nat : x = f[q] /\ y = f2[q] /\ z = top2
      BY ONLY <3>1, <3>2
    <3>4. c < y /\ c <= z
      BY ONLY <3>1, <3>3, c \in Nat, x \in Nat, y \in Nat, z \in Nat
    <3> QED BY ONLY <3>3, <3>4, c \in Nat, z \in Nat
  <2> QED BY <1>2, <2>2, <2>3, <2>4 DEF TakenOf
<1>9. new \subseteq after
  <2> SUFFICES ASSUME NEW s \in new PROVE s \in after
    OBVIOUS
  <2>1. PICK c \in at..(at + for - 1) : s = <<p, c>>
    BY <1>4
  <2>2. c < f2[p] /\ c \in 0..top2
    <3>1. f2[p] \in Nat /\ at + for <= f2[p] /\ f2[p] <= top2
      BY <1>3
    <3> QED BY <3>1
  <2> QED BY <1>2, <2>1, <2>2 DEF TakenOf
<1>10. IsFiniteSet(before \cup new) /\ Cardinality(before \cup new) = Cardinality(before) + for
  <2>1. /\ IsFiniteSet(before \cup new)
        /\ Cardinality(before \cup new) =
             Cardinality(before) + Cardinality(new) - Cardinality(before \cap new)
    BY ONLY <1>5, <1>6, FS_Union
  <2>2. Cardinality(before \cap new) = 0
    BY ONLY <1>7, FS_EmptySet
  <2>3. for \in Nat
    OBVIOUS
  <2> QED BY ONLY <1>5, <1>6, <2>1, <2>2, <2>3
<1>11. Cardinality(before \cup new) <= Cardinality(after)
  BY ONLY <1>5, <1>8, <1>9, FS_Subset, before \cup new \in SUBSET after
<1> QED BY <1>1, <1>2, <1>5, <1>10, <1>11

\* StreamEarly once the shapes are known.
EarlyAt(n, pipes, back, busy, it, reps, ops, c, rs, fs, taken) ==
  /\ rs["a"] >= back * (it * reps + ((c + n - 1) \div n))
  /\ Cardinality(taken) >= busy * (it * ops + c)
  /\ \A q \in 1..pipes : \E loc \in Locations \ {"CF", "ZF"} : fs[q] <= rs[loc]
  /\ back = 0 => \A q, r \in 1..pipes : fs[q] <= rs["i"] \/ fs[q] <= fs[r] + busy

\* StreamEarly of the numbers themselves.
LEMMA EarlyIs ==
  StreamEarly <=>
    EarlyAt(Len(row.body), core.pipes, Regained, Occupied, iter, row.reps, row.ops, pc, ready,
            free[StreamUnit], TakenOf(core.pipes, Cycles, free[StreamUnit]))
<1>1. Taken = TakenOf(core.pipes, Cycles, free[StreamUnit])
  BY DEF Taken, TakenOf
<1> QED BY ONLY <1>1 DEF StreamEarly, EarlyAt

\* The same of the next state.
LEMMA EarlyIsNext ==
  (StreamEarly <=>
    EarlyAt(Len(row.body), core.pipes, Regained, Occupied, iter, row.reps, row.ops, pc, ready,
            free[StreamUnit], TakenOf(core.pipes, Cycles, free[StreamUnit])))'
  BY EarlyIs, PTL

\* Another turn of the first register, every n-th instruction.
LEMMA TurnCost ==
  ASSUME NEW n \in {4, 8}, NEW back \in Nat, NEW it \in Nat, NEW reps \in Nat, NEW c \in Nat
  PROVE  back * (it * reps + (((c + 1) + n - 1) \div n)) =
           back * (it * reps + ((c + n - 1) \div n)) + IF c % n = 0 THEN back ELSE 0
<1>1. PICK m \in Nat : m = (c + n - 1) \div n
  BY Turns
<1>2. ((c + 1) + n - 1) \div n = m + IF c % n = 0 THEN 1 ELSE 0
  <2>1. ((c + 1) + n - 1) \div n = ((c + n - 1) \div n) + IF c % n = 0 THEN 1 ELSE 0
    <3>1. CASE n = 4
      <4>1. ((c + 1) + 4 - 1) \div 4 = ((c + 4 - 1) \div 4) + IF c % 4 = 0 THEN 1 ELSE 0
        BY ONLY c \in Nat
      <4> QED BY ONLY <3>1, <4>1
    <3>2. CASE n = 8
      <4>1. ((c + 1) + 8 - 1) \div 8 = ((c + 8 - 1) \div 8) + IF c % 8 = 0 THEN 1 ELSE 0
        BY ONLY c \in Nat
      <4> QED BY ONLY <3>2, <4>1
    <3> QED BY ONLY <3>1, <3>2, n \in {4, 8}
  <2> QED BY ONLY <1>1, <2>1
<1>3. PICK y \in Nat : y = it * reps
  OBVIOUS
<1>4. back * (y + (m + 1)) = back * (y + m) + back /\ back * (y + (m + 0)) = back * (y + m) + 0
  OBVIOUS
<1> QED BY <1>1, <1>2, <1>3, <1>4

\* A stream's instruction leaves the bounds as they must be for the next.
EarlyMoves(n, pipes, back, busy, w, it, reps, ops, c, rs, fs, top, start, p, rs2, fs2, top2) ==
  /\ n \in {4, 8} /\ pipes \in Nat \ {0} /\ back \in {0, w} /\ busy \in {1, w} /\ w \in Nat \ {0}
  /\ it \in Nat /\ reps \in Nat /\ ops \in Nat /\ c \in Nat /\ top \in Nat /\ top2 \in Nat
  /\ rs \in [Locations -> Nat] /\ fs \in [1..pipes -> Nat] /\ start \in Nat /\ p \in 1..pipes
  /\ (\A q \in 1..pipes : fs[p] <= fs[q]) /\ start >= fs[p]
  /\ back # 0 => start >= rs[Eight[(c % n) + 1]]
  /\ back = 0 => start = fs[p]
  /\ rs2 = [rs EXCEPT ![Eight[(c % n) + 1]] = start + w]
  /\ fs2 = [fs EXCEPT ![p] = start + busy]
  /\ \A loc \in Locations : rs2[loc] <= top2
  /\ EarlyAt(n, pipes, back, busy, it, reps, ops, c, rs, fs, TakenOf(pipes, top, fs))

\* No instruction of a stream begins before its register is there or its pipe is free.
LEMMA EarlyStream ==
  ASSUME NEW n, NEW pipes, NEW back, NEW busy, NEW w, NEW it, NEW reps, NEW ops, NEW c, NEW rs,
         NEW fs, NEW top, NEW start, NEW p, NEW rs2, NEW fs2, NEW top2,
         EarlyMoves(n, pipes, back, busy, w, it, reps, ops, c, rs, fs, top, start, p, rs2, fs2, top2)
  PROVE  EarlyAt(n, pipes, back, busy, it, reps, ops, c + 1, rs2, fs2, TakenOf(pipes, top2, fs2))
<1> USE DEF EarlyMoves
<1>1. /\ n \in {4, 8} /\ pipes \in Nat \ {0} /\ back \in Nat /\ busy \in Nat \ {0}
      /\ w \in Nat \ {0}
      /\ busy <= w /\ it \in Nat /\ reps \in Nat /\ ops \in Nat /\ c \in Nat /\ top \in Nat
      /\ top2 \in Nat
      /\ start \in Nat /\ p \in 1..pipes /\ back \in {0, w}
  BY SMTT(30)
<1>2. PICK j \in 1..8 : j = (c % n) + 1 /\ (j = 1 <=> c % n = 0)
  <2>1. PICK r \in 0..(n - 1) : r = c % n
    <3>1. c % n \in 0..(n - 1)
      BY ONLY n \in {4, 8}, c \in Nat, Turns
    <3> QED BY ONLY <3>1
  <2>2. r + 1 \in 1..8 /\ (r + 1 = 1 <=> r = 0)
    BY ONLY <1>1, r \in 0..(n - 1)
  <2> QED BY ONLY <2>1, <2>2
<1>3. PICK own \in Locations : own = Eight[j] /\ own # "i" /\ own # "CF" /\ own # "ZF"
  BY EightRegisters
<1>4. "a" \in Locations /\ "i" \in Locations /\ (own = "a" <=> j = 1)
  <2>1. 1 \in 1..8 /\ Eight[1] = "a"
    BY EightRegisters
  <2>2. own = "a" <=> j = 1
    BY ONLY <1>3, <2>1, EightRegisters, j \in 1..8
  <2>3. "a" \in Locations /\ "i" \in Locations
    BY LocationsAre
  <2> QED BY ONLY <2>2, <2>3
<1>5. PICK f \in Nat : f = fs[p]
  OBVIOUS
<1>6. /\ \A loc \in Locations :
           rs[loc] \in Nat /\ rs2[loc] = IF loc = own THEN start + w ELSE rs[loc]
      /\ \A q \in 1..pipes :
           fs[q] \in Nat /\ fs2[q] = (IF q = p THEN start + busy ELSE fs[q]) /\ f <= fs[q]
      /\ start >= f /\ (back # 0 => start >= rs[own]) /\ (back = 0 => start = f)
      /\ \A loc \in Locations : rs2[loc] <= top2
  BY <1>2, <1>3, <1>5
<1>7. fs \in [1..pipes -> Nat] /\ fs2 \in [1..pipes -> Nat]
  <2>1. start + busy \in Nat
    BY ONLY <1>1
  <2> QED BY ONLY <2>1, EarlyMoves(n, pipes, back, busy, w, it, reps, ops, c, rs, fs, top, start, p,
                                   rs2, fs2, top2)
          DEF EarlyMoves
<1>8. EarlyAt(n, pipes, back, busy, it, reps, ops, c, rs, fs, TakenOf(pipes, top, fs))
  OBVIOUS
<1> USE DEF EarlyAt
<1>9. \A q \in 1..pipes : fs[q] <= fs2[q]
  <2>1. SUFFICES ASSUME NEW q \in 1..pipes PROVE fs[q] <= fs2[q]
    OBVIOUS
  <2>2. fs[q] \in Nat /\ fs2[q] = (IF q = p THEN start + busy ELSE fs[q])
    BY ONLY <1>6, q \in 1..pipes
  <2>3. q = p => fs[q] = f /\ start >= f
    BY ONLY <1>5, <1>6
  <2> QED BY ONLY <1>1, <2>2, <2>3, f \in Nat
<1>10. ASSUME NEW q \in 1..pipes PROVE \E loc \in Locations \ {"CF", "ZF"} : fs2[q] <= rs2[loc]
  <2>1. CASE q = p
    <3>1. fs2[q] <= rs2[own]
      BY ONLY <1>1, <1>6, <2>1, own \in Locations
    <3> QED BY <1>3, <3>1
  <2>2. CASE q # p
    <3>1. PICK loc \in Locations \ {"CF", "ZF"} : fs[q] <= rs[loc]
      BY <1>8
    <3>2. CASE loc # own
      <4>1. fs2[q] <= rs2[loc]
        BY ONLY <1>6, <2>2, <3>1, <3>2, q \in 1..pipes, loc \in Locations \ {"CF", "ZF"}
      <4> QED BY <4>1
    <3>3. CASE loc = own /\ back # 0
      <4>1. fs2[q] <= rs2[own]
        BY ONLY <1>1, <1>6, <2>2, <3>1, <3>3, q \in 1..pipes, own \in Locations
      <4> QED BY <1>3, <4>1
    <3>4. CASE back = 0
      <4>1. fs[q] <= rs["i"] \/ fs[q] <= f + busy
        BY <1>5, <1>8, <3>4
      <4>2. CASE fs[q] <= rs["i"]
        <5>1. fs2[q] <= rs2["i"]
          BY ONLY <1>3, <1>4, <1>6, <2>2, <4>2, q \in 1..pipes
        <5> QED BY <1>4, <5>1
      <4>3. CASE fs[q] <= f + busy
        <5>1. fs2[q] <= rs2[own]
          BY ONLY <1>1, <1>6, <2>2, <3>4, <4>3, q \in 1..pipes, own \in Locations, f \in Nat
        <5> QED BY <1>3, <5>1
      <4> QED BY <4>1, <4>2, <4>3
    <3> QED BY <3>2, <3>3, <3>4
  <2> QED BY <2>1, <2>2
<1>11. Cardinality(TakenOf(pipes, top2, fs2)) >= busy * (it * ops + (c + 1))
  <2>1. ASSUME NEW q \in 1..pipes PROVE fs2[q] <= top2
    <3>1. PICK loc \in Locations : fs2[q] <= rs2[loc]
      BY <1>10
    <3>2. rs2[loc] <= top2 /\ rs2[loc] \in Nat /\ fs2[q] \in Nat
      <4>1. start + w \in Nat
        BY ONLY <1>1
      <4> QED BY ONLY <1>6, <1>7, <4>1, loc \in Locations, q \in 1..pipes
    <3> QED BY ONLY <1>1, <3>1, <3>2
  <2>2. fs[p] + busy <= fs2[p]
    BY ONLY <1>1, <1>5, <1>6, f \in Nat
  <2>3. pipes \in Nat /\ busy \in Nat
    BY ONLY <1>1
  <2>4. TakesMore(pipes, top, top2, fs, fs2, p, busy)
    BY ONLY <1>1, <1>7, <1>9, <2>1, <2>2, <2>3 DEF TakesMore
  <2>5. Cardinality(TakenOf(pipes, top2, fs2)) >= Cardinality(TakenOf(pipes, top, fs)) + busy
    BY ONLY <2>4, TakenGrows
  <2>6. Cardinality(TakenOf(pipes, top, fs)) >= busy * (it * ops + c)
    BY <1>8
  <2>7. Cardinality(TakenOf(pipes, top, fs)) \in Nat
        /\ Cardinality(TakenOf(pipes, top2, fs2)) \in Nat
    BY ONLY <1>1, <2>3, TakenIsFinite
  <2>8. PICK y \in Nat : y = it * ops
    BY <1>1
  <2>9. busy * (y + (c + 1)) = busy * (y + c) + busy /\ busy * (y + c) \in Nat
    BY ONLY <1>1, y \in Nat
  <2> QED BY ONLY <2>3, <2>5, <2>6, <2>7, <2>8, <2>9
<1>12. rs2["a"] >= back * (it * reps + (((c + 1) + n - 1) \div n))
  <2>1. PICK cost \in Nat : cost = back * (it * reps + ((c + n - 1) \div n))
    <3>1. (c + n - 1) \div n \in Nat
      BY ONLY <1>1, Turns
    <3>2. \A x, y, z, v \in Nat : x * (y * z + v) \in Nat
      BY ONLY TRUE
    <3> QED BY ONLY <1>1, <3>1, <3>2
  <2>2. back * (it * reps + (((c + 1) + n - 1) \div n)) = cost + IF c % n = 0 THEN back ELSE 0
    BY ONLY <1>1, <2>1, TurnCost
  <2>3. rs["a"] >= cost
    BY <1>8, <2>1
  <2>4. CASE c % n = 0
    <3>1. rs2["a"] = start + w /\ own = "a" /\ rs["a"] \in Nat
      BY ONLY <1>2, <1>4, <1>6, <2>4
    <3>2. CASE back = 0
      <4>1. cost = 0
        <5>1. \A x \in Nat : 0 * x = 0
          BY ONLY TRUE
        <5>2. it * reps + ((c + n - 1) \div n) \in Nat
          <6>1. (c + n - 1) \div n \in Nat
            BY ONLY <1>1, Turns
          <6> QED BY ONLY <1>1, <6>1
        <5> QED BY ONLY <2>1, <3>2, <5>1, <5>2
      <4> QED BY ONLY <1>1, <2>2, <2>4, <3>1, <3>2, <4>1
    <3>3. CASE back # 0
      <4>1. back = w /\ start >= rs["a"]
        BY ONLY <1>1, <1>6, <3>1, <3>3
      <4> QED BY ONLY <1>1, <2>2, <2>3, <2>4, <3>1, <4>1, cost \in Nat
    <3> QED BY <3>2, <3>3
  <2>5. CASE c % n # 0
    <3>1. rs2["a"] = rs["a"]
      BY ONLY <1>2, <1>4, <1>6, <2>5
    <3> QED BY ONLY <2>2, <2>3, <2>5, <3>1, cost \in Nat
  <2> QED BY <2>4, <2>5
<1>13. ASSUME back = 0, NEW q \in 1..pipes, NEW r \in 1..pipes
       PROVE  fs2[q] <= rs2["i"] \/ fs2[q] <= fs2[r] + busy
  <2>1. fs2[r] \in Nat /\ fs[r] <= fs2[r] /\ fs[r] \in Nat /\ f <= fs[r]
    BY ONLY <1>6, <1>7, <1>9, r \in 1..pipes
  <2>2. CASE q = p
    BY ONLY <1>1, <1>6, <1>13, <2>1, <2>2, f \in Nat
  <2>3. CASE q # p
    <3>1. fs[q] <= rs["i"] \/ fs[q] <= fs[r] + busy
      BY <1>8, <1>13
    <3>2. fs2[q] = fs[q] /\ fs[q] \in Nat /\ rs2["i"] = rs["i"]
      BY ONLY <1>3, <1>4, <1>6, <2>3, q \in 1..pipes
    <3> QED BY ONLY <1>1, <2>1, <3>1, <3>2
  <2> QED BY <2>2, <2>3
<1> QED BY ONLY <1>10, <1>11, <1>12, <1>13 DEF EarlyAt

\* The end of the loop only makes the counter and its own pipe later.
EarlyEnds(n, pipes, back, busy, it, reps, ops, rs, fs, top, rs2, fs2, top2) ==
  /\ n \in {4, 8} /\ pipes \in Nat \ {0} /\ back \in Nat /\ busy \in Nat
  /\ it \in Nat /\ reps \in Nat /\ ops \in Nat /\ top \in Nat /\ top2 \in Nat
  /\ (ops + n - 1) \div n = reps
  /\ rs \in [Locations -> Nat] /\ fs \in [1..pipes -> Nat]
  /\ rs2 \in [Locations -> Nat] /\ fs2 \in [1..pipes -> Nat]
  /\ (\A loc \in Locations \ {"CF", "ZF"} : rs[loc] <= rs2[loc])
  /\ (\A q \in 1..pipes : fs[q] <= fs2[q] /\ (fs2[q] = fs[q] \/ fs2[q] <= rs2["i"]))
  /\ (\A loc \in Locations : rs2[loc] <= top2)
  /\ EarlyAt(n, pipes, back, busy, it, reps, ops, ops, rs, fs, TakenOf(pipes, top, fs))

\* The end of the loop takes nothing back.
LEMMA EarlyEnd ==
  ASSUME NEW n, NEW pipes, NEW back, NEW busy, NEW it, NEW reps, NEW ops, NEW rs, NEW fs,
         NEW top, NEW rs2, NEW fs2, NEW top2,
         EarlyEnds(n, pipes, back, busy, it, reps, ops, rs, fs, top, rs2, fs2, top2)
  PROVE  EarlyAt(n, pipes, back, busy, it + 1, reps, ops, 0, rs2, fs2, TakenOf(pipes, top2, fs2))
<1>1. /\ n \in {4, 8} /\ pipes \in Nat \ {0} /\ pipes \in Nat /\ back \in Nat /\ busy \in Nat
      /\ it \in Nat /\ reps \in Nat /\ ops \in Nat /\ top \in Nat /\ top2 \in Nat
      /\ (ops + n - 1) \div n = reps
  BY DEF EarlyEnds
<1>2. /\ fs \in [1..pipes -> Nat] /\ fs2 \in [1..pipes -> Nat]
  BY DEF EarlyEnds
<1>3. /\ \A loc \in Locations : rs[loc] \in Nat /\ rs2[loc] \in Nat /\ rs2[loc] <= top2
      /\ \A loc \in Locations \ {"CF", "ZF"} : rs[loc] <= rs2[loc]
  BY DEF EarlyEnds
<1>4. \A q \in 1..pipes : /\ fs[q] \in Nat /\ fs2[q] \in Nat /\ fs[q] <= fs2[q]
                          /\ (fs2[q] = fs[q] \/ fs2[q] <= rs2["i"])
  BY ONLY <1>2, EarlyEnds(n, pipes, back, busy, it, reps, ops, rs, fs, top, rs2, fs2, top2)
    DEF EarlyEnds
<1>5. EarlyAt(n, pipes, back, busy, it, reps, ops, ops, rs, fs, TakenOf(pipes, top, fs))
  BY DEF EarlyEnds
<1>6. {"a", "i"} \subseteq Locations \ {"CF", "ZF"}
  BY LocationsAre
<1>7. ASSUME NEW q \in 1..pipes PROVE \E loc \in Locations \ {"CF", "ZF"} : fs2[q] <= rs2[loc]
  <2>1. CASE fs2[q] <= rs2["i"]
    BY ONLY <1>6, <2>1
  <2>2. CASE fs2[q] = fs[q]
    <3>1. PICK loc \in Locations \ {"CF", "ZF"} : fs[q] <= rs[loc]
      BY ONLY <1>5, q \in 1..pipes DEF EarlyAt
    <3>2. rs[loc] \in Nat /\ rs2[loc] \in Nat /\ rs[loc] <= rs2[loc] /\ fs[q] \in Nat
      BY ONLY <1>3, <1>4, loc \in Locations \ {"CF", "ZF"}, q \in 1..pipes
    <3>3. fs2[q] <= rs2[loc]
      BY ONLY <2>2, <3>1, <3>2
    <3> QED BY ONLY <3>3, loc \in Locations \ {"CF", "ZF"}
  <2> QED BY <1>4, <2>1, <2>2
<1>8. Cardinality(TakenOf(pipes, top2, fs2)) >= busy * ((it + 1) * ops + 0)
  <2>1. ASSUME NEW q \in 1..pipes PROVE fs2[q] <= top2
    <3>1. PICK loc \in Locations : fs2[q] <= rs2[loc]
      BY <1>7
    <3>2. rs2[loc] <= top2 /\ rs2[loc] \in Nat /\ fs2[q] \in Nat
      BY ONLY <1>3, <1>4, loc \in Locations, q \in 1..pipes
    <3> QED BY ONLY <1>1, <3>1, <3>2
  <2>2. 1 \in 1..pipes
    BY ONLY <1>1
  <2>3. fs[1] + 0 <= fs2[1]
    <3>1. fs[1] \in Nat /\ fs[1] <= fs2[1]
      BY ONLY <1>4, <2>2
    <3> QED BY ONLY <3>1
  <2>4. \A q \in 1..pipes : fs[q] <= fs2[q] /\ fs2[q] <= top2
    BY ONLY <1>4, <2>1
  <2>5. TakesMore(pipes, top, top2, fs, fs2, 1, 0)
    BY ONLY <1>1, <1>2, <2>2, <2>3, <2>4 DEF TakesMore
  <2>6. Cardinality(TakenOf(pipes, top2, fs2)) >= Cardinality(TakenOf(pipes, top, fs)) + 0
    BY ONLY <2>5, TakenGrows
  <2>7. Cardinality(TakenOf(pipes, top, fs)) \in Nat
        /\ Cardinality(TakenOf(pipes, top2, fs2)) \in Nat
    BY ONLY <1>1, TakenIsFinite
  <2>8. Cardinality(TakenOf(pipes, top, fs)) >= busy * (it * ops + ops)
    BY ONLY <1>5 DEF EarlyAt
  <2>9. PICK y \in Nat : y = it * ops + ops /\ (it + 1) * ops + 0 = y
    <3>1. it * ops + ops \in Nat /\ (it + 1) * ops + 0 = it * ops + ops
      BY ONLY <1>1
    <3> QED BY ONLY <3>1
  <2>10. busy * y \in Nat
    BY ONLY <1>1, y \in Nat
  <2> QED BY ONLY <2>6, <2>7, <2>8, <2>9, <2>10
<1>9. rs2["a"] >= back * ((it + 1) * reps + ((0 + n - 1) \div n))
  <2>1. rs["a"] >= back * (it * reps + reps)
    <3>1. rs["a"] >= back * (it * reps + ((ops + n - 1) \div n))
      BY ONLY <1>5 DEF EarlyAt
    <3> QED BY ONLY <1>1, <3>1
  <2>2. (0 + n - 1) \div n = 0
    <3>1. (0 + 4 - 1) \div 4 = 0 /\ (0 + 8 - 1) \div 8 = 0
      OBVIOUS
    <3> QED BY ONLY <1>1, <3>1
  <2>3. PICK y \in Nat : y = it * reps + reps /\ (it + 1) * reps + 0 = y
    <3>1. it * reps + reps \in Nat /\ (it + 1) * reps + 0 = it * reps + reps
      BY ONLY <1>1
    <3> QED BY ONLY <3>1
  <2>4. rs["a"] \in Nat /\ rs2["a"] \in Nat /\ rs["a"] <= rs2["a"]
    BY ONLY <1>3, <1>6
  <2>5. PICK z \in Nat : z = back * y
    <3>1. back * y \in Nat
      BY ONLY <1>1, y \in Nat
    <3> QED BY ONLY <3>1
  <2> QED BY ONLY <2>1, <2>2, <2>3, <2>4, <2>5
<1>10. ASSUME back = 0, NEW q \in 1..pipes, NEW r \in 1..pipes
       PROVE  fs2[q] <= rs2["i"] \/ fs2[q] <= fs2[r] + busy
  <2>1. CASE fs2[q] <= rs2["i"]
    BY ONLY <2>1
  <2>2. CASE fs2[q] = fs[q]
    <3>1. fs[q] <= rs["i"] \/ fs[q] <= fs[r] + busy
      BY ONLY <1>5, <1>10, q \in 1..pipes, r \in 1..pipes DEF EarlyAt
    <3>2. rs["i"] \in Nat /\ rs2["i"] \in Nat /\ rs["i"] <= rs2["i"]
      BY ONLY <1>3, <1>6
    <3>3. fs[q] \in Nat /\ fs[r] \in Nat /\ fs2[r] \in Nat /\ fs[r] <= fs2[r]
      BY ONLY <1>4, q \in 1..pipes, r \in 1..pipes
    <3> QED BY ONLY <1>1, <2>2, <3>1, <3>2, <3>3
  <2> QED BY <1>4, <2>1, <2>2
<1> QED BY ONLY <1>7, <1>8, <1>9, <1>10 DEF EarlyAt

\* The cycles that are read are those of the latest result.
LEMMA CyclesBound == TypeOK => Cycles \in Nat /\ \A loc \in Locations : ready[loc] <= Cycles
BY CyclesAre DEF TypeOK

\* The same of the next state.
LEMMA CyclesBoundNext == (TypeOK => Cycles \in Nat /\ \A loc \in Locations : ready[loc] <= Cycles)'
BY CyclesBound, PTL

\* Nothing writes the source that never changes.
LEMMA StreamStart ==
  ASSUME TypeOK, StreamRow(row), StreamLate
  PROVE  ready["k"] = 0
BY DEF StreamLate

\* An instruction of a stream keeps what StreamEarly says.
LEMMA EarlyBegins ==
  ASSUME TypeOK, TypeOK', StreamRow(row), StreamLate, StreamEarly, row' = row, core' = core,
         pc \in Nat, pc' = pc + 1, iter' = iter,
         NEW start \in Nat, NEW p \in 1..core.pipes, Begins(start, p)
  PROVE  StreamEarly'
<1>0. PICK n \in {4, 8} : n = Len(row.body)
  BY DEF StreamRow
<1>1. PICK pipes, own, busy, back :
        /\ n = Len(row.body) /\ pipes = core.pipes /\ own = Own(row.body[1]) /\ busy = Occupied
        /\ back = Regained
  BY <1>0
<1>2. /\ pipes \in Nat \ {0} /\ own \in Nat \ {0} /\ busy \in {1, own} /\ back \in {0, own}
  <2>1. SizesAre(n, pipes, own, busy, back, Limit, Shared)
    BY <1>1, StreamSizes
  <2> QED BY ONLY <2>1 DEF SizesAre
<1>3. PICK it \in Nat, c \in Nat, reps \in Nat, ops \in Nat :
        it = iter /\ c = pc /\ reps = row.reps /\ ops = row.ops
  <2>1. iter \in Nat
    BY ItersAssumption DEF TypeOK
  <2>2. row.reps \in Nat /\ row.ops \in Nat
    BY DEF StreamRow
  <2> QED BY <2>1, <2>2
<1>4. PICK unit \in Units : unit = StreamUnit
  BY StreamIs DEF Units
<1>5. PICK rs, rs2, fs, fs2 : rs = ready /\ rs2 = ready' /\ fs = free[unit] /\ fs2 = free'[unit]
  OBVIOUS
<1>6. rs \in [Locations -> Nat] /\ free \in [Units -> [1..pipes -> Nat]]
  BY <1>1, <1>5 DEF TypeOK
<1>7. fs \in [1..pipes -> Nat]
  BY ONLY <1>5, <1>6, unit \in Units
<1>8. p \in 1..pipes
  BY ONLY <1>1, p \in 1..core.pipes
<1>9. PICK j : j = (c % n) + 1
  OBVIOUS
<1>10. /\ \A q \in 1..pipes : fs[p] <= fs[q]
       /\ start >= fs[p]
       /\ IF back = 0 THEN start = fs[p] \/ start <= rs["k"]
                      ELSE start >= rs[Eight[j]] /\ start \in {fs[p], rs[Eight[j]]}
       /\ rs2 = [rs EXCEPT ![Eight[j]] = start + own]
       /\ free' = [free EXCEPT ![unit][p] = start + busy]
  BY ONLY <1>1, <1>3, <1>4, <1>5, <1>9, Begins(start, p) DEF Begins
<1>11. fs2 = [fs EXCEPT ![p] = start + busy]
  BY ONLY <1>5, <1>6, <1>10, unit \in Units
<1>12. back = 0 => start = fs[p]
  <2>1. rs["k"] = 0
    BY <1>5, StreamStart
  <2>2. fs[p] \in Nat
    BY ONLY <1>7, <1>8
  <2> QED BY ONLY <1>10, <2>1, <2>2, start \in Nat
<1>13. PICK top \in Nat, top2 \in Nat :
         top = Cycles /\ top2 = Cycles' /\ \A loc \in Locations : rs2[loc] <= top2
  BY <1>5, CyclesBound, CyclesBoundNext
<1>14. EarlyAt(n, pipes, back, busy, it, reps, ops, c, rs, fs, TakenOf(pipes, top, fs))
  <2>1. EarlyAt(Len(row.body), core.pipes, Regained, Occupied, iter, row.reps, row.ops, pc, ready,
                free[StreamUnit], TakenOf(core.pipes, Cycles, free[StreamUnit]))
    BY ONLY StreamEarly, EarlyIs
  <2> QED BY ONLY <1>1, <1>3, <1>4, <1>5, <1>13, <2>1
<1>15. EarlyMoves(n, pipes, back, busy, own, it, reps, ops, c, rs, fs, top, start, p, rs2, fs2, top2)
  <2>1. back # 0 => start >= rs[Eight[(c % n) + 1]]
    BY ONLY <1>9, <1>10
  <2>2. rs2 = [rs EXCEPT ![Eight[(c % n) + 1]] = start + own]
    BY ONLY <1>9, <1>10
  <2>3. (\A q \in 1..pipes : fs[p] <= fs[q]) /\ start >= fs[p]
    BY ONLY <1>10
  <2> QED BY ONLY <1>2, <1>6, <1>7, <1>8, <1>11, <1>12, <1>13, <1>14, <2>1, <2>2, <2>3,
                  n \in {4, 8}, it \in Nat, reps \in Nat, ops \in Nat, c \in Nat, top \in Nat,
                  top2 \in Nat, start \in Nat DEF EarlyMoves
<1>16. EarlyAt(n, pipes, back, busy, it, reps, ops, c + 1, rs2, fs2, TakenOf(pipes, top2, fs2))
  BY ONLY <1>15, EarlyStream
<1>17. /\ n = Len(row'.body) /\ pipes = core'.pipes /\ busy = Occupied' /\ back = Regained'
       /\ unit = StreamUnit' /\ it = iter' /\ c + 1 = pc' /\ reps = row'.reps /\ ops = row'.ops
  <2>1. StreamUnit' = StreamUnit /\ Regained' = Regained /\ Occupied' = Occupied
    BY StreamSame
  <2> QED BY ONLY <1>1, <1>3, <1>4, <2>1, row' = row, core' = core, iter' = iter, pc' = pc + 1
<1>18. EarlyAt(Len(row.body), core.pipes, Regained, Occupied, iter, row.reps, row.ops, pc, ready,
               free[StreamUnit], TakenOf(core.pipes, Cycles, free[StreamUnit]))'
  BY ONLY <1>5, <1>13, <1>16, <1>17
<1> QED BY ONLY <1>18, EarlyIsNext

\* So does the end of the loop.
LEMMA EarlyLoopEnds ==
  ASSUME TypeOK, TypeOK', StreamRow(row), StreamEarly, row' = row, core' = core,
         pc = row.ops, pc' = 0, iter' = iter + 1,
         (row.ops + Len(row.body) - 1) \div Len(row.body) = row.reps,
         NEW start \in Nat, NEW p \in 1..core.pipes, Ends(start, p)
  PROVE  StreamEarly'
<1>0. PICK n \in {4, 8} : n = Len(row.body)
  BY DEF StreamRow
<1>1. PICK pipes, busy, back :
        n = Len(row.body) /\ pipes = core.pipes /\ busy = Occupied /\ back = Regained
  BY <1>0
<1>2. pipes \in Nat \ {0} /\ busy \in Nat /\ back \in Nat
  <2>1. SizesAre(n, pipes, Own(row.body[1]), busy, back, Limit, Shared)
    BY <1>1, StreamSizes
  <2> QED BY ONLY <2>1, SizesCost
<1>3. PICK it \in Nat, reps \in Nat, ops \in Nat :
        it = iter /\ ops = pc /\ reps = row.reps /\ ops = row.ops
  <2>1. iter \in Nat
    BY ItersAssumption DEF TypeOK
  <2>2. row.reps \in Nat /\ row.ops \in Nat
    BY DEF StreamRow
  <2> QED BY <2>1, <2>2
<1>4. PICK unit \in Units : unit = StreamUnit
  BY StreamIs DEF Units
<1>5. PICK rs, rs2, fs, fs2 : rs = ready /\ rs2 = ready' /\ fs = free[unit] /\ fs2 = free'[unit]
  OBVIOUS
<1>6. rs \in [Locations -> Nat] /\ free \in [Units -> [1..pipes -> Nat]]
      /\ rs2 \in [Locations -> Nat] /\ free' \in [Units -> [1..pipes -> Nat]]
  BY <1>1, <1>5 DEF TypeOK
<1>7. fs \in [1..pipes -> Nat]
  BY ONLY <1>5, <1>6, unit \in Units
<1>8. fs2 \in [1..pipes -> Nat]
  BY ONLY <1>5, <1>6, unit \in Units
<1>9. p \in 1..pipes /\ {"i", "CF", "ZF"} \subseteq Locations
  BY <1>1, LocationsAre
<1>10. /\ start >= free["alu"][p] /\ start >= rs["i"]
       /\ rs2 = [loc \in Locations |-> IF loc \in {"i", "CF", "ZF"} THEN start + 1 ELSE rs[loc]]
       /\ free' = [free EXCEPT !["alu"][p] = start + 1]
  BY ONLY <1>5, Ends(start, p) DEF Ends
<1>11. ASSUME NEW loc \in Locations \ {"CF", "ZF"} PROVE rs[loc] <= rs2[loc]
  <2>1. rs[loc] \in Nat /\ rs["i"] \in Nat
    BY ONLY <1>6, <1>9, loc \in Locations \ {"CF", "ZF"}
  <2>2. rs2[loc] = IF loc = "i" THEN start + 1 ELSE rs[loc]
    BY ONLY <1>10, loc \in Locations \ {"CF", "ZF"}
  <2> QED BY ONLY <1>10, <2>1, <2>2, start \in Nat
<1>12. rs2["i"] = start + 1
  BY ONLY <1>9, <1>10
<1>13. ASSUME NEW q \in 1..pipes
       PROVE  fs[q] <= fs2[q] /\ (fs2[q] = fs[q] \/ fs2[q] <= rs2["i"])
  <2>1. PICK x \in Nat : x = fs[q]
    BY ONLY <1>7, q \in 1..pipes
  <2>2. CASE unit = "alu" /\ q = p
    <3>1. fs2[q] = start + 1
      <4>1. free'[unit] = [free[unit] EXCEPT ![p] = start + 1]
        BY ONLY <1>6, <1>10, <2>2, unit \in Units
      <4>2. fs2 = [fs EXCEPT ![p] = start + 1]
        BY ONLY <1>5, <4>1
      <4> QED BY ONLY <1>7, <1>9, <2>2, <4>2
    <3>2. start >= x
      BY ONLY <1>5, <1>10, <2>1, <2>2
    <3> QED BY ONLY <1>12, <2>1, <3>1, <3>2, start \in Nat, x \in Nat
  <2>3. CASE unit = "alu" /\ q # p
    <3>1. free'[unit] = [free[unit] EXCEPT ![p] = start + 1]
      BY ONLY <1>6, <1>10, <2>3, unit \in Units
    <3>2. fs2 = [fs EXCEPT ![p] = start + 1]
      BY ONLY <1>5, <3>1
    <3>3. fs2[q] = x
      BY ONLY <1>7, <2>1, <2>3, <3>2, q \in 1..pipes
    <3> QED BY ONLY <2>1, <3>3, x \in Nat
  <2>4. CASE unit # "alu"
    <3>1. free'[unit] = free[unit]
      BY ONLY <1>6, <1>10, <2>4, unit \in Units
    <3>2. fs2[q] = x
      BY ONLY <1>5, <2>1, <3>1
    <3> QED BY ONLY <2>1, <3>2, x \in Nat
  <2> QED BY <2>2, <2>3, <2>4
<1>14. PICK top \in Nat, top2 \in Nat :
         top = Cycles /\ top2 = Cycles' /\ \A loc \in Locations : rs2[loc] <= top2
  BY <1>5, CyclesBound, CyclesBoundNext
<1>15. EarlyAt(n, pipes, back, busy, it, reps, ops, ops, rs, fs, TakenOf(pipes, top, fs))
  <2>1. EarlyAt(Len(row.body), core.pipes, Regained, Occupied, iter, row.reps, row.ops, pc, ready,
                free[StreamUnit], TakenOf(core.pipes, Cycles, free[StreamUnit]))
    BY ONLY StreamEarly, EarlyIs
  <2> QED BY ONLY <1>1, <1>3, <1>4, <1>5, <1>14, <2>1
<1>16. EarlyEnds(n, pipes, back, busy, it, reps, ops, rs, fs, top, rs2, fs2, top2)
  <2>1. (ops + n - 1) \div n = reps
    BY ONLY <1>1, <1>3, (row.ops + Len(row.body) - 1) \div Len(row.body) = row.reps
  <2>2. rs \in [Locations -> Nat] /\ rs2 \in [Locations -> Nat]
    BY ONLY <1>6
  <2> QED BY ONLY <1>2, <1>7, <1>8, <1>11, <1>13, <1>14, <1>15, <2>1, <2>2, n \in {4, 8},
                  it \in Nat,
                  reps \in Nat, ops \in Nat, top \in Nat, top2 \in Nat DEF EarlyEnds
<1>17. EarlyAt(n, pipes, back, busy, it + 1, reps, ops, 0, rs2, fs2, TakenOf(pipes, top2, fs2))
  BY ONLY <1>16, EarlyEnd
<1>18. /\ n = Len(row'.body) /\ pipes = core'.pipes /\ busy = Occupied' /\ back = Regained'
       /\ unit = StreamUnit' /\ it + 1 = iter' /\ 0 = pc' /\ reps = row'.reps /\ ops = row'.ops
  <2>1. StreamUnit' = StreamUnit /\ Regained' = Regained /\ Occupied' = Occupied
    BY StreamSame
  <2> QED BY ONLY <1>1, <1>3, <1>4, <2>1, row' = row, core' = core, iter' = iter + 1, pc' = 0
<1>19. EarlyAt(Len(row.body), core.pipes, Regained, Occupied, iter, row.reps, row.ops, pc, ready,
               free[StreamUnit], TakenOf(core.pipes, Cycles, free[StreamUnit]))'
  BY ONLY <1>5, <1>14, <1>17, <1>18
<1> QED BY ONLY <1>19, EarlyIsNext

\* At rest nothing is late.
LEMMA LateAtRest ==
  ASSUME NEW n \in {4, 8}, NEW pipes \in Nat \ {0}, NEW unit, NEW back, NEW B, NEW W, NEW S,
         NEW R, NEW d, Grows(n, pipes, B, R, d),
         NEW rs, NEW fs, NEW au, \A loc \in Locations : rs[loc] = 0,
         \A q \in 1..pipes : fs[q] = 0 /\ au[q] = 0
  PROVE  LateAt(n, pipes, unit, back, B, W, S, d, 0, 0, rs, fs, au)
<1>1. \A x \in Nat : d[x] \in Nat
  BY DEF Grows
<1>2. \A x \in Nat : 0 <= d[x]
  BY ONLY <1>1
<1>3. ASSUME NEW m \in 0..(pipes - 1) PROVE Cardinality(NotFree(pipes, fs, FreedAt(B, d, 0, m))) <= m
  <2>1. m \in Nat /\ 0 <= m
    OBVIOUS
  <2>2. FreedAt(B, d, 0, m) = 0
    BY ONLY <2>1 DEF FreedAt
  <2>3. NotFree(pipes, fs, 0) = {}
    BY DEF NotFree
  <2>4. Cardinality({}) = 0
    BY FS_EmptySet
  <2> QED BY ONLY <2>1, <2>2, <2>3, <2>4
<1>4. OnTime(pipes, B, d, 0 + 0, fs)
  <2>1. OnTime(pipes, B, d, 0, fs)
    BY ONLY <1>3 DEF OnTime
  <2> QED BY ONLY <2>1
<1>5. {"i", "CF", "ZF", "k", "x", "mem"} \subseteq Locations
      /\ \A j \in 1..8 : Eight[j] \in Locations
  BY LocationsAre, EightRegisters
<1>6. \A q \in 1..pipes : au[q] <= d[0]
  BY ONLY <1>2, \A q \in 1..pipes : fs[q] = 0 /\ au[q] = 0
<1>7. \A loc \in {"i", "CF", "ZF"} : rs[loc] <= d[0]
  BY ONLY <1>2, <1>5, \A loc \in Locations : rs[loc] = 0
<1>8. \A loc \in {"k", "x", "mem"} : rs[loc] = 0
  BY ONLY <1>5, \A loc \in Locations : rs[loc] = 0
<1>9. ASSUME NEW j \in 1..8
      PROVE  rs[Eight[j]] = 0 /\ (j <= n => rs[Eight[j]] <= d[0 + TurnOf(n, 0, j)])
  <2>1. rs[Eight[j]] = 0
    BY ONLY <1>5, j \in 1..8, \A loc \in Locations : rs[loc] = 0
  <2>2. ASSUME j <= n PROVE TurnOf(n, 0, j) \in Nat /\ 0 + TurnOf(n, 0, j) \in Nat
    <3>1. j \in 1..n /\ 0 \in Nat
      BY ONLY <2>2, n \in {4, 8}, j \in 1..8
    <3>2. TurnOf(n, 0, j) \in Nat
      BY <3>1, TurnsOf
    <3> QED BY ONLY <3>2
  <2> QED BY ONLY <1>2, <2>1, <2>2
<1> QED BY ONLY <1>4, <1>6, <1>7, <1>8, <1>9 DEF LateAt

\* A loop of streams begins on time.
LEMMA StreamAtRest ==
  TypeOK /\ StreamRow(row) /\ iter = 0 /\ pc = 0
  /\ (\A loc \in Locations : ready[loc] = 0)
  /\ (\A u \in Units, p \in 1..core.pipes : free[u][p] = 0)
    => StreamLate /\ StreamEarly
<1> SUFFICES ASSUME TypeOK, StreamRow(row), iter = 0, pc = 0,
                    \A loc \in Locations : ready[loc] = 0,
                    \A u \in Units, p \in 1..core.pipes : free[u][p] = 0
             PROVE  StreamLate /\ StreamEarly
  OBVIOUS
<1>0. PICK n \in {4, 8} : n = Len(row.body)
  BY DEF StreamRow
<1>1. PICK pipes, own, busy, back, limit, shared :
        /\ n = Len(row.body) /\ pipes = core.pipes /\ own = Own(row.body[1]) /\ busy = Occupied
        /\ back = Regained /\ limit = Limit /\ shared = Shared
  BY <1>0
<1>2. SizesAre(n, pipes, own, busy, back, limit, shared)
  <2>1. SizesAre(Len(row.body), core.pipes, Own(row.body[1]), Occupied, Regained, Limit, Shared)
    BY StreamSizes
  <2> QED BY ONLY <1>1, <2>1
<1>3. /\ pipes \in Nat \ {0} /\ own \in Nat \ {0} /\ busy \in Nat \ {0}
      /\ back \in Nat /\ limit \in Nat \ {0} /\ shared \in Nat \ {0}
  BY ONLY <1>2, SizesCost
<1>4. PICK unit \in Units : unit = StreamUnit
  BY StreamIs DEF Units
<1>5. "alu" \in Units /\ row.ops \in Nat /\ row.reps \in Nat
  <2>1. "alu" \in Units
    BY DEF Units
  <2>2. row.ops \in Nat /\ row.reps \in Nat
    BY DEF StreamRow
  <2> QED BY <2>1, <2>2
<1>6. /\ ready \in [Locations -> Nat] /\ free[unit] \in [1..pipes -> Nat]
      /\ free["alu"] \in [1..pipes -> Nat]
  BY <1>1, <1>5 DEF TypeOK
<1>7. 0 * shared = 0
  BY ONLY <1>3
<1>8. PICK rs, fs, au : /\ rs = Scaled(ready, shared) /\ fs = Scaled(free[unit], shared)
                        /\ au = Scaled(free["alu"], shared)
  OBVIOUS
<1>9. \A loc \in Locations : rs[loc] = 0
  BY ONLY <1>6, <1>7, <1>8, \A loc \in Locations : ready[loc] = 0 DEF Scaled
<1>10. \A p \in 1..pipes : free[unit][p] = 0 /\ free["alu"][p] = 0
  BY <1>1, <1>5
<1>11. \A q \in 1..pipes : fs[q] = 0 /\ au[q] = 0
  <2>1. PICK g, h : /\ g = free[unit] /\ g \in [1..pipes -> Nat] /\ h = free["alu"] /\ h \in [1..pipes -> Nat]
    BY ONLY <1>6
  <2>2. fs = Scaled(g, shared) /\ au = Scaled(h, shared) /\ \A p \in 1..pipes : g[p] = 0 /\ h[p] = 0
    BY ONLY <1>8, <1>10, <2>1
  <2> QED BY ONLY <1>7, <2>1, <2>2 DEF Scaled
<1>12. PICK d : d = Turn(limit, shared, 0)
  OBVIOUS
<1>13. Grows(n, pipes, busy * shared, back * shared, d)
  <2>1. 0 \in Nat
    OBVIOUS
  <2> QED BY ONLY <1>2, <1>12, <2>1, TurnGrows
<1>14. LateAt(n, pipes, unit, back, busy * shared, own * shared, shared, d, 0, 0, rs, fs, au)
  BY ONLY <1>3, <1>9, <1>11, <1>13, LateAtRest, n \in {4, 8}
<1>15. Round = 0
  <2>1. \A x \in Nat : 0 * (x + 1) = 0
    BY ONLY TRUE
  <2> QED BY ONLY <1>5, <2>1, iter = 0 DEF Round
<1>16. StreamLate
  <2>1. LateAt(Len(row.body), core.pipes, StreamUnit, Regained, Occupied * Shared,
               Own(row.body[1]) * Shared, Shared, Turn(Limit, Shared, iter), Round, pc,
               Scaled(ready, Shared), Scaled(free[StreamUnit], Shared), Scaled(free["alu"], Shared))
    BY ONLY <1>1, <1>4, <1>8, <1>12, <1>14, <1>15, iter = 0, pc = 0
  <2> QED BY <2>1, LateIs
<1>17. PICK top \in Nat : top = Cycles
  BY CyclesBound
<1>18. EarlyAt(n, pipes, back, busy, 0, row.reps, row.ops, 0, ready, free[unit],
               TakenOf(pipes, top, free[unit]))
  <2>1. {"a", "i"} \subseteq Locations \ {"CF", "ZF"}
    BY LocationsAre
  <2>2. ready["a"] = 0 /\ ready["i"] = 0
    BY <2>1
  <2>3. (0 + n - 1) \div n = 0
    <3>1. (0 + 4 - 1) \div 4 = 0 /\ (0 + 8 - 1) \div 8 = 0
      OBVIOUS
    <3> QED BY ONLY <3>1, n \in {4, 8}
  <2>4. back * (0 * row.reps + 0) = 0 /\ busy * (0 * row.ops + 0) = 0
    <3>1. \A x, y \in Nat : x * (0 * y + 0) = 0
      BY ONLY TRUE
    <3> QED BY ONLY <1>3, <1>5, <3>1
  <2>5. Cardinality(TakenOf(pipes, top, free[unit])) \in Nat
    <3>1. pipes \in Nat
      BY ONLY <1>3
    <3> QED BY ONLY <3>1, top \in Nat, TakenIsFinite
  <2>6. \A q \in 1..pipes : free[unit][q] <= ready["i"]
    BY ONLY <1>10, <2>2
  <2> QED BY ONLY <2>1, <2>2, <2>3, <2>4, <2>5, <2>6 DEF EarlyAt
<1>19. StreamEarly
  <2>1. EarlyAt(Len(row.body), core.pipes, Regained, Occupied, iter, row.reps, row.ops, pc, ready,
                free[StreamUnit], TakenOf(core.pipes, Cycles, free[StreamUnit]))
    BY ONLY <1>1, <1>4, <1>17, <1>18, iter = 0, pc = 0
  <2> QED BY ONLY <2>1, EarlyIs
<1> QED BY <1>16, <1>19

\* The same of the next state.
LEMMA StreamAtRestNext ==
  (TypeOK /\ StreamRow(row) /\ iter = 0 /\ pc = 0
   /\ (\A loc \in Locations : ready[loc] = 0)
   /\ (\A u \in Units, p \in 1..core.pipes : free[u][p] = 0)
     => StreamLate /\ StreamEarly)'
BY StreamAtRest, PTL

\* Pipes that are free by top were taken for pipes * top cycles at most.
LEMMA TakenBelow ==
  ASSUME NEW pipes \in Nat, NEW top \in Nat, NEW f \in [1..pipes -> Nat],
         \A q \in 1..pipes : f[q] <= top
  PROVE  Cardinality(TakenOf(pipes, top, f)) <= pipes * top
<1>1. PICK S : S = (1..pipes) \X (0..(top - 1))
  OBVIOUS
<1>2. IsFiniteSet(1..pipes) /\ Cardinality(1..pipes) = pipes
  BY FS_Interval
<1>3. IsFiniteSet(0..(top - 1)) /\ Cardinality(0..(top - 1)) = top
  <2>1. 0 \in Int /\ top - 1 \in Int
    OBVIOUS
  <2>2. Cardinality(0..(top - 1)) = IF 0 > top - 1 THEN 0 ELSE (top - 1) - 0 + 1
    BY ONLY <2>1, FS_Interval
  <2>3. (IF 0 > top - 1 THEN 0 ELSE (top - 1) - 0 + 1) = top
    OBVIOUS
  <2> QED BY ONLY <2>1, <2>2, <2>3, FS_Interval
<1>4. IsFiniteSet(S) /\ Cardinality(S) = pipes * top
  <2>1. PICK T : T = 0..(top - 1)
    OBVIOUS
  <2>2. PICK U : U = 1..pipes
    OBVIOUS
  <2>3. IsFiniteSet(T) /\ Cardinality(T) = top /\ IsFiniteSet(U) /\ Cardinality(U) = pipes
    BY ONLY <1>2, <1>3, <2>1, <2>2
  <2>4. IsFiniteSet(U \X T) /\ Cardinality(U \X T) = Cardinality(U) * Cardinality(T)
    BY ONLY <2>3, FS_Product
  <2>5. S = U \X T
    BY ONLY <1>1, <2>1, <2>2
  <2> QED BY ONLY <2>3, <2>4, <2>5
<1>5. TakenOf(pipes, top, f) \in SUBSET S
  <2>1. SUFFICES ASSUME NEW s \in (1..pipes) \X (0..top), s[2] < f[s[1]] PROVE s \in S
    BY DEF TakenOf
  <2>2. PICK q \in 1..pipes, c \in 0..top : s = <<q, c>>
    OBVIOUS
  <2>3. c < f[q] /\ f[q] \in Nat /\ f[q] <= top
    BY <2>1, <2>2
  <2>4. c \in 0..(top - 1)
    BY ONLY <2>3, top \in Nat, c \in 0..top
  <2> QED BY <1>1, <2>2, <2>4
<1> QED BY ONLY <1>4, <1>5, FS_Subset

\* What a loop of streams costs when it is over.
LEMMA LowerCost ==
  ASSUME NEW n, NEW pipes, NEW own, NEW busy, NEW back, NEW limit, NEW shared,
         SizesAre(n, pipes, own, busy, back, limit, shared),
         NEW its \in Nat, NEW reps \in Nat, NEW ops \in Nat, ops = n * reps, NEW cycles \in Nat,
         cycles >= back * (its * reps), pipes * cycles >= busy * (its * ops)
  PROVE  its * ops * limit <= cycles * shared
<1>1. /\ n \in Nat \ {0} /\ pipes \in Nat \ {0} /\ own \in Nat \ {0} /\ busy \in Nat \ {0}
      /\ back \in Nat /\ limit \in Nat \ {0} /\ shared \in Nat \ {0}
  BY ONLY SizesCost, SizesAre(n, pipes, own, busy, back, limit, shared)
<1>2. limit \in {back * pipes, busy * n} /\ shared = pipes * n
  BY DEF SizesAre
<1>3. \A x, y, z \in Nat : x <= y => x * z <= y * z
  BY ONLY TRUE
<1>4. \A x, y \in Nat : x * y \in Nat
  BY ONLY TRUE
<1>5. PICK ir \in Nat : ir = its * reps
  BY ONLY <1>4, its \in Nat, reps \in Nat
<1>6. its * ops = n * ir
  <2>1. its * (n * reps) = n * (its * reps)
    BY ONLY <1>1, its \in Nat, reps \in Nat
  <2> QED BY ONLY <1>5, <2>1, ops = n * reps
<1>7. CASE limit = back * pipes
  <2>1. PICK x \in Nat : x = back * ir
    BY ONLY <1>1, <1>4, ir \in Nat
  <2>2. PICK pn \in Nat : pn = pipes * n
    BY ONLY <1>1, <1>4
  <2>3. x * pn <= cycles * pn
    BY ONLY <1>3, <1>5, <2>1, x \in Nat, pn \in Nat, cycles \in Nat, cycles >= back * (its * reps)
  <2>4. (n * ir) * (back * pipes) = (back * ir) * (pipes * n)
    BY ONLY <1>1, ir \in Nat
  <2> QED BY ONLY <1>2, <1>6, <1>7, <2>1, <2>2, <2>3, <2>4
<1>8. CASE limit = busy * n
  <2>1. PICK x \in Nat : x = busy * (n * ir)
    <3>1. busy * (n * ir) \in Nat
      BY ONLY <1>1, <1>4, ir \in Nat
    <3> QED BY ONLY <3>1
  <2>2. PICK y \in Nat : y = pipes * cycles
    BY ONLY <1>1, <1>4, cycles \in Nat
  <2>3. x <= y
    BY ONLY <1>6, <2>1, <2>2, pipes * cycles >= busy * (its * ops), x \in Nat, y \in Nat
  <2>4. x * n <= y * n
    BY ONLY <1>1, <1>3, <2>3, x \in Nat, y \in Nat
  <2>5. (n * ir) * (busy * n) = (busy * (n * ir)) * n /\ (pipes * cycles) * n = cycles * (pipes * n)
    BY ONLY <1>1, ir \in Nat, cycles \in Nat
  <2> QED BY ONLY <1>2, <1>6, <1>8, <2>1, <2>2, <2>4, <2>5
<1> QED BY <1>2, <1>7, <1>8

\* The latest that anything is there when the loop is over.
LEMMA UpperCost ==
  ASSUME NEW n, NEW pipes, NEW own, NEW busy, NEW back, NEW limit, NEW shared,
         SizesAre(n, pipes, own, busy, back, limit, shared),
         NEW its \in Nat \ {0}, NEW ops \in Nat, NEW most \in Nat, own <= most, NEW d,
         d = Turn(limit, shared, its)
  PROVE  /\ d[its * (ops + 1)] <= its * ops * limit + its * (most + 1) * shared
         /\ (d[its * (ops + 1) - 2] - shared) + own * shared
              <= its * ops * limit + its * (most + 1) * shared
<1>1. /\ own \in Nat \ {0} /\ limit \in Nat \ {0} /\ shared \in Nat \ {0} /\ limit <= own * shared
  BY ONLY SizesCost, SizesAre(n, pipes, own, busy, back, limit, shared)
<1>2. \A x, y \in Nat : x * y \in Nat
  BY ONLY TRUE
<1>3. \A x, y, z \in Nat : x <= y => z * x <= z * y
  BY ONLY TRUE
<1>4. PICK os \in Nat : os = own * shared
  BY ONLY <1>1, <1>2
<1>5. PICK all \in Nat : all = its * ops * limit
  BY ONLY <1>1, <1>2, its \in Nat \ {0}, ops \in Nat
<1>6. PICK il \in Nat, is \in Nat : il = its * limit /\ is = its * shared
  BY ONLY <1>1, <1>2, its \in Nat \ {0}
<1>7. PICK iw \in Nat : iw = its * os
  BY ONLY <1>2, its \in Nat \ {0}, os \in Nat
<1>8. PICK im \in Nat : im = its * most * shared
  BY ONLY <1>1, <1>2, its \in Nat \ {0}, most \in Nat
<1>9. its * (most + 1) * shared = im + is
  <2>1. its * (most + 1) * shared = its * most * shared + its * shared
    BY ONLY <1>1, its \in Nat \ {0}, most \in Nat
  <2> QED BY ONLY <1>6, <1>8, <2>1
<1>10. il <= iw
  <2>1. limit <= os
    BY ONLY <1>1, <1>4
  <2> QED BY ONLY <1>1, <1>3, <1>6, <1>7, <2>1, its \in Nat \ {0}, os \in Nat
<1>11. iw <= im
  <2>1. its * (own * shared) = (its * shared) * own /\ its * most * shared = (its * shared) * most
    BY ONLY <1>1, its \in Nat \ {0}, most \in Nat
  <2>2. is * own <= is * most
    BY ONLY <1>1, <1>3, is \in Nat, most \in Nat, own <= most
  <2> QED BY ONLY <1>4, <1>6, <1>7, <1>8, <2>1, <2>2
<1>12. \A x \in Int : d[x] = x * limit + is
  BY ONLY <1>6, d = Turn(limit, shared, its) DEF Turn
<1>13. its * (ops + 1) \in Int /\ its * (ops + 1) - 2 \in Int
  BY ONLY its \in Nat \ {0}, ops \in Nat
<1>14. (its * (ops + 1)) * limit = all + il
  <2>1. (its * (ops + 1)) * limit = its * ops * limit + its * limit
    BY ONLY <1>1, its \in Nat \ {0}, ops \in Nat
  <2> QED BY ONLY <1>5, <1>6, <2>1
<1>15. (its * (ops + 1) - 2) * limit = (all + il) - 2 * limit
  <2>1. \A x \in Int : (x - 2) * limit = x * limit - 2 * limit
    BY ONLY <1>1
  <2> QED BY ONLY <1>13, <1>14, <2>1
<1>16. d[its * (ops + 1)] = (all + il) + is
  BY ONLY <1>12, <1>13, <1>14
<1>17. d[its * (ops + 1) - 2] = ((all + il) - 2 * limit) + is
  BY ONLY <1>12, <1>13, <1>15
<1>18. d[its * (ops + 1)] <= all + (im + is)
  BY ONLY <1>10, <1>11, <1>16, all \in Nat, il \in Nat, is \in Nat, im \in Nat, iw \in Nat
<1>19. il + os <= iw + 2 * limit
  \* One iteration fewer leaves as much.
  <2>1. PICK k \in Nat : its = k + 1
    <3>1. its - 1 \in Nat /\ its = (its - 1) + 1
      BY ONLY its \in Nat \ {0}
    <3> QED BY ONLY <3>1
  <2>2. PICK kl \in Nat, ko \in Nat : kl = k * limit /\ ko = k * os
    BY ONLY <1>1, <1>2, k \in Nat, os \in Nat
  <2>3. il = kl + limit /\ iw = ko + os
    <3>1. (k + 1) * limit = k * limit + limit /\ (k + 1) * os = k * os + os
      BY ONLY <1>1, k \in Nat, os \in Nat
    <3> QED BY ONLY <1>6, <1>7, <2>1, <2>2, <3>1
  <2>4. kl <= ko
    <3>1. limit <= os
      BY ONLY <1>1, <1>4
    <3> QED BY ONLY <1>1, <1>3, <2>2, <3>1, k \in Nat, os \in Nat
  <2> QED BY ONLY <1>1, <2>3, <2>4, kl \in Nat, ko \in Nat, os \in Nat
<1>20. (d[its * (ops + 1) - 2] - shared) + os <= all + (im + is)
  BY ONLY <1>1, <1>11, <1>17, <1>19, all \in Nat, il \in Nat, is \in Nat, im \in Nat, iw \in Nat,
          os \in Nat
<1> QED BY ONLY <1>4, <1>5, <1>9, <1>18, <1>20

\* What StreamLate and StreamEarly say of the cycles that are read at the end.
LEMMA StreamOver ==
  ASSUME TypeOK, StreamRow(row), StreamLate, StreamEarly, phase = "bench", iter = Iters, pc = 0
  PROVE  /\ Cycles * Shared >= Divisor * Limit
         /\ Cycles * Shared <= Divisor * Limit + Slack * Shared
<1>0. PICK n \in {4, 8} : n = Len(row.body)
  BY DEF StreamRow
<1>1. PICK pipes, own, busy, back, limit, shared :
        /\ n = Len(row.body) /\ pipes = core.pipes /\ own = Own(row.body[1]) /\ busy = Occupied
        /\ back = Regained /\ limit = Limit /\ shared = Shared
  BY <1>0
<1>2. SizesAre(n, pipes, own, busy, back, limit, shared) /\ own <= MaxLat
  <2>1. SizesAre(Len(row.body), core.pipes, Own(row.body[1]), Occupied, Regained, Limit, Shared)
        /\ Own(row.body[1]) <= MaxLat
    BY StreamSizes
  <2> QED BY ONLY <1>1, <2>1
<1>3. /\ pipes \in Nat \ {0} /\ own \in Nat \ {0} /\ busy \in Nat \ {0}
      /\ back \in Nat /\ limit \in Nat \ {0} /\ shared \in Nat \ {0} /\ limit <= own * shared
  BY ONLY <1>2, SizesCost
<1>4. PICK its \in Nat \ {0}, most \in Nat, reps \in Nat, ops \in Nat :
        its = Iters /\ most = MaxLat /\ reps = row.reps /\ ops = row.ops /\ ops = n * reps
  <2>1. Iters \in Nat \ {0} /\ MaxLat \in Nat
    BY ItersAssumption, MaxLatAssumption
  <2>2. row.reps \in Nat /\ row.ops \in Nat /\ row.ops = Len(row.body) * row.reps
    <3>1. row.ops \in {64, 512} /\ row.reps \in Nat /\ row.ops = Len(row.body) * row.reps
      BY StreamNext
    <3> QED BY <3>1
  <2> QED BY ONLY <1>1, <2>1, <2>2
<1>5. PICK unit \in Units : unit = StreamUnit
  BY StreamIs DEF Units
<1>6. ready \in [Locations -> Nat] /\ free[unit] \in [1..pipes -> Nat]
  BY <1>1 DEF TypeOK
<1>7. PICK cycles \in Nat : cycles = Cycles /\ \A loc \in Locations : ready[loc] <= cycles
  BY CyclesBound
<1>8. EarlyAt(n, pipes, back, busy, its, reps, ops, 0, ready, free[unit],
              TakenOf(pipes, cycles, free[unit]))
  <2>1. EarlyAt(Len(row.body), core.pipes, Regained, Occupied, iter, row.reps, row.ops, pc, ready,
                free[StreamUnit], TakenOf(core.pipes, Cycles, free[StreamUnit]))
    BY ONLY StreamEarly, EarlyIs
  <2> QED BY ONLY <1>1, <1>4, <1>5, <1>7, <2>1, iter = Iters, pc = 0
<1>9. cycles >= back * (its * reps)
  <2>1. (0 + n - 1) \div n = 0
    <3>1. (0 + 4 - 1) \div 4 = 0 /\ (0 + 8 - 1) \div 8 = 0
      OBVIOUS
    <3> QED BY ONLY <3>1, n \in {4, 8}
  <2>2. "a" \in Locations
    BY LocationsAre
  <2>3. ready["a"] \in Nat /\ ready["a"] <= cycles
    BY ONLY <1>6, <1>7, <2>2
  <2>4. ready["a"] >= back * (its * reps + 0)
    BY ONLY <1>8, <2>1 DEF EarlyAt
  <2>5. PICK x \in Nat : x = its * reps /\ x = its * reps + 0
    <3>1. its * reps \in Nat
      BY ONLY its \in Nat \ {0}, reps \in Nat
    <3> QED BY ONLY <3>1
  <2>6. PICK y \in Nat : y = back * x
    <3>1. back * x \in Nat
      BY ONLY <1>3, x \in Nat
    <3> QED BY ONLY <3>1
  <2> QED BY ONLY <2>3, <2>4, <2>5, <2>6, cycles \in Nat
<1>10. pipes * cycles >= busy * (its * ops)
  <2>1. \A q \in 1..pipes : free[unit][q] <= cycles
    <3>1. SUFFICES ASSUME NEW q \in 1..pipes PROVE free[unit][q] <= cycles
      OBVIOUS
    <3>2. PICK loc \in Locations \ {"CF", "ZF"} : free[unit][q] <= ready[loc]
      BY ONLY <1>8, q \in 1..pipes DEF EarlyAt
    <3>3. ready[loc] \in Nat /\ ready[loc] <= cycles
      BY ONLY <1>6, <1>7, loc \in Locations \ {"CF", "ZF"}
    <3>4. PICK g : g = free[unit] /\ g \in [1..pipes -> Nat]
      BY ONLY <1>6
    <3>5. g[q] \in Nat
      BY ONLY <3>4, q \in 1..pipes
    <3> QED BY ONLY <3>2, <3>3, <3>4, <3>5, cycles \in Nat
  <2>2. PICK card \in Nat : card = Cardinality(TakenOf(pipes, cycles, free[unit]))
    <3>1. pipes \in Nat
      BY ONLY <1>3
    <3> QED BY ONLY <3>1, cycles \in Nat, TakenIsFinite
  <2>3. card <= pipes * cycles
    <3>1. pipes \in Nat
      BY ONLY <1>3
    <3> QED BY ONLY <1>6, <2>1, <2>2, <3>1, TakenBelow, cycles \in Nat
  <2>4. card >= busy * (its * ops + 0)
    BY ONLY <1>8, <2>2 DEF EarlyAt
  <2>5. PICK x \in Nat : x = its * ops /\ x = its * ops + 0
    <3>1. its * ops \in Nat
      BY ONLY its \in Nat \ {0}, ops \in Nat
    <3> QED BY ONLY <3>1
  <2>6. PICK y \in Nat, z \in Nat : y = busy * x /\ z = pipes * cycles
    <3>1. busy * x \in Nat /\ pipes * cycles \in Nat
      BY ONLY <1>3, x \in Nat, cycles \in Nat
    <3> QED BY ONLY <3>1
  <2> QED BY ONLY <2>3, <2>4, <2>5, <2>6, card \in Nat
<1>11. its * ops * limit <= cycles * shared
  BY ONLY <1>2, <1>4, <1>9, <1>10, LowerCost, its \in Nat \ {0}, reps \in Nat, ops \in Nat,
          cycles \in Nat
<1>12. PICK d : d = Turn(limit, shared, its)
  OBVIOUS
<1>13. PICK round : round = its * (ops + 1) /\ round = Round
  BY <1>4 DEF Round
<1>14. PICK bound \in Nat : bound = its * ops * limit + its * (most + 1) * shared
  <2>1. its * ops * limit + its * (most + 1) * shared \in Nat
    BY ONLY <1>3, its \in Nat \ {0}, ops \in Nat, most \in Nat
  <2> QED BY ONLY <2>1
<1>15. d[round] <= bound /\ (d[round - 2] - shared) + own * shared <= bound
  BY ONLY <1>2, <1>4, <1>12, <1>13, <1>14, UpperCost, its \in Nat \ {0}, ops \in Nat, most \in Nat
<1>16. PICK rs : rs = Scaled(ready, shared) /\ \A loc \in Locations : rs[loc] = ready[loc] * shared
  <2>1. PICK rs : rs = Scaled(ready, shared)
    OBVIOUS
  <2>2. \A loc \in Locations : rs[loc] = ready[loc] * shared
    BY ONLY <1>6, <2>1 DEF Scaled
  <2> QED BY ONLY <2>1, <2>2
<1>17. LateAt(n, pipes, unit, back, busy * shared, own * shared, shared, d, round, 0, rs,
              Scaled(free[unit], shared), Scaled(free["alu"], shared))
  <2>1. LateAt(Len(row.body), core.pipes, StreamUnit, Regained, Occupied * Shared,
               Own(row.body[1]) * Shared, Shared, Turn(Limit, Shared, iter), Round, pc,
               Scaled(ready, Shared), Scaled(free[StreamUnit], Shared), Scaled(free["alu"], Shared))
    BY LateIs
  <2> QED BY ONLY <1>1, <1>4, <1>5, <1>12, <1>13, <1>16, <2>1, iter = Iters, pc = 0
<1>18. ASSUME NEW loc \in Locations PROVE rs[loc] <= bound
  <2>1. loc \in {"i", "CF", "ZF"} \/ loc \in {"k", "x", "mem"} \/ \E j \in 1..8 : loc = Eight[j]
    <3>1. /\ Eight[1] = "a" /\ Eight[2] = "b" /\ Eight[3] = "c" /\ Eight[4] = "d"
          /\ Eight[5] = "e" /\ Eight[6] = "f" /\ Eight[7] = "g" /\ Eight[8] = "h"
      BY DEF Eight
    <3>2. 1 \in 1..8 /\ 2 \in 1..8 /\ 3 \in 1..8 /\ 4 \in 1..8 /\ 5 \in 1..8 /\ 6 \in 1..8
          /\ 7 \in 1..8
          /\ 8 \in 1..8
      OBVIOUS
    <3> QED BY ONLY <3>1, <3>2, LocationsAre, loc \in Locations
  <2>2. CASE loc \in {"i", "CF", "ZF"}
    <3>1. rs[loc] <= d[round]
      BY ONLY <1>17, <2>2 DEF LateAt
    <3>2. d[round] \in Int /\ rs[loc] \in Int
      <4>1. round \in Int /\ \A x \in Int : d[x] = x * limit + its * shared
        <5>1. its * (ops + 1) \in Int
          BY ONLY its \in Nat \ {0}, ops \in Nat
        <5> QED BY ONLY <1>12, <1>13, <5>1 DEF Turn
      <4>2. round * limit + its * shared \in Int
        BY ONLY <1>3, <4>1, its \in Nat \ {0}
      <4>3. ready[loc] \in Nat
        BY ONLY <1>6, loc \in Locations
      <4>4. ready[loc] * shared \in Int
        BY ONLY <1>3, <4>3
      <4> QED BY ONLY <1>16, <4>1, <4>2, <4>4, loc \in Locations
    <3> QED BY ONLY <1>15, <3>1, <3>2, bound \in Nat
  <2>3. CASE loc \in {"k", "x", "mem"}
    <3>1. rs[loc] = 0
      BY ONLY <1>17, <2>3 DEF LateAt
    <3> QED BY ONLY <3>1, bound \in Nat
  <2>4. ASSUME NEW j \in 1..8, loc = Eight[j] PROVE rs[loc] <= bound
    <3>1. PICK last : last = (d[round - 2] - shared) + own * shared
      OBVIOUS
    <3>2. rs[loc] # 0 => rs[loc] <= last
      BY ONLY <1>17, <2>4, <3>1, j \in 1..8 DEF LateAt
    <3>3. last \in Int
      <4>1. round - 2 \in Int /\ \A x \in Int : d[x] = x * limit + its * shared
        <5>1. its * (ops + 1) - 2 \in Int
          BY ONLY its \in Nat \ {0}, ops \in Nat
        <5> QED BY ONLY <1>12, <1>13, <5>1 DEF Turn
      <4>2. PICK x \in Int : x = round - 2
        BY ONLY <4>1
      <4>3. x * limit + its * shared \in Int
        BY ONLY <1>3, x \in Int, its \in Nat \ {0}
      <4>4. PICK y \in Int : y = d[round - 2]
        BY ONLY <4>1, <4>2, <4>3
      <4>5. own * shared \in Int
        BY ONLY <1>3
      <4>6. (y - shared) + own * shared \in Int
        BY ONLY <1>3, <4>5, y \in Int
      <4> QED BY ONLY <3>1, <4>4, <4>6
    <3>4. rs[loc] \in Int
      <4>1. ready[loc] \in Nat
        BY ONLY <1>6, loc \in Locations
      <4>2. ready[loc] * shared \in Int
        BY ONLY <1>3, <4>1
      <4> QED BY ONLY <1>16, <4>2, loc \in Locations
    <3>5. last <= bound
      BY ONLY <1>15, <3>1
    <3> QED BY ONLY <3>2, <3>3, <3>4, <3>5, bound \in Nat
  <2> QED BY ONLY <2>1, <2>2, <2>3, <2>4
<1>19. cycles * shared <= bound
  <2>1. PICK loc \in Locations : cycles = ready[loc]
    BY <1>7, CyclesAre DEF TypeOK
  <2> QED BY ONLY <1>16, <1>18, <2>1, loc \in Locations
<1>20. Divisor = its * ops /\ Slack = its * (most + 1)
  BY ONLY <1>4 DEF Divisor, Slack
<1> QED BY ONLY <1>1, <1>7, <1>11, <1>14, <1>19, <1>20

\* A throughput row is one of independent streams.
LEMMA StreamIsTput ==
  ASSUME row \in AllRows, row.kind = "tput"
  PROVE  StreamRow(row)
BY RowShapes DEF ChainedRow, TripRow

\* One instruction of the loop of a stream.
LEMMA StreamStep ==
  ASSUME TypeOK, TypeOK', StreamRow(row), phase = "bench", StreamLate, StreamEarly, Execute
  PROVE  StreamLate' /\ StreamEarly'
<1>1. /\ row' = row /\ core' = core /\ pc \in Nat
      /\ \/ pc + 1 < CodeLength /\ pc' = pc + 1 /\ iter' = iter
         \/ pc + 1 = CodeLength /\ pc' = 0 /\ iter' = iter + 1
  BY Advance
<1>2. /\ row.ops \in {64, 512} /\ CodeLength = row.ops + 1 /\ pc \in 0..row.ops
      /\ (row.ops + Len(row.body) - 1) \div Len(row.body) = row.reps
  BY StreamNext
<1>3. CASE pc < row.ops
  <2>1. pc' = pc + 1 /\ iter' = iter
    BY ONLY <1>1, <1>2, <1>3
  <2>2. PICK start \in Nat, p \in 1..core.pipes : Begins(start, p)
    BY <1>3, StreamBegins
  <2>3. StreamLate'
    BY <1>1, <2>1, <2>2, LateBegins
  <2>4. StreamEarly'
    BY <1>1, <2>1, <2>2, EarlyBegins
  <2> QED BY <2>3, <2>4
<1>4. CASE pc = row.ops
  <2>1. pc' = 0 /\ iter' = iter + 1
    BY ONLY <1>1, <1>2, <1>4
  <2>2. PICK start \in Nat, p \in 1..core.pipes : Ends(start, p)
    BY <1>4, StreamEnds
  <2>3. StreamLate'
    BY <1>1, <1>2, <1>4, <2>1, <2>2, LateEnds
  <2>4. StreamEarly'
    BY <1>1, <1>2, <1>4, <2>1, <2>2, EarlyLoopEnds
  <2> QED BY <2>3, <2>4
<1> QED BY <1>2, <1>3, <1>4

\* The loop of independent streams costs what StreamInv says.
THEOREM StreamCost == Spec => []StreamInv
<1>1. Init => StreamInv
  BY DEF Init, StreamInv
<1>2. ASSUME TypeOK, TypeOK', Stopped, StreamInv, [Next]_vars PROVE StreamInv'
  <2>1. CASE UNCHANGED vars
    <3>1. StreamInv' = StreamInv
      BY <2>1 DEF vars, StreamInv, StreamLate, StreamEarly, Behind, Freed, Taken, NextOf, LastDue, Due,
                  Round, Shared, StreamUnit, Limit, Occupied, Regained, Carried, Paths, Cycles, Own,
                  Waits, ForwardPaths, Latency, Divisor, Slack
    <3> QED BY <1>2, <3>1
  <2>2. SUFFICES ASSUME Next, row.kind = "tput" PROVE StreamInv'
    <3>1. row' = row \/ UNCHANGED vars
      BY <1>2 DEF Next, Execute, EndEmpty, EndBench
    <3> QED BY <1>2, <2>1, <3>1 DEF StreamInv
  <2>3. StreamRow(row)
    BY <1>2, <2>2, StreamIsTput DEF TypeOK
  <2>4. CASE Execute
    <3>1. phase' = phase /\ phase \in {"empty", "bench"}
      BY <1>2, <2>4, Advance
    <3>2. phase = "bench" => StreamLate' /\ StreamEarly'
      <4>1. ASSUME phase = "bench" PROVE StreamLate' /\ StreamEarly'
        <5>1. StreamLate /\ StreamEarly
          BY <1>2, <2>2, <4>1 DEF StreamInv
        <5> QED BY <1>2, <2>3, <2>4, <4>1, <5>1, StreamStep
      <4> QED BY <4>1
    <3>3. phase' # "done" /\ (phase' = "bench" => phase = "bench")
      BY ONLY <3>1
    <3> QED BY ONLY <3>2, <3>3 DEF StreamInv
  <2>5. CASE EndEmpty
    <3>1. /\ row' = row /\ core' = core /\ phase' = "bench" /\ iter' = 0 /\ pc' = 0
          /\ ready' = AtRest /\ free' = Idle(core.pipes)
      BY <2>5 DEF EndEmpty
    <3>2. /\ \A loc \in Locations : ready'[loc] = 0
          /\ \A u \in Units, p \in 1..core.pipes : free'[u][p] = 0
      BY <1>2, <3>1, Begin
    <3>3. \A u \in Units, p \in 1..core'.pipes : free'[u][p] = 0
      BY ONLY <3>1, <3>2
    <3>4. StreamRow(row)'
      BY ONLY <2>3, <3>1
    <3>5. StreamLate' /\ StreamEarly'
      BY <1>2, <3>1, <3>2, <3>3, <3>4, StreamAtRestNext
    <3> QED BY ONLY <3>1, <3>5 DEF StreamInv
  <2>6. CASE EndBench
    <3>1. /\ row' = row /\ core' = core /\ phase = "bench" /\ phase' = "done" /\ iter = Iters
          /\ elapsed' = Cycles
      BY <1>2, <2>6, LoopOver DEF EndBench
    <3>2. pc = 0 /\ StreamLate /\ StreamEarly
      BY <1>2, <2>2, <3>1 DEF Stopped, StreamInv
    <3>3. /\ Cycles * Shared >= Divisor * Limit
          /\ Cycles * Shared <= Divisor * Limit + Slack * Shared
      BY <1>2, <2>3, <3>1, <3>2, StreamOver
    <3>4. Shared' = Shared /\ Limit' = Limit
      BY <1>2, <2>3, <3>1, StreamSame
    <3>5. Divisor' = Divisor /\ Slack' = Slack
      BY ONLY <3>1 DEF Divisor, Slack
    <3>6. PICK low, high : low = Divisor * Limit /\ high = Divisor * Limit + Slack * Shared
      OBVIOUS
    <3>7. low \in Int /\ high \in Int /\ Cycles * Shared \in Int
      <4>1. Limit \in Nat /\ Shared \in Nat
        <5>1. SizesAre(Len(row.body), core.pipes, Own(row.body[1]), Occupied, Regained, Limit, Shared)
          BY <1>2, <2>3, StreamSizes
        <5>2. Len(row.body) \in {4, 8}
          BY <2>3 DEF StreamRow
        <5> QED BY ONLY <5>1, <5>2, SizesCost
      <4>2. Divisor \in Nat /\ Slack \in Nat
        <5>1. Iters \in Nat /\ MaxLat \in Nat /\ row.ops \in Nat
          BY <2>3, ItersAssumption, MaxLatAssumption DEF StreamRow
        <5>2. \A x, y \in Nat : x * y \in Nat /\ x * (y + 1) \in Nat
          BY ONLY TRUE
        <5> QED BY ONLY <5>1, <5>2 DEF Divisor, Slack
      <4>3. Cycles \in Nat
        BY <1>2, CyclesBound
      <4>4. \A x, y, u, v \in Nat : x * y \in Int /\ x * y + u * v \in Int
        BY ONLY TRUE
      <4> QED BY ONLY <3>6, <4>1, <4>2, <4>3, <4>4
    <3>8. PICK mid : mid = Cycles * Shared
      OBVIOUS
    <3>9. mid \in low..high
      BY ONLY <3>3, <3>6, <3>7, <3>8
    <3>10. elapsed' * Shared' \in Divisor' * Limit' .. Divisor' * Limit' + Slack' * Shared'
      BY ONLY <3>1, <3>4, <3>5, <3>6, <3>8, <3>9
    <3> QED BY ONLY <3>1, <3>10 DEF StreamInv
  <2> QED BY <2>2, <2>4, <2>5, <2>6 DEF Next
<1> QED BY <1>1, <1>2, TypeCorrect, StopsAtFirst, PTL DEF Spec

\* What the empty loop takes away is no more than an iteration may gain.
LEMMA StreamArithmetic ==
  ASSUME NEW el \in Nat, NEW em \in Nat, NEW shared \in Nat, NEW its \in Nat, NEW most \in Nat,
         NEW all \in Int, em <= its,
         el * shared >= all, el * shared <= all + its * (most + 1) * shared
  PROVE  Abs((el - em) * shared - all) <= its * (most + 1) * shared
<1>1. \A x, y, z \in Nat : x <= y => x * z <= y * z
  BY ONLY TRUE
<1>2. \A x, y \in Nat : x * y \in Nat
  BY ONLY TRUE
<1>3. PICK es \in Nat, ms \in Nat, is \in Nat :
        es = el * shared /\ ms = em * shared /\ is = its * shared
  BY ONLY <1>2, el \in Nat, em \in Nat, shared \in Nat, its \in Nat
<1>4. PICK more \in Nat : more = its * most * shared
  BY ONLY <1>2, its \in Nat, most \in Nat, shared \in Nat
<1>5. its * (most + 1) * shared = more + is
  <2>1. its * (most + 1) * shared = its * most * shared + its * shared
    BY ONLY its \in Nat, most \in Nat, shared \in Nat
  <2> QED BY ONLY <1>3, <1>4, <2>1
<1>6. ms <= is
  BY ONLY <1>1, <1>3, em <= its, em \in Nat, its \in Nat, shared \in Nat
<1>7. (el - em) * shared = es - ms
  <2>1. (el - em) * shared = el * shared - em * shared
    BY ONLY el \in Nat, em \in Nat, shared \in Nat
  <2> QED BY ONLY <1>3, <2>1
<1>8. es >= all /\ es <= all + (more + is)
  BY ONLY <1>3, <1>5, el * shared >= all, el * shared <= all + its * (most + 1) * shared
<1>9. PICK diff \in Int : diff = (es - ms) - all
  BY ONLY es \in Nat, ms \in Nat, all \in Int
<1>10. (IF diff < 0 THEN -diff ELSE diff) <= more + is
  BY ONLY <1>6, <1>8, <1>9, es \in Nat, ms \in Nat, is \in Nat, more \in Nat, all \in Int,
          diff \in Int
<1> QED BY ONLY <1>5, <1>7, <1>9, <1>10 DEF Abs

\* A throughput row prints the throughput of its instruction, within the ends of an
\* iteration: what its pipes can take, or what the registers of the row allow when they
\* are too few - for all latencies, numbers of pipes, rows and iterations.
THEOREM RowsShowThroughput == Spec => []ThroughputShown
<1>1. ASSUME TypeOK, EmptyInv, StreamInv PROVE ThroughputShown
  <2>1. SUFFICES ASSUME phase = "done", row.kind = "tput"
                 PROVE  LET shared == core.pipes * Len(row.body)
                        IN  Abs(Net * shared - Divisor * Limit) <= Slack * shared
    BY DEF ThroughputShown
  <2>2. StreamRow(row)
    BY <1>1, <2>1, StreamIsTput DEF TypeOK
  <2>3. PICK its \in Nat, most \in Nat : its = Iters /\ most = MaxLat
    BY ItersAssumption, MaxLatAssumption
  <2>4. PICK el \in Nat, em \in Nat : el = elapsed /\ em = empty
    BY <1>1 DEF TypeOK
  <2>5. em <= its
    <3>1. row.file # "storefwd"
      BY <2>2 DEF StreamRow
    <3>2. em \in 0..its
      BY <1>1, <2>1, <2>3, <2>4, <3>1 DEF EmptyInv
    <3> QED BY ONLY <3>2, its \in Nat
  <2>6. PICK shared \in Nat, limit \in Nat : shared = Shared /\ limit = Limit
    <3>1. SizesAre(Len(row.body), core.pipes, Own(row.body[1]), Occupied, Regained, Limit, Shared)
      BY <1>1, <2>2, StreamSizes
    <3>2. Len(row.body) \in {4, 8}
      BY <2>2 DEF StreamRow
    <3>3. Shared \in Nat /\ Limit \in Nat
      BY ONLY <3>1, <3>2, SizesCost
    <3> QED BY ONLY <3>3
  <2>7. PICK all \in Int : all = Divisor * limit
    <3>1. Iters \in Nat /\ row.ops \in Nat
      BY <2>2, ItersAssumption DEF StreamRow
    <3>2. \A x, y, z \in Nat : x * y * z \in Int
      BY ONLY TRUE
    <3>3. Divisor * limit \in Int
      BY ONLY <3>1, <3>2, limit \in Nat DEF Divisor
    <3> QED BY ONLY <3>3
  <2>8. PICK slack \in Nat : slack = Slack * shared /\ slack = its * (most + 1) * shared
    <3>1. \A x, y, z \in Nat : x * (y + 1) * z \in Nat
      BY ONLY TRUE
    <3>2. its * (most + 1) * shared \in Nat
      BY ONLY <3>1, its \in Nat, most \in Nat, shared \in Nat
    <3> QED BY ONLY <2>3, <3>2 DEF Slack
  <2>9. el * shared \in all..(all + slack)
    BY <1>1, <2>1, <2>4, <2>6, <2>7, <2>8 DEF StreamInv
  <2>10. el * shared >= all /\ el * shared <= all + its * (most + 1) * shared
    BY ONLY <2>8, <2>9, all \in Int, slack \in Nat
  <2>11. Abs((el - em) * shared - all) <= slack
    <3>1. Abs((el - em) * shared - all) <= its * (most + 1) * shared
      BY <2>5, <2>10, StreamArithmetic
    <3> QED BY ONLY <2>8, <3>1
  <2> QED BY ONLY <2>4, <2>6, <2>7, <2>8, <2>11 DEF Net, Shared
<1> QED BY <1>1, TypeCorrect, EmptyCost, StreamCost, PTL

===============================================================================
