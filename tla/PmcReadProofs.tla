----------------------------- MODULE PmcReadProofs -----------------------------
(***************************************************************************)
(* For every counter width, word size, set of registers and reload period: *)
(* pmc_read of src/pmc.h is linearizable and retries only with cause.      *)
(***************************************************************************)
EXTENDS PmcRead, Facts

\* pmc_width divides the word, and the word is not narrower.
LEMMA Sizes == /\ HwSize \in Nat \ {0} /\ WordSize \in Nat \ {0}
               /\ HwSize <= WordSize
               /\ \A a \in Int : /\ a % HwSize \in 0..(HwSize - 1)
                                 /\ a % WordSize \in 0..(WordSize - 1)
<1>1. HwSize \in Nat \ {0} /\ WordSize \in Nat \ {0} /\ WordSize % HwSize = 0
  BY SizesAssumption
<1>2. HwSize <= WordSize
  BY <1>1, MultipleAtLeast
<1>3. ASSUME NEW a \in Int
      PROVE  a % HwSize \in 0..(HwSize - 1) /\ a % WordSize \in 0..(WordSize - 1)
  BY <1>1, DivMod
<1> QED BY <1>1, <1>2, <1>3

\* The laws of ModFacts at the two moduli of pmc_read.
LEMMA HwMod ==
  /\ \A a \in Int : (a % WordSize) % HwSize = a % HwSize
  /\ \A a \in Int : (a % HwSize) % HwSize = a % HwSize
  /\ \A a, b, c \in Int : a % HwSize = b % HwSize => (a + c) % HwSize = (b + c) % HwSize
<1>1. HwSize \in Nat \ {0} /\ WordSize \in Nat \ {0} /\ WordSize % HwSize = 0
  BY SizesAssumption
<1>2. HwSize % HwSize = 0
  <2>1. (HwSize * 1 + 0) % HwSize = 0
    BY <1>1, ModUnique
  <2> QED BY <1>1, <2>1
<1>3. ASSUME NEW a \in Int PROVE (a % WordSize) % HwSize = a % HwSize
  BY <1>1, ModMod
<1>4. ASSUME NEW a \in Int PROVE (a % HwSize) % HwSize = a % HwSize
  BY <1>1, <1>2, ModMod
<1>5. ASSUME NEW a \in Int, NEW b \in Int, NEW c \in Int, a % HwSize = b % HwSize
      PROVE  (a + c) % HwSize = (b + c) % HwSize
  BY <1>1, <1>5, ModAdd
<1> QED BY <1>3, <1>4, <1>5

\* The masked sum of offset and register only depends on the summands modulo
\* HwSize, and is a value of both widths.
LEMMA CombineMod ==
  ASSUME NEW o \in Int, NEW p \in Int
  PROVE  /\ Combine(o, p) = (o + p) % HwSize
         /\ Combine(o, p) \in 0..(HwSize - 1)
         /\ Combine(o, p) \in 0..(WordSize - 1)
<1> DEFINE s == o + p
<1>1. s \in Int
  OBVIOUS
<1>2. /\ (s % WordSize) % HwSize = s % HwSize
      /\ s % HwSize \in 0..(HwSize - 1)
  <2> HIDE DEF s
  <2> QED BY <1>1, HwMod, Sizes
<1>3. Combine(o, p) = s % HwSize
  BY <1>2 DEF Combine
<1>4. HwSize \in Nat /\ WordSize \in Nat /\ HwSize <= WordSize
  BY Sizes
<1> HIDE DEF s
<1>5. s % HwSize \in 0..(WordSize - 1)
  BY <1>2, <1>4
<1> QED BY <1>2, <1>3, <1>5 DEF s

\* A register that lies d events beyond prev, seen through the offset the
\* kernel published for prev, is the total count modulo HwSize.
LEMMA SumIsTotal ==
  \A c, t \in Nat, p, h \in Int :
    t = c + ((h - p) % HwSize) => Combine((c - p) % WordSize, h) = t % HwSize
<1> SUFFICES ASSUME NEW c \in Nat, NEW t \in Nat, NEW p \in Int, NEW h \in Int,
                    t = c + ((h - p) % HwSize)
             PROVE  Combine((c - p) % WordSize, h) = t % HwSize
  OBVIOUS
<1> DEFINE x == c - p
           y == h - p
           o == x % WordSize
           d == y % HwSize
<1>1. x \in Int /\ y \in Int
  OBVIOUS
<1>2. /\ o \in Int /\ d \in Int
      /\ o % HwSize = x % HwSize
      /\ d % HwSize = y % HwSize
  <2> HIDE DEF x, y
  <2>1. o \in 0..(WordSize - 1) /\ d \in 0..(HwSize - 1)
    BY <1>1, Sizes, Zenon
  <2>2. HwSize \in Int /\ WordSize \in Int
    BY Sizes
  <2>3. o % HwSize = x % HwSize
    BY <1>1, HwMod, Zenon
  <2>4. d % HwSize = y % HwSize
    BY <1>1, HwMod, Zenon
  <2>5. o \in Int /\ d \in Int
    <3> HIDE DEF o, d
    <3> QED BY <2>1, <2>2
  <2> QED BY <2>3, <2>4, <2>5
<1>3. (o + h) % HwSize = (x + h) % HwSize
  <2> HIDE DEF o, x
  <2> QED BY <1>1, <1>2, HwMod, Zenon
<1>4. (d + c) % HwSize = (y + c) % HwSize
  <2> HIDE DEF d, y
  <2> QED BY <1>1, <1>2, c \in Int, HwMod, Zenon
<1>5. Combine(o, h) = (o + h) % HwSize
  <2> HIDE DEF o
  <2> QED BY <1>2, CombineMod
<1>6. x + h = y + c
  OBVIOUS
<1>7. d + c = t
  <2>1. t = c + d
    OBVIOUS
  <2> HIDE DEF d
  <2> QED BY <1>2, <2>1
<1>8. Combine(o, h) = t % HwSize
  <2> HIDE DEF o, d, x, y
  <2> QED BY <1>3, <1>4, <1>5, <1>6, <1>7
<1> QED BY <1>8

-------------------------------------------------------------------------------

LEMMA PendingType ==
  ASSUME KernelType
  PROVE  Pending \in Nat
<1> DEFINE d == hw - prev
<1>1. d \in Int
  BY SizesAssumption DEF KernelType
<1>2. d % HwSize \in 0..(HwSize - 1)
  <2> HIDE DEF d
  <2> QED BY <1>1, Sizes
<1> QED BY <1>2, Sizes DEF Pending

\* What putting the event on a register does to the kernel's state.
LEMMA ProgramEffect ==
  ASSUME KernelType, total' = total,
         NEW r \in Regs, NEW left \in 1..MaxPeriod, NEW c \in Nat,
         Program(r, left, c)
  PROVE  /\ KernelType'
         /\ event' = "active" /\ slot' = r /\ hw' = HwSize - left
         /\ prev' = -left /\ count' = c
         /\ page'.lock = page.lock + 2 /\ page'.index = r
         /\ page'.offset = (c + left) % WordSize
         /\ Pending' = 0
<1>1. /\ event' = "active" /\ slot' = r /\ hw' = HwSize - left
      /\ prev' = -left /\ count' = c
      /\ page' = [lock |-> page.lock + 2, index |-> r,
                  offset |-> (c + left) % WordSize]
  BY DEF Program, UpdatePage
<1>2. left \in Nat \ {0} /\ left < HwSize /\ left <= MaxPeriod /\ HwSize \in Nat
      /\ MaxPeriod \in Nat
  BY SizesAssumption
<1>3. hw' \in 0..(HwSize - 1) /\ prev' \in -MaxPeriod..0
  BY <1>1, <1>2
<1>4. (c + left) % WordSize \in 0..(WordSize - 1)
  <2> DEFINE s == c + left
  <2>1. s \in Int
    BY <1>2
  <2> HIDE DEF s
  <2>2. s % WordSize \in 0..(WordSize - 1)
    BY <2>1, Sizes, Zenon
  <2> QED BY <2>2 DEF s
<1>5. page.lock + 2 \in Nat
  BY DEF KernelType
<1>6. KernelType'
  BY <1>1, <1>3, <1>4, <1>5 DEF KernelType
<1>7. hw' - prev' = HwSize * 1 + 0
  BY <1>1, <1>2
<1>8. Pending' = 0
  <2>1. (HwSize * 1 + 0) % HwSize = 0
    BY Sizes, ModUnique
  <2> QED BY <1>7, <2>1 DEF Pending
<1> QED BY <1>1, <1>6, <1>8

\* What taking the event off its register does to the kernel's state.
LEMMA UnprogramEffect ==
  ASSUME KernelType, total' = total,
         NEW s \in {"out", "error"}, NEW c \in Nat,
         Unprogram(s, c)
  PROVE  /\ KernelType'
         /\ event' = s /\ count' = c
         /\ page'.lock = page.lock + 2 /\ page'.index = 0
<1>1. /\ event' = s /\ slot' = 0 /\ hw' = 0 /\ prev' = 0 /\ count' = c
      /\ page' = [lock |-> page.lock + 2, index |-> 0, offset |-> c % WordSize]
  BY DEF Unprogram, UpdatePage
<1>2. c % WordSize \in 0..(WordSize - 1)
  BY Sizes
<1>3. 0 \in 0..(HwSize - 1) /\ 0 \in -MaxPeriod..0
  BY SizesAssumption
<1>4. page.lock + 2 \in Nat
  BY DEF KernelType
<1> QED BY <1>1, <1>2, <1>3, <1>4 DEF KernelType

-------------------------------------------------------------------------------

LEMMA InitInv == Init => ReadInv
<1> SUFFICES ASSUME Init PROVE ReadInv
  OBVIOUS
<1>1. TypeOK
  <2>1. 0 \in 0..(HwSize - 1) /\ 0 \in 0..(WordSize - 1) /\ 0 \in -MaxPeriod..0
    BY Sizes, SizesAssumption
  <2>2. KernelType
    BY <2>1 DEF Init, KernelType
  <2>3. ReaderType
    BY <2>1 DEF Init, ReaderType
  <2> QED BY <2>2, <2>3 DEF TypeOK
<1>2. KernelInv /\ RetryInv /\ AttemptInv
  BY DEF Init, KernelInv, RetryInv, AttemptInv
<1>3. ReadLinearizable /\ RetriesHaveCause
  BY DEF Init, ReadLinearizable, RetriesHaveCause
<1> QED BY <1>1, <1>2, <1>3 DEF ReadInv

\* An update of the page during a read invalidates the attempt, because the
\* lock moves past its sequence number, and accounts for one more retry.
LEMMA PageUpdate ==
  ASSUME ReadInv, KernelType', KernelInv', UNCHANGED <<total, readerVars, ghostVars>>,
         page'.lock = page.lock + 2,
         event \in {"active", "out"}, event' \in {"active", "out", "error"}
  PROVE  ReadInv'
<1> USE DEF readerVars, ghostVars
<1>1. TypeOK'
  BY DEF ReadInv, TypeOK, ReaderType
<1>2. page.lock \in Nat /\ seq \in Nat /\ lockFrom \in Nat /\ retries \in Nat
  BY DEF ReadInv, TypeOK, ReaderType, KernelType
<1>3. RetryInv'
  BY <1>2 DEF ReadInv, RetryInv
<1>4. AttemptInv'
  <2>1. pc \in {"offset", "rdpmc", "check"} => page'.lock # seq
    BY <1>2 DEF ReadInv, RetryInv
  <2>2. pc = "offset" => idx # 0
    BY DEF ReadInv, AttemptInv
  <2> QED BY <2>1, <2>2 DEF ReadInv, AttemptInv, LockMatches
<1>5. ReadLinearizable'
  BY DEF ReadInv, ReadLinearizable, Modulus
<1>6. RetriesHaveCause'
  BY <1>2 DEF ReadInv, RetriesHaveCause
<1> QED BY <1>1, <1>3, <1>4, <1>5, <1>6 DEF ReadInv

LEMMA OverflowInv == ReadInv /\ Overflow => ReadInv'
<1> SUFFICES ASSUME ReadInv, Overflow PROVE ReadInv'
  OBVIOUS
<1>1. KernelType /\ KernelInv
  BY DEF ReadInv, TypeOK
<1>2. PICK left \in 1..MaxPeriod : Program(slot, left, count + Pending)
  BY DEF Overflow
<1>3. total' = total /\ event = "active" /\ slot \in Regs
      /\ total = count + Pending /\ page.lock % 2 = 0
  BY <1>1 DEF Overflow, KernelInv
<1>4. count + Pending \in Nat
  BY <1>1, PendingType DEF KernelType
<1>5. /\ KernelType'
      /\ event' = "active" /\ slot' = slot /\ prev' = -left
      /\ count' = count + Pending
      /\ page'.lock = page.lock + 2 /\ page'.index = slot
      /\ page'.offset = (count + Pending + left) % WordSize
      /\ Pending' = 0
  BY <1>1, <1>2, <1>3, <1>4, ProgramEffect
<1>6. KernelInv'
  <2>1. count' - prev' = count + Pending + left
    BY <1>4, <1>5
  <2>2. page'.lock % 2 = 0
    BY <1>1, <1>3, <1>5 DEF KernelType
  <2>3. total' = count' + Pending'
    BY <1>3, <1>4, <1>5
  <2> QED BY <1>3, <1>5, <2>1, <2>2, <2>3 DEF KernelInv
<1> QED BY <1>3, <1>5, <1>6, PageUpdate DEF Overflow

LEMMA SchedOutInv == ReadInv /\ SchedOut => ReadInv'
<1> SUFFICES ASSUME ReadInv, SchedOut PROVE ReadInv'
  OBVIOUS
<1>1. KernelType /\ KernelInv
  BY DEF ReadInv, TypeOK
<1>2. Unprogram("out", count + Pending) /\ total' = total /\ event = "active"
  BY DEF SchedOut
<1>3. total = count + Pending /\ count + Pending \in Nat
  BY <1>1, <1>2, PendingType DEF KernelInv, KernelType
<1>4. /\ KernelType' /\ event' = "out" /\ count' = count + Pending
      /\ page'.lock = page.lock + 2 /\ page'.index = 0
  BY <1>1, <1>2, <1>3, UnprogramEffect
<1>5. KernelInv'
  BY <1>1, <1>2, <1>3, <1>4 DEF KernelInv, KernelType
<1> QED BY <1>2, <1>4, <1>5, PageUpdate DEF SchedOut

LEMMA SchedInInv == ReadInv /\ SchedIn => ReadInv'
<1> SUFFICES ASSUME ReadInv, SchedIn PROVE ReadInv'
  OBVIOUS
<1>1. KernelType /\ KernelInv
  BY DEF ReadInv, TypeOK
<1>2. /\ total' = total /\ event = "out" /\ total = count /\ count \in Nat
      /\ page.lock \in Nat /\ page.lock % 2 = 0
  BY <1>1 DEF SchedIn, KernelInv, KernelType
<1>3. ASSUME NEW r \in Regs, NEW left \in 1..MaxPeriod, Program(r, left, count)
      PROVE  ReadInv'
  <2>1. /\ KernelType'
        /\ event' = "active" /\ slot' = r /\ prev' = -left /\ count' = count
        /\ page'.lock = page.lock + 2 /\ page'.index = r
        /\ page'.offset = (count + left) % WordSize
        /\ Pending' = 0
    BY <1>1, <1>2, <1>3, ProgramEffect
  <2>2. count' - prev' = count + left
    BY <1>2, <2>1
  <2>3. KernelInv'
    BY <1>2, <2>1, <2>2 DEF KernelInv
  <2> QED BY <1>2, <2>1, <2>3, PageUpdate DEF SchedIn
<1>4. CASE Unprogram("error", count)
  <2>1. /\ KernelType' /\ event' = "error" /\ count' = count
        /\ page'.lock = page.lock + 2 /\ page'.index = 0
    BY <1>1, <1>2, <1>4, UnprogramEffect
  <2>2. KernelInv'
    BY <1>2, <2>1 DEF KernelInv
  <2> QED BY <1>2, <2>1, <2>2, PageUpdate DEF SchedIn
<1> QED BY <1>3, <1>4 DEF SchedIn

\* One more event advances the register's distance from prev by one, even when
\* the register passes zero, as long as it has not lapped.
LEMMA PendingTick ==
  ASSUME NEW h \in Int, NEW p \in Int, NEW d \in Nat,
         d = (h - p) % HwSize, d < HwSize - 1
  PROVE  (((h + 1) % HwSize) - p) % HwSize = d + 1
<1> DEFINE x == h - p
           g == (h + 1) % HwSize
           e == d + 1
<1>1. x \in Int /\ h + 1 \in Int /\ -p \in Int /\ HwSize \in Nat \ {0}
  BY Sizes
<1>2. g \in 0..(HwSize - 1) /\ g % HwSize = (h + 1) % HwSize
  BY <1>1, Sizes, HwMod, Zenon
<1>3. g \in Int
  <2> HIDE DEF g
  <2> QED BY <1>1, <1>2
<1>4. (g + (-p)) % HwSize = ((h + 1) + (-p)) % HwSize
  <2> HIDE DEF g
  <2> QED BY <1>1, <1>2, <1>3, HwMod, Zenon
<1>5. (x + 1) % HwSize = (d + 1) % HwSize
  <2>1. d = x % HwSize
    OBVIOUS
  <2>2. d % HwSize = x % HwSize
    <3> HIDE DEF x
    <3> QED BY <1>1, <2>1, HwMod, Zenon
  <2>3. 1 \in Int /\ d \in Int
    OBVIOUS
  <2> HIDE DEF x
  <2> QED BY <1>1, <2>2, <2>3, HwMod, Zenon
<1>6. e % HwSize = e
  <2>1. e \in 0..(HwSize - 1)
    BY <1>1
  <2> HIDE DEF e
  <2>2. (HwSize * 0 + e) % HwSize = e
    BY <1>1, <2>1, ModUnique
  <2>3. HwSize * 0 + e = e
    BY <1>1, <2>1
  <2> QED BY <2>2, <2>3
<1>7. (h + 1) + (-p) = x + 1 /\ g + (-p) = g - p
  <2>1. (h + 1) + (-p) = x + 1
    OBVIOUS
  <2> HIDE DEF g
  <2>2. g + (-p) = g - p
    BY <1>3
  <2> QED BY <2>1, <2>2
<1>8. (g - p) % HwSize = e
  <2> HIDE DEF g, x
  <2> QED BY <1>4, <1>5, <1>6, <1>7
<1> QED BY <1>8

LEMMA TickInv == ReadInv /\ Tick => ReadInv'
<1> SUFFICES ASSUME ReadInv, Tick PROVE ReadInv'
  OBVIOUS
<1> USE DEF readerVars, ghostVars
<1>1. KernelType /\ KernelInv
  BY DEF ReadInv, TypeOK
<1>2. /\ event = "active" /\ total' = total + 1 /\ hw' = (hw + 1) % HwSize
      /\ UNCHANGED <<event, page, slot, count, prev, readerVars, ghostVars>>
      /\ Pending < HwSize - 1
  BY DEF Tick
<1>3. hw \in Int /\ prev \in Int /\ HwSize \in Int
  BY <1>1, SizesAssumption DEF KernelType
<1>4. Pending' = Pending + 1
  <2>1. Pending \in Nat
    BY <1>1, PendingType
  <2> QED BY <1>2, <1>3, <2>1, PendingTick DEF Pending
<1>5. KernelType'
  <2> DEFINE x == hw + 1
  <2>1. x \in Int
    BY <1>3
  <2>2. x % HwSize \in 0..(HwSize - 1)
    <3> HIDE DEF x
    <3> QED BY <2>1, Sizes, Zenon
  <2>3. hw' \in 0..(HwSize - 1)
    BY <1>2, <2>2
  <2>4. total' \in Nat
    BY <1>1, <1>2 DEF KernelType
  <2> QED BY <1>1, <1>2, <2>3, <2>4 DEF KernelType
<1>6. KernelInv'
  <2>1. total' = count' + Pending'
    BY <1>1, <1>2, <1>4, PendingType DEF KernelInv, KernelType
  <2> QED BY <1>1, <1>2, <2>1 DEF KernelInv
<1>7. ReaderType'
  BY <1>2 DEF ReadInv, TypeOK, ReaderType
<1>8. from \in Nat /\ total \in Nat
  BY DEF ReadInv, TypeOK, KernelType, ReaderType
<1>9. RetryInv' /\ RetriesHaveCause'
  BY <1>2, <1>8 DEF ReadInv, RetryInv, RetriesHaveCause
<1>10. \A t \in from..total : t \in from..total'
  BY <1>2, <1>8
<1>11. AttemptInv'
  BY <1>2, <1>10 DEF ReadInv, AttemptInv, LockMatches
<1>12. ReadLinearizable'
  BY <1>2, <1>10 DEF ReadInv, ReadLinearizable, Modulus
<1> QED BY <1>5, <1>6, <1>7, <1>9, <1>11, <1>12 DEF ReadInv, TypeOK

-------------------------------------------------------------------------------

\* A step of the reader leaves the kernel's invariant alone.
LEMMA KernelStays ==
  ASSUME KernelType, KernelInv, UNCHANGED kernelVars
  PROVE  KernelType' /\ KernelInv'
BY DEF kernelVars, KernelType, KernelInv, Pending

LEMMA OpenInv == ReadInv /\ Open => ReadInv'
<1> SUFFICES ASSUME ReadInv, Open PROVE ReadInv'
  OBVIOUS
<1> USE DEF ghostVars
<1>1. KernelType /\ KernelInv
  BY DEF ReadInv, TypeOK
<1>2. /\ total' = total /\ event = "closed" /\ total = 0
      /\ page.lock \in Nat /\ page.lock % 2 = 0
      /\ pc' = "idle" /\ rdpmcOk' \in BOOLEAN
      /\ UNCHANGED <<seq, idx, off, val, ghostVars>>
  <2>1. pc = "closed" /\ event = "closed"
    BY DEF Open, ReadInv, RetryInv
  <2>2. total = 0
    BY <1>1, <2>1 DEF KernelInv
  <2>3. rdpmcOk' \in BOOLEAN
    BY DEF Open
  <2> QED BY <1>1, <2>1, <2>2, <2>3 DEF Open, KernelInv, KernelType
<1>3. /\ KernelType' /\ KernelInv' /\ event' # "closed"
      /\ page'.lock = page.lock + 2
  <2>1. ASSUME NEW r \in Regs, NEW left \in 1..MaxPeriod, Program(r, left, 0)
        PROVE  /\ KernelType' /\ KernelInv' /\ event' # "closed"
               /\ page'.lock = page.lock + 2
    <3>1. /\ KernelType'
          /\ event' = "active" /\ slot' = r /\ prev' = -left /\ count' = 0
          /\ page'.lock = page.lock + 2 /\ page'.index = r
          /\ page'.offset = (0 + left) % WordSize
          /\ Pending' = 0
      BY <1>1, <1>2, <2>1, ProgramEffect
    <3>2. count' - prev' = 0 + left
      BY <3>1
    <3> QED BY <1>2, <3>1, <3>2 DEF KernelInv
  <2>2. ASSUME Unprogram("error", 0)
        PROVE  /\ KernelType' /\ KernelInv' /\ event' # "closed"
               /\ page'.lock = page.lock + 2
    <3>1. /\ KernelType' /\ event' = "error" /\ count' = 0
          /\ page'.lock = page.lock + 2 /\ page'.index = 0
      BY <1>1, <1>2, <2>2, UnprogramEffect
    <3> QED BY <1>2, <3>1 DEF KernelInv
  <2> QED BY <2>1, <2>2 DEF Open
<1>4. ReaderType'
  <2>1. val = 0 /\ last = 0 /\ 0 < HwSize
    BY <1>2, Sizes DEF ReadInv, RetryInv
  <2> QED BY <1>2, <2>1 DEF ReadInv, TypeOK, ReaderType
<1>5. RetryInv'
  <2>1. lockFrom \in Nat /\ lockFrom <= page.lock /\ from <= total
    BY DEF ReadInv, TypeOK, ReaderType, RetryInv
  <2> QED BY <1>2, <1>3, <2>1 DEF RetryInv
<1>6. AttemptInv' /\ ReadLinearizable' /\ RetriesHaveCause'
  BY <1>2 DEF AttemptInv, ReadLinearizable, RetriesHaveCause
<1> QED BY <1>3, <1>4, <1>5, <1>6 DEF ReadInv, TypeOK

LEMMA CallInv == ReadInv /\ Call => ReadInv'
<1> SUFFICES ASSUME ReadInv, Call PROVE ReadInv'
  OBVIOUS
<1>1. KernelType' /\ KernelInv'
  BY KernelStays DEF ReadInv, TypeOK, Call
<1>2. page' = page /\ event' = event /\ total' = total
      /\ page.lock \in Nat /\ total \in Nat
  BY DEF Call, kernelVars, ReadInv, TypeOK, KernelType
<1>3. ReaderType'
  BY <1>2 DEF ReadInv, TypeOK, ReaderType, Call
<1>4. RetryInv'
  BY <1>2 DEF ReadInv, TypeOK, ReaderType, RetryInv, Call, Running
<1>5. AttemptInv' /\ ReadLinearizable'
  BY DEF Call, AttemptInv, ReadLinearizable
<1>6. RetriesHaveCause'
  BY <1>2 DEF Call, RetriesHaveCause
<1> QED BY <1>1, <1>3, <1>4, <1>5, <1>6 DEF ReadInv, TypeOK

LEMMA LoadLockInv == ReadInv /\ LoadLock => ReadInv'
<1> SUFFICES ASSUME ReadInv, LoadLock PROVE ReadInv'
  OBVIOUS
<1> USE DEF ghostVars
<1>1. KernelType' /\ KernelInv'
  BY KernelStays DEF ReadInv, TypeOK, LoadLock
<1>2. page' = page /\ event' = event /\ total' = total
      /\ page.lock \in Nat /\ page.lock % 2 = 0
  BY DEF LoadLock, kernelVars, ReadInv, TypeOK, KernelType, KernelInv
<1>3. ReaderType'
  BY <1>2 DEF ReadInv, TypeOK, ReaderType, LoadLock
<1>4. RetryInv'
  BY <1>2 DEF ReadInv, RetryInv, LoadLock, Running
<1>5. AttemptInv' /\ ReadLinearizable' /\ RetriesHaveCause'
  BY <1>2 DEF LoadLock, ReadInv, AttemptInv, ReadLinearizable, RetriesHaveCause
<1> QED BY <1>1, <1>3, <1>4, <1>5 DEF ReadInv, TypeOK

\* An index of 0 seen by the running thread is the index of a lost event.
LEMMA LoadIndexInv == ReadInv /\ LoadIndex => ReadInv'
<1> SUFFICES ASSUME ReadInv, LoadIndex PROVE ReadInv'
  OBVIOUS
<1> USE DEF ghostVars
<1>1. KernelType' /\ KernelInv'
  BY KernelStays DEF ReadInv, TypeOK, LoadIndex
<1>2. page' = page /\ event' = event /\ total' = total
      /\ page.index \in Regs \cup {0}
  BY DEF LoadIndex, kernelVars, ReadInv, TypeOK, KernelType
<1>3. ReaderType'
  BY <1>2 DEF ReadInv, TypeOK, ReaderType, LoadIndex
<1>4. RetryInv'
  BY <1>2 DEF ReadInv, RetryInv, LoadIndex, Running
<1>5. page.index = 0 => event = "error"
  BY RegsAssumption DEF LoadIndex, Running, ReadInv, TypeOK, KernelType, KernelInv
<1>6. AttemptInv'
  BY <1>2, <1>5 DEF LoadIndex, AttemptInv, LockMatches
<1>7. ReadLinearizable' /\ RetriesHaveCause'
  BY <1>2 DEF LoadIndex, ReadInv, ReadLinearizable, RetriesHaveCause
<1> QED BY <1>1, <1>3, <1>4, <1>6, <1>7 DEF ReadInv, TypeOK

LEMMA LoadOffsetInv == ReadInv /\ LoadOffset => ReadInv'
<1> SUFFICES ASSUME ReadInv, LoadOffset PROVE ReadInv'
  OBVIOUS
<1> USE DEF ghostVars
<1>1. KernelType' /\ KernelInv'
  BY KernelStays DEF ReadInv, TypeOK, LoadOffset
<1>2. page' = page /\ event' = event /\ total' = total
      /\ page.offset \in 0..(WordSize - 1)
  BY DEF LoadOffset, kernelVars, ReadInv, TypeOK, KernelType
<1>3. ReaderType'
  <2>1. 0 \in 0..(WordSize - 1) /\ 0 < HwSize
    BY Sizes
  <2> QED BY <1>2, <2>1 DEF ReadInv, TypeOK, ReaderType, LoadOffset
<1>4. RetryInv' /\ RetriesHaveCause'
  BY <1>2 DEF ReadInv, RetryInv, RetriesHaveCause, LoadOffset, Running
<1>5. AttemptInv'
  BY <1>2 DEF LoadOffset, ReadInv, AttemptInv, LockMatches
<1>6. ReadLinearizable'
  BY <1>2 DEF LoadOffset, ReadInv, AttemptInv, ReadLinearizable
<1> QED BY <1>1, <1>3, <1>4, <1>5, <1>6 DEF ReadInv, TypeOK

\* If the lock has not moved, index and offset are the page's present ones, so
\* the register read is the event's own and the sum is the count right now.
LEMMA RdpmcInv == ReadInv /\ Rdpmc => ReadInv'
<1> SUFFICES ASSUME ReadInv, Rdpmc PROVE ReadInv'
  OBVIOUS
<1> USE DEF ghostVars
<1>1. KernelType' /\ KernelInv'
  BY KernelStays DEF ReadInv, TypeOK, Rdpmc
<1>2. page' = page /\ event' = event /\ total' = total
  BY DEF Rdpmc, kernelVars
<1>3. PICK pmc \in Register(idx) : val' = Combine(off, pmc)
  BY DEF Rdpmc
<1>4. pmc \in Int /\ off \in Int
  BY Sizes DEF Register, ReadInv, TypeOK, KernelType, ReaderType
<1>5. ReaderType'
  <2>1. val' \in 0..(WordSize - 1) /\ val' \in 0..(HwSize - 1)
    BY <1>3, <1>4, CombineMod
  <2>2. val' < HwSize
    BY <2>1, Sizes
  <2> QED BY <2>2, <2>1 DEF Rdpmc, ReadInv, TypeOK, ReaderType
<1>6. RetryInv' /\ RetriesHaveCause' /\ ReadLinearizable'
  BY <1>2 DEF Rdpmc, ReadInv, RetryInv, RetriesHaveCause, ReadLinearizable, Running
<1>7. ASSUME LockMatches
      PROVE  \E t \in from..total : val' = t % HwSize
  <2>1. idx = page.index /\ off = page.offset /\ idx # 0
    BY <1>7 DEF Rdpmc, ReadInv, AttemptInv
  <2>2. event = "active" /\ idx = slot /\ pmc = hw
    BY <1>3, <2>1 DEF ReadInv, KernelInv, Register
  <2>3. /\ total = count + ((hw - prev) % HwSize)
        /\ off = (count - prev) % WordSize
        /\ count \in Nat /\ prev \in Int /\ hw \in Int /\ total \in Nat
    BY <2>1, <2>2, Sizes, SizesAssumption
       DEF ReadInv, TypeOK, KernelType, KernelInv, Pending
  <2>4. Combine((count - prev) % WordSize, hw) = total % HwSize
    BY <2>3, SumIsTotal, Zenon
  <2>5. val' = total % HwSize
    BY <1>3, <2>2, <2>3, <2>4, Zenon
  <2>6. total \in from..total
    BY <2>3 DEF ReadInv, TypeOK, ReaderType, RetryInv
  <2> QED BY <2>5, <2>6
<1>8. AttemptInv'
  <2>1. pc' = "check" /\ seq' = seq /\ from' = from
    BY DEF Rdpmc
  <2> QED BY <1>2, <1>7, <2>1 DEF AttemptInv, LockMatches
<1> QED BY <1>1, <1>5, <1>6, <1>8 DEF ReadInv, TypeOK

\* The lock can only have moved by a whole update, which pays for the retry.
LEMMA CheckLockInv == ReadInv /\ CheckLock => ReadInv'
<1> SUFFICES ASSUME ReadInv, CheckLock PROVE ReadInv'
  OBVIOUS
<1>1. KernelType' /\ KernelInv'
  BY KernelStays DEF ReadInv, TypeOK, CheckLock
<1>2. /\ page' = page /\ event' = event /\ total' = total
      /\ UNCHANGED <<rdpmcOk, seq, idx, off, val, from, lockFrom, last, drops>>
      /\ pc = "check" /\ Running
  BY DEF CheckLock, kernelVars
<1>3. /\ page.lock \in Nat /\ seq \in Nat /\ lockFrom \in Nat /\ retries \in Nat
      /\ page.lock % 2 = 0 /\ seq % 2 = 0 /\ seq <= page.lock
      /\ 2 * retries <= seq - lockFrom
  BY <1>2 DEF ReadInv, TypeOK, KernelType, KernelInv, ReaderType, RetryInv
<1>4. CASE LockMatches /\ pc' = "done" /\ UNCHANGED retries
  <2>1. ReaderType'
    BY <1>2, <1>4 DEF ReadInv, TypeOK, ReaderType
  <2>2. RetryInv' /\ AttemptInv'
    BY <1>2, <1>4 DEF ReadInv, RetryInv, AttemptInv, Running
  <2>3. ReadLinearizable'
    BY <1>2, <1>4 DEF ReadInv, RetryInv, AttemptInv, ReadLinearizable, Modulus
  <2>4. RetriesHaveCause'
    BY <1>2, <1>3, <1>4 DEF RetriesHaveCause
  <2> QED BY <1>1, <2>1, <2>2, <2>3, <2>4 DEF ReadInv, TypeOK
<1>5. CASE ~LockMatches /\ pc' = "lock" /\ retries' = Saturate(retries + 1)
  <2>1. retries' \in Nat /\ retries' <= retries + 1
    BY <1>3, <1>5, BoundsAssumption DEF Saturate
  <2>2. seq + 2 <= page.lock
    BY <1>3, <1>5 DEF LockMatches
  <2>3. 2 * retries' <= page.lock - lockFrom
    BY <1>3, <2>1, <2>2
  <2>4. ReaderType'
    BY <1>2, <1>5, <2>1 DEF ReadInv, TypeOK, ReaderType
  <2>5. RetryInv' /\ RetriesHaveCause'
    BY <1>2, <1>5, <2>3 DEF ReadInv, RetryInv, RetriesHaveCause
  <2>6. AttemptInv' /\ ReadLinearizable'
    BY <1>5 DEF AttemptInv, ReadLinearizable
  <2> QED BY <1>1, <2>4, <2>5, <2>6 DEF ReadInv, TypeOK
<1> QED BY <1>4, <1>5 DEF CheckLock

LEMMA SyscallInv == ReadInv /\ Syscall => ReadInv'
<1> SUFFICES ASSUME ReadInv, Syscall PROVE ReadInv'
  OBVIOUS
<1> USE DEF ghostVars
<1>1. KernelType' /\ KernelInv'
  BY KernelStays DEF ReadInv, TypeOK, Syscall
<1>2. /\ page' = page /\ event' = event /\ total' = total
      /\ pc = "syscall" /\ ~rdpmcOk /\ event \in {"active", "error"}
      /\ from <= total /\ from \in Nat /\ total \in Nat
  BY DEF Syscall, kernelVars, Running, ReadInv, TypeOK, KernelType, ReaderType, RetryInv
<1>3. event = "active" => val' = total % WordSize
  BY DEF Syscall, ReadInv, KernelInv
<1>4. event = "error" => val' = 0
  BY DEF Syscall
<1>5. ReaderType'
  <2>1. total % WordSize \in 0..(WordSize - 1) /\ 0 \in 0..(WordSize - 1)
    BY <1>2, Sizes
  <2>2. val' \in 0..(WordSize - 1)
    BY <1>2, <1>3, <1>4, <2>1
  <2>3. ~rdpmcOk'
    BY <1>2 DEF Syscall
  <2> QED BY <2>2, <2>3 DEF Syscall, ReadInv, TypeOK, ReaderType
<1>6. RetryInv' /\ AttemptInv' /\ RetriesHaveCause'
  BY <1>2 DEF Syscall, ReadInv, RetryInv, AttemptInv, RetriesHaveCause
<1>7. ReadLinearizable'
  <2>1. total \in from..total
    BY <1>2
  <2>2. from' = from /\ rdpmcOk' = rdpmcOk
    BY DEF Syscall
  <2> QED BY <1>2, <1>3, <1>4, <2>1, <2>2 DEF ReadLinearizable, Modulus
<1> QED BY <1>1, <1>5, <1>6, <1>7 DEF ReadInv, TypeOK

LEMMA ReturnInv == ReadInv /\ Return => ReadInv'
<1> SUFFICES ASSUME ReadInv, Return PROVE ReadInv'
  OBVIOUS
<1>1. KernelType' /\ KernelInv'
  BY KernelStays DEF ReadInv, TypeOK, Return
<1>2. page' = page /\ event' = event /\ total' = total
  BY DEF Return, kernelVars
<1>3. ReaderType'
  <2>1. 0 \in 0..(WordSize - 1) /\ 0 < HwSize
    BY Sizes
  <2> QED BY <2>1 DEF Return, ReadInv, TypeOK, ReaderType
<1>4. RetryInv'
  BY <1>2 DEF Return, ReadInv, RetryInv, Running
<1>5. AttemptInv' /\ ReadLinearizable' /\ RetriesHaveCause'
  BY DEF Return, AttemptInv, ReadLinearizable, RetriesHaveCause
<1> QED BY <1>1, <1>3, <1>4, <1>5 DEF ReadInv, TypeOK

-------------------------------------------------------------------------------

LEMMA StutterInv == ReadInv /\ UNCHANGED vars => ReadInv'
<1> SUFFICES ASSUME ReadInv, UNCHANGED vars PROVE ReadInv'
  OBVIOUS
<1> USE DEF vars, kernelVars, readerVars, ghostVars
<1>1. KernelType' /\ KernelInv'
  BY KernelStays DEF ReadInv, TypeOK
<1>2. ReaderType' /\ RetryInv' /\ RetriesHaveCause'
  BY DEF ReadInv, TypeOK, ReaderType, RetryInv, RetriesHaveCause
<1>3. AttemptInv' /\ ReadLinearizable'
  BY DEF ReadInv, AttemptInv, ReadLinearizable, LockMatches, Modulus
<1> QED BY <1>1, <1>2, <1>3 DEF ReadInv, TypeOK

\* Every step of kernel and reader preserves the invariant of a read.
THEOREM ReadInvariant == Spec => []ReadInv
<1>1. ReadInv /\ [Next]_vars => ReadInv'
  BY TickInv, OverflowInv, SchedOutInv, SchedInInv, OpenInv, CallInv,
     LoadLockInv, LoadIndexInv, LoadOffsetInv, RdpmcInv, CheckLockInv,
     SyscallInv, ReturnInv, StutterInv DEF Next, Kernel, Reader
<1> QED BY InitInv, <1>1, PTL DEF Spec

\* The variables of pmc_read and of the kernel keep their types: no sum leaves
\* the word, no index names a register the event was never on.
THEOREM TypeCorrect == Spec => []TypeOK
<1>1. ReadInv => TypeOK
  BY DEF ReadInv
<1> QED BY ReadInvariant, <1>1, PTL

\* pmc_read returns a count the event really had during the call, modulo the
\* width of the path taken, unless the kernel took the event away.
THEOREM Linearizable == Spec => []ReadLinearizable
<1>1. ReadInv => ReadLinearizable
  BY DEF ReadInv
<1> QED BY ReadInvariant, <1>1, PTL

\* Each retry of the do-while loop is paid for by a page update of its own.
THEOREM RetriesBounded == Spec => []RetriesHaveCause
<1>1. ReadInv => RetriesHaveCause
  BY DEF ReadInv
<1> QED BY ReadInvariant, <1>1, PTL

-------------------------------------------------------------------------------
(* A counter that is lost stays lost. *)

\* A count that has not reached the register's width is read as it is.
LEMMA UnlappedCount ==
  ASSUME TypeOK, total < HwSize, NEW t \in from..total
  PROVE  t % Modulus = t
<1>1. t \in 0..(HwSize - 1) /\ t \in 0..(WordSize - 1)
  <2>1. from \in Nat /\ total \in Nat
    BY DEF TypeOK, KernelType, ReaderType
  <2>2. HwSize \in Nat /\ WordSize \in Nat /\ HwSize <= WordSize
    BY Sizes
  <2> QED BY <2>1, <2>2
<1>2. t % HwSize = t /\ t % WordSize = t
  BY <1>1, Sizes, ModSmall
<1> QED BY <1>2 DEF Modulus

\* A step of the kernel takes the lock away from the attempt under way, or leaves
\* the page alone; an event in the ERROR state stays there.
LEMMA DropKernel == ReadInv /\ DropInv /\ Kernel => DropInv'
<1> SUFFICES ASSUME ReadInv, DropInv, Kernel PROVE DropInv'
  OBVIOUS
<1> USE DEF readerVars, ghostVars
<1>1. total \in Nat /\ page.lock \in Nat /\ HwSize \in Nat /\ last \in Nat
  BY Sizes DEF ReadInv, TypeOK, KernelType, ReaderType
<1>2. /\ UNCHANGED <<readerVars, ghostVars>>
      /\ total' \in Nat /\ total <= total'
      /\ event # "error"
  BY <1>1 DEF Kernel, Tick, Overflow, SchedOut, SchedIn
<1>3. \/ page' = page /\ event' = event
      \/ page'.lock = page.lock + 2
  BY DEF Kernel, Tick, Overflow, SchedOut, SchedIn, Program, Unprogram, UpdatePage
<1>4. pc = "check" => seq <= page.lock /\ seq \in Nat
  BY DEF ReadInv, RetryInv, TypeOK, ReaderType
<1>5. pc' = "check" /\ LockMatches' => event' = "active"
  BY <1>1, <1>2, <1>3, <1>4 DEF DropInv, LockMatches
<1>6. total' < HwSize =>
        drops = 0 /\ last <= total /\ (pc \notin {"closed", "idle"} => last <= from)
  BY <1>1, <1>2 DEF DropInv
<1> QED BY <1>1, <1>2, <1>5, <1>6 DEF DropInv

\* A return is the one step that can find less than the read before.
LEMMA DropReturn == ReadInv /\ DropInv /\ Return => DropInv'
<1> SUFFICES ASSUME ReadInv, DropInv, Return PROVE DropInv'
  OBVIOUS
<1>1. /\ pc = "done" /\ pc' = "idle" /\ last' = val
      /\ drops' = IF val < last THEN drops + 1 ELSE drops
      /\ total' = total /\ event' = event
  BY DEF Return, kernelVars
<1>2. total \in Nat /\ from \in Nat /\ last \in Nat /\ drops \in Nat /\ val \in Nat
  BY DEF ReadInv, TypeOK, KernelType, ReaderType
<1>3. SUFFICES ASSUME total < HwSize
               PROVE  \/ drops' = 0 /\ last' <= total
                      \/ drops' <= 1 /\ event = "error" /\ last' = 0
  BY <1>1 DEF DropInv
<1>4. \/ val \in from..total
      \/ event = "error" /\ val = 0
  BY <1>1, <1>3, UnlappedCount DEF ReadInv, ReadLinearizable
<1> QED BY <1>1, <1>2, <1>3, <1>4 DEF DropInv

LEMMA DropReader == ReadInv /\ DropInv /\ Reader => DropInv'
<1> SUFFICES ASSUME ReadInv, DropInv, Reader PROVE DropInv'
  OBVIOUS
<1> USE DEF kernelVars, readerVars, ghostVars
<1>1. /\ total \in Nat /\ HwSize \in Nat /\ last \in Nat
      /\ pc \in {"lock", "index", "offset", "rdpmc", "check", "syscall", "done"} => from <= total
  BY Sizes DEF ReadInv, RetryInv, TypeOK, KernelType, ReaderType
<1>2. CASE Open
  <2>1. total' = total /\ drops' = drops /\ last' = last /\ pc = "closed" /\ pc' = "idle"
    BY <1>2 DEF Open
  <2>2. event = "closed"
    BY <2>1 DEF ReadInv, RetryInv
  <2> QED BY <2>1, <2>2 DEF DropInv
<1>3. CASE Call
  BY <1>1, <1>3 DEF Call, DropInv
<1>4. CASE LoadLock \/ LoadIndex
  BY <1>4 DEF LoadLock, LoadIndex, DropInv
<1>5. CASE LoadOffset
  <2>1. val' = 0 \/ pc' # "done"
    BY <1>5 DEF LoadOffset
  <2> QED BY <1>5, <2>1 DEF LoadOffset, DropInv
<1>6. CASE Rdpmc
  <2>1. LockMatches => page.index # 0
    BY <1>6 DEF Rdpmc, ReadInv, AttemptInv
  <2>2. LockMatches => event = "active"
    BY <2>1 DEF ReadInv, KernelInv
  <2> QED BY <1>6, <2>2 DEF Rdpmc, LockMatches, DropInv
<1>7. CASE CheckLock
  BY <1>7 DEF CheckLock, DropInv
<1>8. CASE Syscall
  <2>1. event = "error" => val' = 0
    BY <1>8 DEF Syscall
  <2> QED BY <1>8, <2>1 DEF Syscall, DropInv
<1>9. CASE Return
  BY <1>9, DropReturn
<1> QED BY <1>2, <1>3, <1>4, <1>5, <1>6, <1>7, <1>8, <1>9 DEF Reader

\* As long as the register has not lapped, successive reads go backwards at most
\* once: when the kernel has taken the counter away, for good.
THEOREM OneDrop == Spec => []AtMostOneDrop
<1>1. Init => DropInv
  <2>1. HwSize \in Nat
    BY Sizes
  <2> QED BY <2>1 DEF Init, DropInv
<1>2. ReadInv /\ DropInv /\ [Next]_vars => DropInv'
  <2>1. DropInv /\ UNCHANGED vars => DropInv'
    BY DEF vars, kernelVars, readerVars, ghostVars, DropInv, LockMatches
  <2> QED BY <2>1, DropKernel, DropReader DEF Next
<1>3. ReadInv /\ DropInv => AtMostOneDrop
  BY DEF DropInv, AtMostOneDrop, ReadInv, TypeOK, ReaderType
<1> QED BY ReadInvariant, <1>1, <1>2, <1>3, PTL DEF Spec

-------------------------------------------------------------------------------
(* pmc_read on the perf page implements the linearizable counter. *)

LEMMA MapInit == Init => Abstract!Init
BY DEF Init, Abstract!Init, Phase, Modulus, Result

\* The events are the abstract counter's, and so is the loss of the register;
\* what else the kernel does is not seen.
LEMMA MapKernel == ReadInv /\ Kernel => [Abstract!Next]_(Abstract!vars)
<1> SUFFICES ASSUME ReadInv, Kernel PROVE [Abstract!Next]_(Abstract!vars)
  OBVIOUS
<1> USE DEF readerVars, ghostVars
<1>1. UNCHANGED <<rdpmcOk, pc, val, from>>
  BY DEF Kernel, Tick, Overflow, SchedOut, SchedIn
<1>2. UNCHANGED <<Phase, Modulus, Result, from>>
  BY <1>1 DEF Phase, Modulus, Result
<1>3. event \in {"active", "out"} /\ Phase # "closed"
  BY DEF Kernel, Tick, Overflow, SchedOut, SchedIn, Phase, ReadInv, RetryInv
<1>4. CASE Tick
  <2>1. total' = total + 1 /\ event' = event
    BY <1>4 DEF Tick
  <2>2. Abstract!Count
    BY <1>2, <1>3, <2>1 DEF Abstract!Count
  <2> QED BY <2>2 DEF Abstract!Next
<1>5. CASE Overflow \/ SchedOut \/ SchedIn
  <2>1. total' = total /\ event' \in {"active", "out", "error"}
    BY <1>5 DEF Overflow, SchedOut, SchedIn, Program, Unprogram
  <2>2. CASE event' = "error"
    <3>1. Abstract!Lose
      BY <1>2, <1>3, <2>1, <2>2 DEF Abstract!Lose
    <3> QED BY <3>1 DEF Abstract!Next
  <2>3. CASE event' # "error"
    BY <1>2, <1>3, <2>1, <2>3 DEF Abstract!vars
  <2> QED BY <2>2, <2>3
<1> QED BY <1>4, <1>5 DEF Kernel

\* The step that leaves the loop, or read(), is the abstract answer: by
\* ReadLinearizable' what it answers is a count of the call, or 0 when lost.
LEMMA MapAnswer ==
  ASSUME ReadInv', pc \in {"offset", "check", "syscall"}, pc' = "done",
         UNCHANGED <<kernelVars, rdpmcOk, from>>
  PROVE  Abstract!Answer
<1>1. Phase = "reading" /\ Phase' = "done" /\ Result' = val' /\ Modulus' = Modulus
  BY DEF Phase, Result, Modulus
<1>2. UNCHANGED <<event, total, from>>
  BY DEF kernelVars
<1>3. \/ \E t \in from..total : val' = t % Modulus
      \/ event = "error" /\ val' = 0
  BY <1>1, <1>2 DEF ReadInv, ReadLinearizable
<1> QED BY <1>1, <1>2, <1>3 DEF Abstract!Answer

LEMMA MapReader == ReadInv /\ ReadInv' /\ Reader => [Abstract!Next]_(Abstract!vars)
<1> SUFFICES ASSUME ReadInv, ReadInv', Reader PROVE [Abstract!Next]_(Abstract!vars)
  OBVIOUS
<1> USE DEF kernelVars, ghostVars
<1>1. CASE Open
  <2>1. pc = "closed" /\ pc' = "idle" /\ UNCHANGED <<total, from>>
    BY <1>1 DEF Open
  <2>2. Modulus' \in {HwSize, WordSize}
    BY DEF Modulus
  <2>3. Abstract!Open
    BY <2>1, <2>2 DEF Abstract!Open, Phase, Result
  <2> QED BY <2>3 DEF Abstract!Next
<1>2. CASE Call
  <2>1. /\ pc = "idle" /\ pc' \in {"lock", "syscall"} /\ from' = total
        /\ UNCHANGED <<total, event, rdpmcOk>>
    BY <1>2 DEF Call
  <2>2. Abstract!Call
    BY <2>1 DEF Abstract!Call, Phase, Result, Modulus
  <2> QED BY <2>2 DEF Abstract!Next
<1>3. CASE pc \in {"lock", "index", "offset", "rdpmc", "check", "syscall"}
  <2>1. /\ UNCHANGED <<kernelVars, rdpmcOk, from>>
        /\ pc' \in {"lock", "index", "offset", "rdpmc", "check", "done"}
        /\ pc' = "done" => pc \in {"offset", "check", "syscall"}
    BY <1>3 DEF Reader, Open, Call, LoadLock, LoadIndex, LoadOffset, Rdpmc, CheckLock,
                Syscall, Return
  <2>2. CASE pc' = "done"
    BY <2>1, <2>2, MapAnswer DEF Abstract!Next
  <2>3. CASE pc' # "done"
    <3>1. UNCHANGED <<Phase, Modulus, Result, total, event, from>>
      BY <1>3, <2>1, <2>3 DEF Phase, Modulus, Result
    <3> QED BY <3>1 DEF Abstract!vars
  <2> QED BY <2>2, <2>3
<1>4. CASE Return
  <2>1. /\ pc = "done" /\ pc' = "idle" /\ UNCHANGED <<total, event, rdpmcOk, from>>
    BY <1>4 DEF Return
  <2>2. Abstract!Return
    BY <2>1 DEF Abstract!Return, Phase, Result, Modulus
  <2> QED BY <2>2 DEF Abstract!Next
<1> QED BY <1>1, <1>2, <1>3, <1>4 DEF Reader, LoadLock, LoadIndex, LoadOffset, Rdpmc, CheckLock,
                Syscall

\* Every behaviour of pmc_read and the kernel is one of MonitoredCounter: a caller
\* can think of a read as one step that looks at a growing count.
THEOREM ReadRefines == Spec => Implements
<1>1. ReadInv /\ ReadInv' /\ [Next]_vars => [Abstract!Next]_(Abstract!vars)
  <2>1. UNCHANGED vars => UNCHANGED Abstract!vars
    BY DEF vars, kernelVars, readerVars, ghostVars, Abstract!vars, Phase, Modulus, Result
  <2> QED BY <2>1, MapKernel, MapReader DEF Next
<1> QED BY ReadInvariant, MapInit, <1>1, PTL DEF Spec, Implements, Abstract!Spec

===============================================================================
