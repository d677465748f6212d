-------------------------------- MODULE PmcRead --------------------------------
(***************************************************************************)
(* pmc_read of src/pmc.h against the kernel.  The measured thread reads    *)
(* its own counter through the mmap'ed perf page: lock, index and offset   *)
(* are loaded one at a time, then the hardware register is read, then lock *)
(* again.  Between any two loads the thread can be interrupted: the        *)
(* counter overflows and is reloaded, or the thread is descheduled and     *)
(* comes back with its event on another register - or, since the event is  *)
(* pinned and has no second choice, in the ERROR state.                    *)
(*                                                                         *)
(* The kernel runs on the thread's own CPU, so a page update is one step   *)
(* for the reader: it never sees an odd lock.  The kernel and the register *)
(* are external code, modelled from what pmc_read relies on.               *)
(***************************************************************************)
EXTENDS Integers

CONSTANTS
  HwSize,      \* 2^pmc_width: the register counts modulo HwSize
  WordSize,    \* 2^64: offset and count are uint64_t
  Regs,        \* values of page->index that name a register (register + 1)
  MaxPeriod,   \* the kernel reloads a register with -left, left <= MaxPeriod
  MaxEvents,   \* bound: events counted in a behaviour
  MaxUpdates   \* bound: kernel updates of the page in a behaviour

ASSUME SizesAssumption ==
  /\ HwSize \in Nat /\ MaxPeriod \in Nat \ {0} /\ MaxPeriod < HwSize
  /\ WordSize \in Nat \ {0} /\ WordSize % HwSize = 0

ASSUME RegsAssumption == Regs \subseteq Nat \ {0}

ASSUME BoundsAssumption == MaxEvents \in Nat /\ MaxUpdates \in Nat

VARIABLES
  \* kernel and hardware
  event,      \* "closed", "active", "out" (thread descheduled) or "error"
  page,       \* the perf_event_mmap_page: lock, index, offset
  slot,       \* the register the event runs on
  hw,         \* the value of that register
  count,      \* the kernel's accumulated event count
  prev,       \* the register value already accounted for (signed)
  total,      \* ghost: the events that really happened while counting
  \* struct PmcCounter and the locals of pmc_read
  rdpmcOk, pc, seq, idx, off, val,
  \* ghosts about the current read and the previous one
  from,       \* total when the read was called
  lockFrom,   \* page.lock when the read was called
  retries,    \* times the do-while loop went round again
  last,       \* the value the previous read returned
  drops       \* how often a read returned less than the one before

kernelVars == <<event, page, slot, hw, count, prev, total>>
readerVars == <<rdpmcOk, pc, seq, idx, off, val>>
ghostVars  == <<from, lockFrom, retries, last, drops>>
vars == <<kernelVars, readerVars, ghostVars>>

Init ==
  /\ event = "closed"
  /\ page = [lock |-> 0, index |-> 0, offset |-> 0]
  /\ slot = 0 /\ hw = 0 /\ count = 0 /\ prev = 0 /\ total = 0
  /\ rdpmcOk = FALSE
  /\ pc = "closed"
  /\ seq = 0 /\ idx = 0 /\ off = 0 /\ val = 0
  /\ from = 0 /\ lockFrom = 0 /\ retries = 0 /\ last = 0 /\ drops = 0

-------------------------------------------------------------------------------
(* The kernel (external). *)

\* Events in the register that count does not hold yet.
Pending == (hw - prev) % HwSize

\* perf_event_update_userpage: lock is bumped before and after.
UpdatePage(index, offset) ==
  page' = [lock |-> page.lock + 2, index |-> index, offset |-> offset % WordSize]

\* The event runs on register r, loaded with -left; c events are accounted for.
Program(r, left, c) ==
  /\ event' = "active"
  /\ slot' = r
  /\ hw' = HwSize - left
  /\ prev' = -left
  /\ count' = c
  /\ UpdatePage(r, c + left)

\* The event runs nowhere.
Unprogram(state, c) ==
  /\ event' = state
  /\ slot' = 0 /\ hw' = 0 /\ prev' = 0
  /\ count' = c
  /\ UpdatePage(0, c)

MayUpdate == page.lock < 2 * MaxUpdates

\* The thread executes something the event counts.  The overflow interrupt is
\* taken long before the register laps itself.
Tick ==
  /\ event = "active"
  /\ total < MaxEvents
  /\ Pending < HwSize - 1
  /\ hw' = (hw + 1) % HwSize
  /\ total' = total + 1
  /\ UNCHANGED <<event, page, slot, count, prev, readerVars, ghostVars>>

\* The register has passed zero: account for it and reload it.
Overflow ==
  /\ event = "active" /\ MayUpdate
  /\ Pending >= -prev
  /\ \E left \in 1..MaxPeriod : Program(slot, left, count + Pending)
  /\ UNCHANGED <<total, readerVars, ghostVars>>

SchedOut ==
  /\ event = "active" /\ MayUpdate
  /\ Unprogram("out", count + Pending)
  /\ UNCHANGED <<total, readerVars, ghostVars>>

\* The thread runs again; its pinned event gets some register or none at all.
SchedIn ==
  /\ event = "out"
  /\ \/ \E r \in Regs, left \in 1..MaxPeriod : Program(r, left, count)
     \/ Unprogram("error", count)
  /\ UNCHANGED <<total, readerVars, ghostVars>>

\* What rdpmc(i - 1) yields: the event's register if it still is there,
\* otherwise whatever the register's present user left in it.
Register(i) == IF event = "active" /\ i = slot THEN {hw} ELSE 0..(HwSize - 1)

-------------------------------------------------------------------------------
(* pmc.h. *)

Running == event \notin {"closed", "out"}

\* pmc_open, with perf_event_open and mmap succeeding.  The event may fail to
\* be scheduled, and the kernel may not offer user-space rdpmc.
Open ==
  /\ pc = "closed"
  /\ \/ \E r \in Regs, left \in 1..MaxPeriod : Program(r, left, 0)
     \/ Unprogram("error", 0)
  /\ \E cap_user_rdpmc \in BOOLEAN :
        rdpmcOk' = (cap_user_rdpmc /\ page'.index # 0)
  /\ pc' = "idle"
  /\ UNCHANGED <<total, seq, idx, off, val, ghostVars>>

Call ==
  /\ pc = "idle" /\ Running
  /\ pc' = IF rdpmcOk THEN "lock" ELSE "syscall"
  /\ from' = total /\ lockFrom' = page.lock /\ retries' = 0
  /\ UNCHANGED <<kernelVars, rdpmcOk, seq, idx, off, val, last, drops>>

\* Mutation: a retry keeps the sequence number of the first attempt.
LoadLockOnce ==
  /\ pc = "lock" /\ Running
  /\ seq' = IF retries = 0 THEN page.lock ELSE seq
  /\ pc' = "index"
  /\ UNCHANGED <<kernelVars, rdpmcOk, idx, off, val, ghostVars>>

LoadLock ==
  /\ pc = "lock" /\ Running
  /\ seq' = page.lock
  /\ pc' = "index"
  /\ UNCHANGED <<kernelVars, rdpmcOk, idx, off, val, ghostVars>>

LoadIndex ==
  /\ pc = "index" /\ Running
  /\ idx' = page.index
  /\ pc' = "offset"
  /\ UNCHANGED <<kernelVars, rdpmcOk, seq, off, val, ghostVars>>

\* index 0 leaves the loop with count = 0, past the lock check.
LoadOffset ==
  /\ pc = "offset" /\ Running
  /\ off' = page.offset
  /\ \/ idx = 0 /\ val' = 0 /\ pc' = "done"
     \/ idx # 0 /\ val' = val /\ pc' = "rdpmc"
  /\ UNCHANGED <<kernelVars, rdpmcOk, seq, idx, ghostVars>>

\* Mutations: the sum is not masked; the offset is left out.
CombineUnmasked(offset, pmc) == (offset + pmc) % WordSize
CombineNoOffset(offset, pmc) == pmc % HwSize

\* count = offset + pmc, masked to pmc_width bits.
Combine(offset, pmc) == ((offset + pmc) % WordSize) % HwSize

Rdpmc ==
  /\ pc = "rdpmc" /\ Running
  /\ \E pmc \in Register(idx) : val' = Combine(off, pmc)
  /\ pc' = "check"
  /\ UNCHANGED <<kernelVars, rdpmcOk, seq, idx, off, ghostVars>>

\* Mutation: the lock is never compared.
LockIgnored == TRUE

LockMatches == page.lock = seq

\* Keeps the ghost finite: no read is retried MaxUpdates + 1 times.
Saturate(n) == IF n > MaxUpdates THEN MaxUpdates + 1 ELSE n

CheckLock ==
  /\ pc = "check" /\ Running
  /\ \/ LockMatches /\ pc' = "done" /\ UNCHANGED retries
     \/ ~LockMatches /\ pc' = "lock" /\ retries' = Saturate(retries + 1)
  /\ UNCHANGED <<kernelVars, rdpmcOk, seq, idx, off, val, from, lockFrom, last, drops>>

\* read(): the kernel sums up; an event in the ERROR state reads as end of
\* file, which pmc_read turns into 0.
Syscall ==
  /\ pc = "syscall" /\ Running
  /\ val' = IF event = "error" THEN 0 ELSE (count + Pending) % WordSize
  /\ pc' = "done"
  /\ UNCHANGED <<kernelVars, rdpmcOk, seq, idx, off, ghostVars>>

Return ==
  /\ pc = "done" /\ Running
  /\ pc' = "idle"
  /\ last' = val
  /\ drops' = IF val < last THEN drops + 1 ELSE drops
  /\ val' = 0
  /\ UNCHANGED <<kernelVars, rdpmcOk, seq, idx, off, from, lockFrom, retries>>

-------------------------------------------------------------------------------

Kernel == Tick \/ Overflow \/ SchedOut \/ SchedIn
Reader == \/ Open \/ Call \/ LoadLock \/ LoadIndex \/ LoadOffset \/ Rdpmc
          \/ CheckLock \/ Syscall \/ Return

Next == Kernel \/ Reader

Spec == Init /\ [][Next]_vars

\* The thread keeps executing when it is scheduled, and is scheduled again.
FairSpec == Spec /\ WF_vars(Reader) /\ WF_vars(SchedIn)

-------------------------------------------------------------------------------

KernelType ==
  /\ event \in {"closed", "active", "out", "error"}
  /\ page \in [lock : Nat, index : Regs \cup {0}, offset : 0..(WordSize - 1)]
  /\ slot \in Regs \cup {0}
  /\ hw \in 0..(HwSize - 1)
  /\ count \in Nat /\ total \in Nat
  /\ prev \in -MaxPeriod..0

ReaderType ==
  /\ rdpmcOk \in BOOLEAN
  /\ pc \in {"closed", "idle", "lock", "index", "offset", "rdpmc", "check",
             "syscall", "done"}
  /\ seq \in Nat /\ lockFrom \in Nat /\ retries \in Nat
  /\ idx \in Regs \cup {0}
  /\ off \in 0..(WordSize - 1)
  /\ val \in 0..(WordSize - 1) /\ last \in 0..(WordSize - 1)
  /\ rdpmcOk => val < HwSize /\ last < HwSize
  /\ from \in Nat /\ drops \in Nat

TypeOK == KernelType /\ ReaderType

Modulus == IF rdpmcOk THEN HwSize ELSE WordSize

\* The count pmc_read returns was the true count, modulo the width of the path
\* taken, at an instant between call and return - whatever was rescheduled or
\* reloaded meanwhile.  Only a counter in the ERROR state answers 0 instead.
ReadLinearizable ==
  pc = "done" => \/ \E t \in from..total : val = t % Modulus
                 \/ event = "error" /\ val = 0

\* The do-while loop goes round again only for a page update that happened
\* during this read, so that the retries of a read are bounded by the kernel's
\* activity and not by the reader's own.
RetriesHaveCause ==
  pc \notin {"closed", "idle"} => 2 * retries <= page.lock - lockFrom

\* The register, the page and count together hold every event, whenever the
\* event is on a register; otherwise count alone does.
KernelInv ==
  /\ page.lock % 2 = 0
  /\ event = "active" => /\ slot \in Regs /\ page.index = slot
                         /\ page.offset = (count - prev) % WordSize
                         /\ total = count + Pending
  /\ event # "active" => page.index = 0 /\ total = count
  /\ event = "closed" => total = 0

\* What the loads of an attempt are worth, as long as the lock still has the
\* value the attempt started from.
AttemptInv ==
  /\ pc = "offset" => /\ idx = 0 => event = "error"
                      /\ LockMatches => idx = page.index
  /\ pc = "rdpmc" => /\ idx # 0
                     /\ LockMatches => idx = page.index /\ off = page.offset
  /\ pc = "check" /\ LockMatches => \E t \in from..total : val = t % HwSize

\* The bookkeeping of calls, attempts and retries.
RetryInv ==
  /\ pc = "closed" <=> event = "closed"
  /\ pc = "closed" => val = 0 /\ last = 0
  /\ pc \in {"lock", "index", "offset", "rdpmc", "check"} => rdpmcOk
  /\ pc = "syscall" => ~rdpmcOk
  /\ from <= total /\ lockFrom <= page.lock
  /\ pc = "lock" => 2 * retries <= page.lock - lockFrom
  /\ pc \in {"index", "offset", "rdpmc", "check"} =>
       /\ seq <= page.lock /\ seq % 2 = 0
       /\ 2 * retries <= seq - lockFrom

\* The inductive invariant behind ReadLinearizable and RetriesHaveCause.
ReadInv == TypeOK /\ KernelInv /\ RetryInv /\ AttemptInv
           /\ ReadLinearizable /\ RetriesHaveCause

\* As long as the register has not lapped, a caller that subtracts successive
\* reads can see the count go backwards at most once, when the kernel takes the
\* counter away: at most one sample of a run holds a wrapped difference.
AtMostOneDrop == total < HwSize => drops <= 1

\* The inductive invariant behind it: only a counter on a register passes the
\* check of the lock, so that one the kernel has taken away answers 0 ever
\* after, and until then no read returns less than the count at its call.
DropInv ==
  /\ pc = "check" /\ LockMatches => event = "active"
  /\ total < HwSize =>
       \/ /\ drops = 0 /\ last <= total
          /\ pc \notin {"closed", "idle"} => last <= from
       \/ /\ drops <= 1 /\ event = "error" /\ last = 0
          /\ pc = "done" => val = 0

\* A read the thread has called returns, once the kernel stops updating the
\* page (MaxUpdates).
ReadTerminates == (pc \notin {"closed", "idle"}) ~> (pc = "idle")

\* The refinement mapping: an attempt in the loop is the abstract "reading", and
\* the answer is there when the loop is left.
Phase == IF pc \in {"closed", "idle", "done"} THEN pc ELSE "reading"
Result == IF pc = "done" THEN val ELSE 0

Abstract == INSTANCE MonitoredCounter WITH
  phase <- Phase, modulus <- Modulus, lost <- event = "error", val <- Result

\* pmc_read on the perf page implements the linearizable counter.
Implements == Abstract!Spec

===============================================================================
