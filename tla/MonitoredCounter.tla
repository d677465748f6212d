--------------------------- MODULE MonitoredCounter ---------------------------
(***************************************************************************)
(* What a self-monitoring thread is promised by one counter of pmc.h: an   *)
(* event count that only grows, and reads of it that are linearizable.  A  *)
(* read returns, modulo the counter's modulus, the count at some instant   *)
(* between its call and its return; a counter the kernel has taken away    *)
(* (a pinned event in the ERROR state) answers 0 instead, for good.        *)
(* PmcRead implements this specification (PmcRead!Implements).             *)
(***************************************************************************)
EXTENDS Integers

CONSTANTS HwSize,     \* 2^pmc_width: the modulus of the rdpmc path
          WordSize    \* 2^64: the modulus of the read() path

VARIABLES
  phase,      \* "closed", "idle", "reading" or "done"
  modulus,    \* how the counter is read, fixed when it is opened
  total,      \* events counted so far
  lost,       \* the kernel no longer runs the counter
  from,       \* the count when the current read was called
  val         \* what the read returned, 0 outside "done"

vars == <<phase, modulus, total, lost, from, val>>

Init ==
  /\ phase = "closed"
  /\ modulus = WordSize
  /\ total = 0 /\ from = 0 /\ val = 0
  /\ lost = FALSE

Open ==
  /\ phase = "closed"
  /\ phase' = "idle"
  /\ modulus' \in {HwSize, WordSize}
  /\ lost' \in BOOLEAN
  /\ UNCHANGED <<total, from, val>>

Count ==
  /\ phase # "closed" /\ ~lost
  /\ total' = total + 1
  /\ UNCHANGED <<phase, modulus, lost, from, val>>

Lose ==
  /\ phase # "closed"
  /\ lost' = TRUE
  /\ UNCHANGED <<phase, modulus, total, from, val>>

Call ==
  /\ phase = "idle"
  /\ phase' = "reading"
  /\ from' = total
  /\ UNCHANGED <<modulus, total, lost, val>>

Answer ==
  /\ phase = "reading"
  /\ phase' = "done"
  /\ \/ \E t \in from..total : val' = t % modulus
     \/ lost /\ val' = 0
  /\ UNCHANGED <<modulus, total, lost, from>>

Return ==
  /\ phase = "done"
  /\ phase' = "idle"
  /\ val' = 0
  /\ UNCHANGED <<modulus, total, lost, from>>

Next == Open \/ Count \/ Lose \/ Call \/ Answer \/ Return

Spec == Init /\ [][Next]_vars

===============================================================================
