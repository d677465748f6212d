--------------------------------- MODULE MCRing ---------------------------------
(***************************************************************************)
(* Rings of 0 to 5 slots, with every outcome of the shuffle.  One call     *)
(* makes 4 loads: less than a lap of the largest ring, exactly one of the  *)
(* next, two of another, and a lap and a bit of a third.                   *)
(***************************************************************************)
EXTENDS Ring

MCCounts == 0..5

===============================================================================
