------------------------------- MODULE MCPmcRead -------------------------------
(***************************************************************************)
(* Small instances of PmcRead.  HwSize and WordSize stand for 2^48 and     *)
(* 2^64: what matters is that one divides the other and that a behaviour   *)
(* is long enough for the register to overflow and for the count to pass   *)
(* HwSize.                                                                 *)
(***************************************************************************)
EXTENDS PmcRead

===============================================================================
