--------------------------- MODULE MCPumpWatchDog ---------------------------
(***************************************************************************)
(* Instance of PumpWatchDog for TLC.  With ticks of 5 s, the intervals of  *)
(* the cfg are those  of the code: 5000 ms and 50000 ms.                   *)
(***************************************************************************)
EXTENDS PumpWatchDog
=============================================================================
