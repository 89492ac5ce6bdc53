---------------------------- MODULE MCPumpEngine ----------------------------
(***************************************************************************)
(* Instance of PumpEngine for TLC: one runnable that is posted to both     *)
(* engines, one that is posted to the first only and always replaced.      *)
(***************************************************************************)
EXTENDS PumpEngine, TLC

CONSTANTS e1, e2, shared, single

SharedAndSingle ==
    [runnable : {shared}, engine : {e1, e2}, replace : BOOLEAN]
    \cup [runnable : {single}, engine : {e1}, replace : {TRUE}]

Alike == Permutations(Handlers) \cup Permutations(Callers)
=============================================================================
