----------------------------- MODULE MCRtkTasks -----------------------------
(***************************************************************************)
(* Instance of RtkTasks for TLC: the main thread and three tasks, any of   *)
(* which may create tasks and halt them, on a table of two slots.          *)
(***************************************************************************)
EXTENDS RtkTasks
=============================================================================
