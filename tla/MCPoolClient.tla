---------------------------- MODULE MCPoolClient ----------------------------
(* Instance of PoolClient for TLC: the pool's size comes from the cfg. *)
EXTENDS PoolClient
=============================================================================
