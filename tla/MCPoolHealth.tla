---------------------------- MODULE MCPoolHealth ----------------------------
(* One node: the reconcilers of two pools share nothing but their queue. *)
EXTENDS PoolHealth
=============================================================================
