---------------------------- MODULE MCPoolState ----------------------------
(* The State with one pool of two or three units, two volumes, two reservations
   and three goroutines.  v1 was provisioned for the reservation r1. *)
EXTENDS PoolState, TLC

CONSTANTS n1, v1, v2, r1, r2, t1, t2, t3

MCResvSize == (r1 :> 1) @@ (r2 :> 2)
MCResvOf == (v1 :> r1) @@ (v2 :> None)
MCSymmetry == Permutations(Threads)

=============================================================================
