-------------------------- MODULE MCPodScheduling --------------------------
(* A pod with two claims, two nodes that each have room for both, and another
   volume that may take half of a node at any time. *)
EXTENDS PodScheduling, TLC

CONSTANTS n1, n2, p1, a, b

MCNodes == {n1, n2}
MCPods == {p1}
MCClaimsOf == p1 :> <<a, b>>
MCSize == a :> 1 @@ b :> 1
Symmetry == Permutations(MCNodes)
=============================================================================
