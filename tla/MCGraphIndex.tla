---------------------------- MODULE MCGraphIndex ----------------------------
(* GraphIndex with two entities on a lane each, or with one entity. *)
EXTENDS GraphIndex, TLC

CONSTANTS k1, k2, l1, l2

OwnLanes == k1 :> l1 @@ k2 :> l2
SingleLane == k1 :> l1

\* The entities are interchangeable together with their lanes.
SwapLanes ==
  {f \in Permutations({k1, k2, l1, l2}) :
     \A k \in {k1, k2} : f[k] \in {k1, k2} /\ f[OwnLanes[k]] = OwnLanes[f[k]]}
=============================================================================
