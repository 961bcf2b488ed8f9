---------------------------- MODULE MCEntityStore ----------------------------
(* EntityStore with two or three concurrent requests.                       *)
EXTENDS EntityStore, TLC

CONSTANTS p1, p2, p3

\* The serving goroutines are interchangeable.
SwapProcs == Permutations(Procs)
=============================================================================
