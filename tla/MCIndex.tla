------------------------------- MODULE MCIndex -------------------------------
(***************************************************************************)
(* GraphIndex in two configurations, one of which is chosen at the start:  *)
(* with the coalescer in front of a shared lane (the constants of the      *)
(* configuration file), and with a lane per entity, a status reader,       *)
(* restarts and no coalescer (Readiness).  Both run on the variables of    *)
(* GraphIndex; the first one's constants include the second one's, so the  *)
(* properties of GraphIndex are the same formulas in both.                 *)
(***************************************************************************)
EXTENDS MCGraphIndex

CONSTANTS l3

VARIABLE focus

Readiness == INSTANCE GraphIndex WITH
  LaneOf <- OwnLanes, Coalesce <- FALSE, Readers <- {"query"},
  Kinds <- {"put", "del", "mismatch"}, MaxRev <- 2, MaxRestarts <- 1

SharedLane == [k \in Keys |-> l3]

IndexInit ==
  \/ focus = "pipeline" /\ Init
  \/ focus = "readiness" /\ Readiness!Init

IndexNext ==
  /\ UNCHANGED focus
  /\ \/ focus = "pipeline" /\ Next
     \/ focus = "readiness" /\ Readiness!Next

IndexSpec == IndexInit /\ [][IndexNext]_<<focus, vars>>
=============================================================================
