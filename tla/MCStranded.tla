------------------------------ MODULE MCStranded ------------------------------
(* GatedDag with a unit and a unit that waits for it.                        *)
EXTENDS GatedDag, TLC

Chain == 1 :> {} @@ 2 :> {1}
=============================================================================
