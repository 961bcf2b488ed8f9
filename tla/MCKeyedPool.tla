----------------------------- MODULE MCKeyedPool -----------------------------
(* Small instances of KeyedPool: two callers of one key and one of another  *)
(* share a lane; a second lane stays without work.                          *)
EXTENDS KeyedPool

CONSTANTS c1, c2, c3, j, k, h, x, y

MCKeyOf == [c \in Callers |-> IF c \in {c1, c2} THEN j ELSE k]
MClaneFor == [key \in Keys |-> IF key = h THEN y ELSE x]
=============================================================================
