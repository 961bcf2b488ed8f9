----------------------------- MODULE MCAgentLoop -----------------------------
(* A small instance of AgentLoop: two processes, interchangeable.           *)
EXTENDS AgentLoop, TLC

SwapProcs == Permutations(Procs)
=============================================================================
