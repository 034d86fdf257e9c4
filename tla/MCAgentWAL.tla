----------------------------- MODULE MCAgentWAL -----------------------------
(* The ledger on its own, killed and deprived of power in any order. *)
EXTENDS AgentWAL

KillAndPower == {"kill", "power"}
=============================================================================
