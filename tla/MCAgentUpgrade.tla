--------------------------- MODULE MCAgentUpgrade ---------------------------
(* An upgrade on its own, for the question whether its outcome is reported. *)
EXTENDS AgentUpgrade
=============================================================================
