---------------------------- MODULE MCAgentStore ----------------------------
(* A small Agent: a rule with windows beside two rules without.             *)
EXTENDS AgentStore, TLC

CONSTANTS r1, r2, r3, p, q, v

OneRule == {r1}
ThreeRules == {r1, r2, r3}
OneLease == {p}
TwoLeases == {p, q}
Two == [l \in Leases |-> 2]
ThreeLeases == {p, q, v}
OneWay == {"up"}

\* After an upgrade: a TCP rule beside two UDP rules stored by the older panel.
Mixed == {Empty, [r \in Rules |-> IF r = r1 THEN <<p>> ELSE IF r = r2 THEN <<q>> ELSE <<v>>]}
=============================================================================
