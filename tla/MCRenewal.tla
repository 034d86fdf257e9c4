------------------------------ MODULE MCRenewal ------------------------------
(***************************************************************************)
(* The state of an Agent that outlives a configuration, one part per        *)
(* behaviour: the store of a rule whose primary and standby leases follow   *)
(* each other ("renewal", AgentStore), and what is known of the targets of  *)
(* a rule ("failover", Failover).                                           *)
(***************************************************************************)
EXTENDS AgentStore, Failover

CONSTANTS r1, p, q

VARIABLE regime

OneRule == {r1}
OneLease == {p}
TwoLeases == {p, q}
Two == [l \in Leases |-> 2]
OneWay == {"up"}
MCWeight == <<2, 1>>  \* two candidates, one preferred

\* The panel issues a primary, adds a standby, promotes it and drops the rule.
Renewing == {Empty, [r \in Rules |-> <<p>>], [r \in Rules |-> <<p, q>>], [r \in Rules |-> <<q>>]}

RenewalInit == regime \in {"renewal", "failover"} /\ Init /\ FailoverInit

RenewalNext ==
  \/ regime = "renewal" /\ Next /\ UNCHANGED <<regime, failoverVars>>
  \/ regime = "failover" /\ FailoverNext /\ UNCHANGED <<regime, vars>>

RenewalSpec == RenewalInit /\ [][RenewalNext]_<<regime, vars, failoverVars>>
=============================================================================
