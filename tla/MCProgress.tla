----------------------------- MODULE MCProgress -----------------------------
(***************************************************************************)
(* What must happen in the end, in three parts that work on their own, one  *)
(* per behaviour: the leases of a rule (Metering), the replacement of an    *)
(* Agent's executable (AgentUpgrade) and the alerts about nodes             *)
(* (NodeAlerts).                                                            *)
(***************************************************************************)
EXTENDS Metering, TLC

VARIABLES
  regime,
  ops, issued, host, undo, sup, work, crashes, proven, installs,
  now, seen, policy, row, monitor, scan, told, turns

TwoWorkers == {"usage", "config"}
Small == [e \in Ents |-> 3]

Upgrade == INSTANCE AgentUpgrade WITH MaxOps <- 1, MaxClaims <- 2, MaxCrashes <- 1
Alerts  == INSTANCE NodeAlerts WITH
             Nodes <- 1..2, Page <- 1, MaxTime <- 3, MaxTurns <- 1,
             Default <- [enabled |-> TRUE, offline |-> 1, recovery |-> 1],
             Policies <- [enabled : BOOLEAN, offline : {1}, recovery : {1}]

upgradeVars  == <<ops, issued, host, undo, sup, work, crashes, proven, installs>>
nodeVars     == <<now, seen, policy, row, monitor, scan, told, turns>>
progressVars == <<regime, vars, upgradeVars, nodeVars>>

ProgressInit == regime \in {"leases", "upgrade", "alerts"} /\ Init /\ Upgrade!Init /\ Alerts!AlertsInit

LeaseFrame   == regime = "leases" /\ UNCHANGED <<regime, upgradeVars, nodeVars>>
UpgradeFrame == regime = "upgrade" /\ UNCHANGED <<regime, vars, nodeVars>>
AlertFrame   == regime = "alerts" /\ UNCHANGED <<regime, vars, upgradeVars>>

ProgressNext ==
  \/ LeaseFrame /\ Next
  \/ UpgradeFrame /\ Upgrade!Next
  \/ AlertFrame /\ Alerts!AlertsNext

\* The fairness of each part, over the variables of all.
ProgressFairness ==
  /\ WF_progressVars(\/ LeaseFrame /\ (SendUsage \/ \E l \in Issued(db) : SendRetire(l))
                     \/ UpgradeFrame /\ Upgrade!Supervisor
                     \/ AlertFrame /\ Alerts!RunOnce)
  /\ WF_progressVars(LeaseFrame /\ SendConfig)
  /\ \A w \in Workers : /\ WF_progressVars(LeaseFrame /\ Serve(w))
                        /\ WF_progressVars(LeaseFrame /\ Receive(w))
  /\ <>[][\A w \in Workers : GiveUp(w) => Receive(w)]_vars

ProgressSpec == ProgressInit /\ [][ProgressNext]_progressVars /\ ProgressFairness

\* A stopped lease is settled and given back in the end, and the rule can spend
\* again and again unless it is off or nothing is left (applyLeaseConfig, flush,
\* retire, RetireLease), although requests are lost, refused and handled late.
LeasesReturn == regime = "leases" => GivenBack /\ Replaced

\* A replacement that began ends: the journal goes in the end, the candidate kept
\* or the previous executable back (Supervise, rollback, finish).
ReplacementEnds == Upgrade!ReplacementEnds

\* A node that stays overdue is reported, whatever page it is on (RunOnce).
LossIsTold == Alerts!LossIsTold
=============================================================================
