------------------------------- MODULE MCAgent -------------------------------
(***************************************************************************)
(* Parts of an Agent that work for themselves, one per behaviour: its       *)
(* ledger (AgentWAL), under power failures only ("power") or under kills    *)
(* and power failures ("mixed"); its executable (AgentUpgrade); the windows *)
(* and facts of one rule that spends one lease in both directions           *)
(* ("duplex", AgentStore), or of a rule with windows beside one charged     *)
(* payload by payload ("charge"); the wait for credits (MeterWait); the     *)
(* managed services (Services).                                             *)
(***************************************************************************)
EXTENDS AgentWAL, MeterWait, Services

CONSTANTS MaxCrashes, r1, r2, p, q, NoWindow

VARIABLES
  regime,
  ops, issued, host, undo, sup, work, crashes, proven, installs,
  d, live, frozen, refills, refilling, job, staged, life, age, sent, kills

KillAndPower == {"kill", "power"}

Power  == INSTANCE AgentWAL WITH CrashKinds <- {"power"}

\* One operation whose claim is issued again and again, on a node that stops; and
\* one operation after another, on a node that does not.
Upgrade  == INSTANCE AgentUpgrade WITH MaxOps <- 1, MaxClaims <- 3
Upgrades == INSTANCE AgentUpgrade WITH MaxOps <- 2, MaxClaims <- 2, MaxCrashes <- 0

Duplex == INSTANCE AgentStore WITH
            mode <- life, crashes <- kills,
            Rules <- {r1}, Leases <- {p}, Bytes <- [l \in {p} |-> 3],
            Dirs <- {"up", "down"}, Windowed <- {r1}, Adaptive <- {r1},
            Sizes <- {2}, RuleCredits <- 2, AccountCredits <- 2, MaxPending <- 2,
            Payloads <- {1, 2}, MaxCharges <- 0, Ending <- {},
            Configs <- {[r \in {r1} |-> <<>>], [r \in {r1} |-> <<p>>]}

Beside == INSTANCE AgentStore WITH
            mode <- life, crashes <- kills,
            Rules <- {r1, r2}, Leases <- {p, q}, Bytes <- [l \in {p, q} |-> IF l = p THEN 1 ELSE 2],
            Dirs <- {"up"}, Windowed <- {r1}, Adaptive <- {},
            Sizes <- {1}, RuleCredits <- 1, AccountCredits <- 1, MaxPending <- 2,
            Payloads <- {1}, MaxCharges <- 2, Ending <- {},
            Configs <- {[r \in {r1, r2} |-> <<>>], [r \in {r1, r2} |-> IF r = r1 THEN <<p>> ELSE <<q>>]}

upgradeVars == <<ops, issued, host, undo, sup, work, crashes, proven, installs>>
storesVars == <<d, live, frozen, refills, refilling, job, staged, life, age, sent, kills>>
agentVars == <<regime, vars, upgradeVars, storesVars, meterVars, serviceVars>>

AgentInit ==
  /\ regime \in {"power", "mixed", "upgrade", "upgrades", "duplex", "charge", "meter", "services"}
  /\ IF regime = "charge" THEN Beside!Init ELSE Duplex!Init
  /\ IF regime = "upgrades" THEN Upgrades!Init ELSE Upgrade!Init
  /\ Init /\ MeterInit /\ ServicesInit

AgentNext ==
  /\ UNCHANGED regime
  /\ \/ regime = "power" /\ Power!Next /\ UNCHANGED <<upgradeVars, storesVars, meterVars, serviceVars>>
     \/ regime = "mixed" /\ Next /\ UNCHANGED <<upgradeVars, storesVars, meterVars, serviceVars>>
     \/ regime = "upgrade" /\ Upgrade!Next /\ UNCHANGED <<vars, storesVars, meterVars, serviceVars>>
     \/ regime = "upgrades" /\ Upgrades!Next /\ UNCHANGED <<vars, storesVars, meterVars, serviceVars>>
     \/ regime = "duplex" /\ Duplex!Next /\ UNCHANGED <<vars, upgradeVars, meterVars, serviceVars>>
     \/ regime = "charge" /\ Beside!Next /\ UNCHANGED <<vars, upgradeVars, meterVars, serviceVars>>
     \/ regime = "meter" /\ MeterNext /\ UNCHANGED <<vars, upgradeVars, storesVars, serviceVars>>
     \/ regime = "services" /\ ServicesNext /\ UNCHANGED <<vars, upgradeVars, storesVars, meterVars>>

AgentSpec == AgentInit /\ [][AgentNext]_agentVars

\* When only power failures interrupt an append, a checkpoint or a rotation, the
\* next start accepts the files, and what one incarnation of the store had applied
\* is still applied in the next one.
PowerSafe ==
  /\ [](regime = "power" => RestartAccepted)
  /\ [][regime = "power" => KeepsApplied]_vars

\* Every step of a replacement finds the backup and the journal it works with;
\* without a journal the stored outcome tells the truth about the executable and no
\* untried one is left in place; no operation replaces the executable twice.
UpgradeTruthful ==
  /\ regime = "upgrade" =>
       Upgrade!TypeOK /\ Upgrade!OutcomeTrue /\ Upgrade!UntriedNotKept /\ Upgrade!InstalledOnce
  /\ regime = "upgrades" =>
       Upgrades!TypeOK /\ Upgrades!OutcomeTrue /\ Upgrades!UntriedNotKept /\ Upgrades!InstalledOnce

\* When upload and download compete for one lease, no batch of the writer is one
\* its replay rejects, and facts never fill the spool beyond its bound, the place
\* of the fact that recovery may have to write for each open window included.
DuplexSpoolSound == regime = "duplex" => Duplex!LogStaysReplayable /\ Duplex!SpoolBounded

\* When windows and single charges share the log, no batch of the writer is one its
\* replay rejects, and every byte that was let through is billed once, across kills
\* (process, commitCreditEventsLocked, openDurable).
ChargesExact == regime = "charge" => Beside!LogStaysReplayable /\ Beside!BilledExactly
=============================================================================
