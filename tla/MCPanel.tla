------------------------------- MODULE MCPanel -------------------------------
(***************************************************************************)
(* Parts of the panel whose operations interleave on rows of their own, one *)
(* per behaviour: the shop (Shop), the ports of a node and the Agent that   *)
(* listens on them (PortBook), the reminders about entitlements             *)
(* (EntitlementAlerts), the alerts about nodes (NodeAlerts) and the history *)
(* of the probes (ProbeHistory). The shop sells for small amounts: prices   *)
(* that do not divide the quota, a commission that rounds, a second version *)
(* of the plan that is cheaper and without limit.                           *)
(***************************************************************************)
EXTENDS Shop, PortBook, TLC

CONSTANT o1

VARIABLES
  regime,
  clock, bought, disabled, ent, marks, heard, from, candidates, failed,
  now, seen, policy, row, monitor, scan, told, turns,
  minute, cutoff, pending, minutes, hours, flush, accepted, written, troubles

AmountDef == (o1 :> 4)
TermsDef == <<[price |-> 3, quota |-> 2], [price |-> 1, quota |-> 0]>>
AddonDef == [price |-> 1, quota |-> 1]
CreditsDef == {-1}
SizesDef == {1, 2}

Policy(enabled, offline) == [enabled |-> enabled, offline |-> offline, recovery |-> 1]

\* The shop with leases that reserve quota, and fewer operations otherwise.
Leased    == INSTANCE Shop WITH Chunk <- 2, MaxReserve <- 2, MaxExtras <- 1
Reminders == INSTANCE EntitlementAlerts WITH
               Ents <- 1..2, Ends <- <<2, 4>>, Quotas <- {0, 2}, Expiry <- 1, Percent <- 50, Page <- 1,
               MaxClock <- 4, MaxUsed <- 2, MaxQuota <- 4, MaxFailed <- 1
Alerts    == INSTANCE NodeAlerts WITH
               Nodes <- 1..2, Page <- 1, MaxTime <- 3, MaxTurns <- 1, Default <- Policy(TRUE, 1),
               Policies <- {Policy(TRUE, 1), Policy(FALSE, 1), Policy(TRUE, 2)}
History   == INSTANCE ProbeHistory WITH
               Nodes <- {1}, Instants <- 1..2, Hour <- 2, MaxBuckets <- 2, MaxSamples <- 2, Batch <- 1,
               Retention <- 1, HourRetention <- 2, MaxMinute <- 3, MaxTroubles <- 2,
               stored <- minutes

entVars     == <<clock, bought, disabled, ent, marks, heard, from, candidates, failed>>
nodeVars    == <<now, seen, policy, row, monitor, scan, told, turns>>
historyVars == <<minute, cutoff, pending, minutes, hours, flush, accepted, written, troubles>>
allVars     == <<regime, shopVars, portsVars, entVars, nodeVars, historyVars>>

PanelInit ==
  /\ regime \in {"shop", "leased", "ports", "reminders", "alerts", "history"}
  /\ CASE regime = "shop" -> ShopInit
       [] regime = "leased" -> Leased!ShopInit
       [] OTHER -> shop = 0 /\ asides = 0
  /\ PortsInit /\ Reminders!RemindersInit /\ Alerts!AlertsInit /\ History!HistoryInit

PanelNext ==
  /\ UNCHANGED regime
  /\ \/ regime = "shop" /\ ShopNext /\ UNCHANGED <<portsVars, entVars, nodeVars, historyVars>>
     \/ regime = "leased" /\ Leased!ShopNext /\ UNCHANGED <<portsVars, entVars, nodeVars, historyVars>>
     \/ regime = "ports" /\ PortsNext /\ UNCHANGED <<shopVars, entVars, nodeVars, historyVars>>
     \/ regime = "reminders" /\ Reminders!RemindersNext /\ UNCHANGED <<shopVars, portsVars, nodeVars, historyVars>>
     \/ regime = "alerts" /\ Alerts!AlertsNext /\ UNCHANGED <<shopVars, portsVars, entVars, historyVars>>
     \/ regime = "history" /\ History!HistoryNext /\ UNCHANGED <<shopVars, portsVars, entVars, nodeVars>>

PanelSpec == PanelInit /\ [][PanelNext]_allVars

\* Whatever the order of payments, purchases, refunds, cancellations and commission
\* decisions, both wallets hold exactly what the records say (post and its callers).
WalletsExact == regime = "shop" => TypeOK /\ Books

\* The sources of a tracked account hold exactly its balance, and an external
\* refund returns the money of its own order (trackFunds, restoreFunds,
\* RequestRefund).
MoneyTraced == regime = "shop" => FundsMatch /\ OwnMoney

\* An order never gives back more than was paid and its status says how much; the
\* inviter keeps the share of what was not refunded (ResolveRefund,
\* reversePurchaseCommission, ResolveCommission).
OrdersAndShares == regime = "shop" => OrdersSettled /\ CommissionShare

\* No refund takes quota that leases hold (RefundPurchase, ReserveQuota).
QuotaCovers ==
  /\ regime = "shop" => QuotaKept
  /\ regime = "leased" => Leased!QuotaKept

\* Each reminder about an entitlement is emitted once, to an enabled account, about
\* the entitlement it holds then (monitorEntitlement).
RemindersSound == []Reminders!RemindedOnce /\ [][Reminders!ReminderIsCurrent]_entVars

\* The events about a node take turns, and a node reported lost is silent at that
\* moment for as long as the policy asks (monitorNode).
AlertsTrue == []Alerts!EventsTakeTurns /\ [][Alerts!LossIsReal]_nodeVars

\* A sample that was acknowledged is in memory or written and counts once in its
\* hour, and no bucket in memory disagrees with its row (record, flush).
HistoryExact == regime = "history" => History!SamplesCountedOnce /\ History!NeverConflicts
=============================================================================
