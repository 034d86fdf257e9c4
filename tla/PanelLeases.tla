----------------------------- MODULE PanelLeases -----------------------------
(***************************************************************************)
(* The panel's side of metering (internal/platform: leases.go,             *)
(* lease_set.go, usage_batch.go, agents.go; internal/commerce: quota.go,   *)
(* usage_batch.go), for the one rule of one node and its owner.  The state *)
(* is the database; every operator below is one transaction, from the      *)
(* state before it to the state after it.                                  *)
(*                                                                         *)
(* The control plane (cp_rule_leases, cp_lease_retirements) and the shop   *)
(* (commerce_leases, commerce_lease_reservations) keep the same facts in   *)
(* two tables that change in the same transaction: they are one here.      *)
(* Traffic is billed one for one; the multiplier and its rounding are not   *)
(* part of this module.                                                    *)
(***************************************************************************)
EXTENDS Integers, FiniteSets, FiniteSetsExt

CONSTANTS MaxLeases,     \* bound: leases ever issued
          Ents,          \* entitlements, in the order of their purchase: 1..n
          Quota,         \* bytes bought with each; 0 is unlimited
          Ask,           \* the default lease budget (16 MiB)
          Outstanding,   \* the owner's cap on open budgets (512 MiB)
          MaxOpen        \* unretired leases of a rule above which no standby is added

ASSUME PanelConstants ==
    /\ MaxLeases \in Nat /\ Ask \in Nat \ {0} /\ Outstanding \in Nat /\ MaxOpen \in Nat
    /\ Ents = 1..Cardinality(Ents) /\ 1 \in Ents
    /\ Quota \in [Ents -> Nat]

Ids == 1..MaxLeases
None == 0

\* ent: the latest entitlement; alloc: its allocated column; n: leases issued;
\* lease: their rows; prim, stby: the leases in the rule's payload; enabled: the
\* rule is on; allowed: the plan's limit on rules has room for it.
NewPanel ==
    [ent |-> 1, alloc |-> [e \in Ents |-> 0], n |-> 0,
     lease |-> [l \in Ids |-> [ent |-> 1, bytes |-> 0, used |-> 0]],
     prim |-> None, stby |-> None, retired |-> {}, usage |-> {}, version |-> 1,
     enabled |-> TRUE, allowed |-> TRUE]

Issued(x) == 1..x.n
OpenLeases(x) == Issued(x) \ x.retired

-----------------------------------------------------------------------------
(* AllocateBudgetWithMultiplier *)

\* The budget a new lease would get; 0 is ErrEntitlementUnavailable.
Budget(x, ask) ==
    LET left == IF Quota[x.ent] = 0 THEN ask ELSE Quota[x.ent] - x.alloc[x.ent]
        out == MapThenSumSet(LAMBDA l : x.lease[l].bytes, OpenLeases(x))
        b == Min({ask, left, Outstanding - out})
    IN  IF x.n < MaxLeases /\ b \in 1..ask THEN b ELSE 0

\* Reserve, insert the commercial lease and the control-plane lease.
Grant(x, ask) ==
    LET b == Budget(x, ask)
    IN  [x EXCEPT !.n = @ + 1, !.alloc[x.ent] = @ + b,
                  !.lease[x.n + 1] = [ent |-> x.ent, bytes |-> b, used |-> 0]]

\* liveLeaseTx and LeaseCurrent.
Live(x, l, lapsed) ==
    l # None /\ l \notin lapsed /\ l \notin x.retired /\ x.lease[l].ent = x.ent

\* allocateStandbyTx: at most MaxOpen unretired leases of the rule.
AddStandby(x, ask) ==
    IF x.prim = None \/ x.stby # None \/ Cardinality(OpenLeases(x)) >= MaxOpen \/ Budget(x, ask) = 0
    THEN x ELSE [Grant(x, ask) EXCEPT !.stby = x.n + 1]

-----------------------------------------------------------------------------
(* refreshLeasesWithPrefetch, for a node with the lease-set capability *)

\* hint: the lease just retired, its successor, and the standby budget wanted.
NoHint == [retired |-> None, successor |-> None, ask |-> 0]

Hinted(x, ask) == IF ask = 0 THEN x ELSE AddStandby(x, ask)

Refresh(x, lapsed, hint) ==
    LET stby == IF x.allowed /\ Live(x, x.stby, lapsed) THEN x.stby ELSE None
        kept == [x EXCEPT !.stby = stby]
        same == IF hint.successor = x.prim THEN Hinted(kept, hint.ask) ELSE kept
        base == [x EXCEPT !.prim = stby, !.stby = None]
        \* a rule that lost its primary to retirement keeps its learned budget
        ask == IF x.prim \in x.retired \ lapsed THEN Max({Ask, x.lease[x.prim].bytes}) ELSE Ask
        next == IF stby # None \/ ~x.allowed \/ Budget(x, ask) = 0 THEN base
                ELSE [Grant(base, ask) EXCEPT !.prim = x.n + 1]
        moved == IF x.allowed /\ x.prim \in x.retired \ lapsed /\ hint.retired = x.prim
                 THEN Hinted(next, hint.ask) ELSE next
    IN  IF ~x.enabled THEN x
        ELSE IF x.allowed /\ Live(x, x.prim, lapsed)
        THEN IF same = x THEN x ELSE [same EXCEPT !.version = @ + 1]
        ELSE IF x.prim = None /\ next.prim = None THEN x
        ELSE [moved EXCEPT !.version = @ + 1]

\* nodeConfig: a snapshot of the version and of the rule's leases.
Snapshot(x, lapsed) ==
    IF ~x.enabled \/ x.prim = None \/ x.prim \in lapsed
    THEN [version |-> x.version, prim |-> None, stby |-> None]
    ELSE [version |-> x.version, prim |-> x.prim, stby |-> x.stby]

-----------------------------------------------------------------------------
(* prefetchLease, retireLease and RetireLease, persistUsageBatch *)

\* Refused with a conflict when l is no longer the rule's live primary.
PrefetchOK(x, l, lapsed) == x.enabled /\ x.allowed /\ x.prim = l /\ Live(x, l, lapsed)

Prefetch(x, ask) ==
    LET y == AddStandby(x, ask) IN IF y = x THEN x ELSE [y EXCEPT !.version = @ + 1]

\* Mutation: a repeated retirement is a conflict.
RetireOnlyOnce(x, l, used) == l \in OpenLeases(x) /\ x.lease[l].used = used

RetireOK(x, l, used) == l \in Issued(x) /\ x.lease[l].used = used

\* Mutation: the whole budget goes back, what was used of it included.
RetireWhole(x, l) ==
    IF l \in x.retired THEN x
    ELSE [x EXCEPT !.retired = @ \cup {l}, !.version = @ + 1, !.alloc[x.lease[l].ent] = @ - x.lease[l].bytes]

\* The unused budget goes back to the entitlement, once.
Retire(x, l) ==
    IF l \in x.retired THEN x
    ELSE [x EXCEPT !.retired = @ \cup {l}, !.version = @ + 1,
                   !.alloc[x.lease[l].ent] = @ - (x.lease[l].bytes - x.lease[l].used)]

\* Facts are <<lease, number>> of one byte each.
Of(facts, l) == {f \in facts : f[1] = l}

\* Mutation: copies of persisted facts need room in the lease too.
UsageRoomForCopies(x, batch) ==
    \A f \in batch : /\ f[1] \in OpenLeases(x)
                     /\ Cardinality(Of(batch, f[1])) <= x.lease[f[1]].bytes - x.lease[f[1]].used

\* The batch is persisted as a whole or refused as a whole.
UsageOK(x, batch) ==
    \A f \in batch \ x.usage :
        /\ f[1] \in OpenLeases(x)
        /\ Cardinality(Of(batch \ x.usage, f[1])) <= x.lease[f[1]].bytes - x.lease[f[1]].used

Persist(x, batch) ==
    [x EXCEPT !.usage = @ \cup batch,
              !.lease = [l \in Ids |-> [x.lease[l] EXCEPT !.used = x.lease[l].used + Cardinality(Of(batch \ x.usage, l))]]]
=============================================================================
