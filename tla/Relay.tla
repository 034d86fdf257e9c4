-------------------------------- MODULE Relay --------------------------------
(***************************************************************************)
(* The TCP connections an Agent forwards for one account: rules with a      *)
(* listener of their own and rules that share a TLS ingress                 *)
(* (internal/agent/runtime.go, tls_ingress.go), and the account's pool of   *)
(* connection slots (limits.go). Every connection has a goroutine that      *)
(* takes the listener's mutex now and then; Runtime.Apply replaces rules,   *)
(* limits and listeners meanwhile, one mutex after the other.               *)
(*                                                                         *)
(* A context is cancelled for ever, so a connection carries live, whether   *)
(* the context it took is still good.                                       *)
(***************************************************************************)
EXTENDS Naturals, FiniteSets

CONSTANTS
  Conns,      \* client connections
  IPs,        \* their addresses
  Dedicated,  \* rules with their own listener
  Routed,     \* rules behind the ingress
  Forms,      \* what a rule can say (target, policy): positive numbers
  Limits,     \* records [conns, ips] the account may have; 0 is no limit
  MaxSlots,   \* connections per listener (256 in the code)
  MaxConfigs  \* bound: configurations, stopped leases and expiries

VARIABLES
  form,      \* rule -> what its listener or route says now, 0 when not served
  open,      \* listeners that accept
  over,      \* rules whose context is cancelled
  lapsed,    \* the ingress is past its validity
  account,   \* Runtime.pools: number of the account's pool, 0 when none
  using,     \* rule -> the pool its listener or route holds
  pools,     \* resourcePool: limits, connections and ips
  conn,      \* Conns -> where handleTCP is
  applying,  \* the configuration Apply is switching to, or NoApply
  changes    \* configurations, stopped leases and expiries so far

relayVars == <<form, open, over, lapsed, account, using, pools, conn, applying, changes>>

RelayRules == Dedicated \cup Routed
Listeners == Dedicated \cup {"ingress"}
ListenerOf(r) == IF r \in Routed THEN "ingress" ELSE r
NoApply == [on |-> FALSE]
Idle == [pc |-> "none", at |-> "ingress", ip |-> 0, rule |-> "none",
         form |-> 0, pool |-> 0, live |-> FALSE, client |-> FALSE]
Pools == 1..(MaxConfigs + 1)
NoPool == [limits |-> [conns |-> 0, ips |-> 0], connections |-> 0, ips |-> [i \in IPs |-> 0]]

RelayInit ==
  /\ \E l \in Limits :
       pools = [p \in Pools |-> IF p = 1 THEN [NoPool EXCEPT !.limits = l] ELSE NoPool]
  /\ form = [r \in RelayRules |-> 1]
  /\ open = Listeners
  /\ over = {} /\ lapsed = FALSE
  /\ account = 1
  /\ using = [r \in RelayRules |-> 1]
  /\ conn = [c \in Conns |-> Idle]
  /\ applying = NoApply
  /\ changes = 0

At(l) == {c \in Conns : conn[c].pc # "none" /\ conn[c].at = l}
Tracked(l) == {c \in At(l) : conn[c].pc # "accepted"}
Holding == {"acquired", "dialled", "relaying"}
-----------------------------------------------------------------------------
(* limits.go *)

Admits(p, ip) ==
  LET q == pools[p]
  IN /\ q.limits.conns = 0 \/ q.connections < q.limits.conns
     /\ \/ q.limits.ips = 0 \/ q.ips[ip] > 0
        \/ Cardinality({i \in IPs : q.ips[i] > 0}) < q.limits.ips

Taken(p, ip) == [pools EXCEPT ![p].connections = @ + 1, ![p].ips[ip] = @ + 1]

\* release, once per connection.
Released(c) ==
  IF conn[c].pc \in Holding
  THEN [pools EXCEPT ![conn[c].pool].connections = @ - 1, ![conn[c].pool].ips[conn[c].ip] = @ - 1]
  ELSE pools
-----------------------------------------------------------------------------
(* serveTCP and handleTCP *)

\* A connection is accepted and has a slot; one too many is closed at once.
Accept(c, l, ip) ==
  /\ conn[c].pc = "none"
  /\ l \in open
  /\ Cardinality(At(l)) < MaxSlots
  /\ conn' = [conn EXCEPT ![c] = [Idle EXCEPT !.pc = "accepted", !.at = l, !.ip = ip, !.client = TRUE]]
  /\ UNCHANGED <<form, open, over, lapsed, account, using, pools, applying, changes>>

\* The defers of handleTCP: the pool, the tracked sockets and the slot.
Leave(c) == conn' = [conn EXCEPT ![c] = Idle] /\ pools' = Released(c)

Refuses(l) == l \notin open \/ (l = "ingress" /\ lapsed)

Track(c) ==
  /\ conn[c].pc = "accepted"
  /\ IF Refuses(conn[c].at) THEN Leave(c)
     ELSE conn' = [conn EXCEPT ![c].pc = "tracked"] /\ UNCHANGED pools
  /\ UNCHANGED <<form, open, over, lapsed, account, using, applying, changes>>

Takes(c, r) ==
  conn' = [conn EXCEPT ![c].pc = "chosen", ![c].rule = r, ![c].form = form[r], ![c].pool = using[r], ![c].live = r \notin over]

\* Rule, context and pool, in one go: snapshot, or for the ingress the route of the
\* server name the client sent. Parsing or the policy may refuse the client.
Choose(c) ==
  /\ conn[c].pc = "tracked"
  /\ \/ conn[c].at \in Dedicated /\ Takes(c, conn[c].at) /\ UNCHANGED pools
     \/ /\ conn[c].at = "ingress"
        /\ \E r \in Routed : form[r] # 0 /\ r \notin over /\ ~Refuses("ingress") /\ Takes(c, r)
        /\ UNCHANGED pools
     \/ conn[c].at = "closed" /\ conn[c].rule # "none" /\ conn' = [conn EXCEPT ![c].pc = "chosen"] /\ UNCHANGED pools
     \/ Leave(c)
  /\ UNCHANGED <<form, open, over, lapsed, account, using, applying, changes>>

Acquire(c) ==
  /\ conn[c].pc = "chosen"
  /\ IF Admits(conn[c].pool, conn[c].ip)
     THEN conn' = [conn EXCEPT ![c].pc = "acquired"] /\ pools' = Taken(conn[c].pool, conn[c].ip)
     ELSE Leave(c)
  /\ UNCHANGED <<form, open, over, lapsed, account, using, applying, changes>>

\* awaitAvailable needs a good context; the dial may end well just as it is cancelled.
Dial(c) ==
  /\ conn[c].pc = "acquired"
  /\ \/ conn[c].live /\ conn' = [conn EXCEPT ![c].pc = "dialled"] /\ UNCHANGED pools
     \/ Leave(c)
  /\ UNCHANGED <<form, open, over, lapsed, account, using, applying, changes>>

\* track, and trackIngressTarget, which also looks at the context.
TrackTarget(c) ==
  /\ conn[c].pc = "dialled"
  /\ IF Refuses(conn[c].at) \/ (conn[c].at = "ingress" /\ ~conn[c].live) THEN Leave(c)
     ELSE conn' = [conn EXCEPT ![c].pc = "relaying"] /\ UNCHANGED pools
  /\ UNCHANGED <<form, open, over, lapsed, account, using, applying, changes>>

\* Either side closes, the relay is idle for two minutes, or charge refuses.
RelayEnds(c) ==
  /\ conn[c].pc = "relaying"
  /\ Leave(c)
  /\ UNCHANGED <<form, open, over, lapsed, account, using, applying, changes>>
-----------------------------------------------------------------------------
(* Revoking *)

\* The context of rules R and the sockets of connections S.
Revoked(R, S) ==
  [c \in Conns |-> [conn[c] EXCEPT !.live = @ /\ conn[c].rule \notin R, !.client = @ /\ c \notin S]]

Of(r) == {c \in Conns : conn[c].rule = r}

\* The connections a revoked rule owns: all of a listener's own, or the ingress
\* connections that chose the route.
Owned(r) == IF r \in Dedicated THEN Tracked(r) ELSE Of(r)

StopLease(r) ==
  /\ changes < MaxConfigs
  /\ form[r] # 0
  /\ ~applying.on
  /\ over' = over \cup {r}
  /\ conn' = Revoked({r}, Owned(r))
  /\ changes' = changes + 1
  /\ UNCHANGED <<form, open, lapsed, account, using, pools, applying>>

\* The validity of the ingress passes, and its timer fires some time after.
Lapse ==
  /\ ~lapsed /\ "ingress" \in open /\ changes < MaxConfigs
  /\ lapsed' = TRUE
  /\ changes' = changes + 1
  /\ UNCHANGED <<form, open, over, account, using, pools, conn, applying>>

IngressExpires ==
  /\ lapsed /\ "ingress" \in open
  /\ ~(Routed \subseteq over)
  /\ over' = over \cup Routed
  /\ conn' = Revoked(Routed, Tracked("ingress"))
  /\ UNCHANGED <<form, open, lapsed, account, using, pools, applying, changes>>
-----------------------------------------------------------------------------
(* Runtime.Apply, after everything has been staged *)

Served(f) == {r \in RelayRules : f[r] # 0}
Kept(f) == {"ingress"} \cup (Dedicated \cap Served(f))

\* A socket moved to another address of the same port cannot be staged beside the old
\* one: replaceIngressSocket closes that one and its clients first.
Staged(moved) == IF moved THEN Revoked({}, Tracked("ingress")) ELSE conn

\* Staging fails after that, and the old socket listens again.
ApplyFails ==
  /\ ~applying.on /\ changes < MaxConfigs
  /\ conn' = Staged(TRUE)
  /\ changes' = changes + 1
  /\ UNCHANGED <<form, open, over, lapsed, account, using, pools, applying>>

\* Pools first, each under its own mutex: configured, made, or dropped when idle.
Begin(f, l, moved) ==
  /\ ~applying.on /\ changes < MaxConfigs
  /\ LET p == IF account # 0 THEN account ELSE changes + 2
     IN /\ applying' = [on |-> TRUE, form |-> f, limits |-> l, before |-> pools[p].limits, left |-> Listeners, moved |-> moved]
        /\ IF Served(f) # {}
           THEN account' = p /\ pools' = [pools EXCEPT ![p].limits = l]
           ELSE /\ account' = IF account # 0 /\ pools[account].connections > 0 THEN account ELSE 0
                /\ UNCHANGED pools
  /\ conn' = Staged(moved)
  /\ open' = IF moved THEN open \ {"ingress"} ELSE open
  /\ changes' = changes + 1
  /\ UNCHANGED <<form, over, lapsed, using>>

\* Mutation: what forwards the same is kept, whatever the limits.
SameForm(r) == form[r] = applying.form[r] /\ r \notin over

\* sameForwardingRule, and a context that is still good.
Same(r) ==
  /\ form[r] = applying.form[r]
  /\ applying.limits = applying.before
  /\ r \notin over

\* binding.close: everything at the listener is cancelled and closed, and goes on
\* with what the closed listener had.
Closed(l) ==
  [c \in Conns |->
     IF c \notin At(l) THEN conn[c]
     ELSE [conn[c] EXCEPT !.at = "closed", !.live = FALSE,
                          !.client = @ /\ conn[c].pc = "accepted",
                          !.rule = IF @ = "none" /\ l \in Dedicated THEN l ELSE @,
                          !.form = IF @ = 0 /\ l \in Dedicated THEN form[l] ELSE @,
                          !.pool = IF @ = 0 /\ l \in Dedicated THEN using[l] ELSE @]]

\* One listener at a time, under its mutex: closed, or switched to its new rules.
\* Rules that are not the same get a new context and lose their connections.
Switch(l) ==
  /\ applying.on /\ l \in applying.left
  /\ LET mine == {r \in RelayRules : ListenerOf(r) = l}
         changed == {r \in mine : ~Same(r)}
     IN /\ form' = [r \in RelayRules |-> IF r \in mine THEN applying.form[r] ELSE form[r]]
        /\ using' = [r \in RelayRules |-> IF r \in mine THEN account ELSE using[r]]
        /\ over' = over \ mine
        /\ open' = IF l \in Kept(applying.form) THEN open \cup {l} ELSE open \ {l}
        /\ lapsed' = IF l = "ingress" THEN FALSE ELSE lapsed
        /\ conn' = IF l \notin Kept(applying.form) \/ (l = "ingress" /\ applying.moved) THEN Closed(l)
                   ELSE Revoked(changed, UNION {Owned(r) : r \in changed})
  /\ applying' = IF applying.left = {l} THEN NoApply ELSE [applying EXCEPT !.left = @ \ {l}]
  /\ UNCHANGED <<account, pools, changes>>

RelayNext ==
  \/ \E c \in Conns :
       \/ \E l \in Listeners, ip \in IPs : Accept(c, l, ip)
       \/ Track(c) \/ Choose(c) \/ Acquire(c) \/ Dial(c) \/ TrackTarget(c) \/ RelayEnds(c)
  \/ \E r \in RelayRules : StopLease(r)
  \/ Lapse \/ IngressExpires
  \/ ApplyFails
  \/ \E f \in [RelayRules -> Forms \cup {0}], l \in Limits, moved \in BOOLEAN : Begin(f, l, moved)
  \/ \E l \in Listeners : Switch(l)

RelaySpec == RelayInit /\ [][RelayNext]_relayVars
-----------------------------------------------------------------------------
\* Bytes can pass: charge accepts them and the sockets are open.
Passing == {c \in Conns : conn[c].pc = "relaying" /\ conn[c].live /\ conn[c].client}

\* Listeners and connections have the shapes of binding and handleTCP, and a pool
\* counts exactly the connections, and the addresses, that hold it.
RelayTypeOK ==
  /\ open \subseteq Listeners /\ over \subseteq RelayRules
  /\ \A c \in Conns : conn[c].pc \in {"none", "accepted", "tracked", "chosen"} \cup Holding
  /\ \A p \in Pools :
       LET holders == {c \in Conns : conn[c].pc \in Holding /\ conn[c].pool = p}
       IN /\ pools[p].connections = Cardinality(holders)
          /\ \A i \in IPs : pools[p].ips[i] = Cardinality({c \in holders : conn[c].ip = i})

\* Bytes pass only for the rule as it is served now: what was removed, changed,
\* stopped or moved to another pool passes nothing (Apply, updateIngressRoutes,
\* StopLease, binding.close).
PassingIsServed ==
  \A c \in Passing : conn[c].at \in open /\ form[conn[c].rule] = conn[c].form /\ conn[c].rule \notin over

\* The account's limits hold for what passes as soon as Apply is done, also after a
\* downgrade, a removal and a return of its rules (acquire, configure, Apply).
LimitsHold ==
  ~applying.on /\ account # 0 =>
    LET l == pools[account].limits
    IN /\ l.conns = 0 \/ Cardinality(Passing) <= l.conns
       /\ l.ips = 0 \/ Cardinality({conn[c].ip : c \in Passing}) <= l.ips

\* A connection whose context is gone is not left hanging: its client is closed, so
\* the relay ends (revokeIngressRoute, Apply, trackIngressTarget).
RevokedEnds == \A c \in Conns : conn[c].pc = "relaying" /\ ~conn[c].live => ~conn[c].client
=============================================================================
