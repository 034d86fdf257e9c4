------------------------------ MODULE PortBook ------------------------------
(***************************************************************************)
(* The panel's book of listening ports of one node, and the Agent that     *)
(* runs there.  A port of the node can be reserved by a forwarding rule    *)
(* (cp_ports), by an exit's listener (cp_exit_ports) or by the shared TLS  *)
(* ingress of a device group (cp_ingress_ports).  Every change raises the  *)
(* node's desired_version; the Agent fetches a configuration snapshot,     *)
(* applies it and acknowledges its version, and only an acknowledgement    *)
(* may release the port of a rule or an ingress that was removed.          *)
(*                                                                         *)
(* One transaction is one step: every writer of these tables runs in       *)
(* Store.Write and locks the node's row.  Answers and acknowledgements     *)
(* travel separately: each may be late, lost or repeated.                  *)
(***************************************************************************)
EXTENDS Integers, FiniteSets

CONSTANTS
    Rules,      \* rule ids of this node; an id is never used again
    Exits,      \* exits that may listen on this node
    Groups,     \* device groups
    Ports,      \* TCP port numbers of the node
    Nil,        \* no port, no row, no parent
    MaxRevision \* bound: revisions published in a behaviour

\* A listener's owner identifies it, so the three kinds of owner are disjoint.
ASSUME OwnersDistinct ==
    /\ Rules \cap Exits = {} /\ Rules \cap Groups = {} /\ Exits \cap Groups = {}
    /\ Nil \notin Rules \cup Exits \cup Groups \cup Ports
    /\ MaxRevision \in Nat

VARIABLES
    rules,      \* cp_rules: state, group, port, parent, release_version
    portRow,    \* cp_ports: the rule that holds a port
    exits,      \* cp_exits: the port an exit listens on here, its group
    exitRow,    \* cp_exit_ports: the exits that hold a port
    groups,     \* cp_groups
    wanted,     \* the group's shared_tls_ingress setting
    listed,     \* cp_tls_ingresses: the enabled ingress of the group here
    ingressRow, \* cp_ingress_ports: the group that holds a port
    releases,   \* cp_ingress_ports.release_version
    desired,    \* cp_nodes.desired_version; 0: not registered
    applied,    \* cp_nodes.applied_version
    capable,    \* cp_nodes.payload: the node announces shared-tls-ingress-v1
    uninstall,  \* cp_node_operations: the uninstall of the node that still counts
    running,    \* Agent: the configuration in force
    stored,     \* Agent: the configuration on disk
    fetched,    \* Agent: answers of the panel still being handled
    acks        \* acknowledgements sent: late, lost or repeated

panelVars == <<rules, portRow, exits, exitRow, groups, wanted, listed,
               ingressRow, releases, desired, applied, capable, uninstall>>
agentVars == <<running, stored, fetched, acks>>
portsVars == <<panelVars, agentVars>>

MaybePort == Ports \cup {Nil}

\* Where a rule may listen.  The address was given, or allocateListen drew one
\* from the range of the group; validateRule lets nothing but a port through.
ListenPorts == Ports

NoRule == [state |-> "none", group |-> Nil, port |-> Nil, parent |-> Nil, release |-> 0]
NoExit == [group |-> Nil, port |-> Nil]
NoSnapshot == [version |-> 0, listens |-> {}]
Fetchers == {"poll", "lease"}
Owners == Rules \cup Exits \cup Groups

PortsInit ==
    /\ rules = [r \in Rules |-> NoRule] /\ portRow = [p \in Ports |-> Nil]
    /\ exits = [e \in Exits |-> NoExit] /\ exitRow = [p \in Ports |-> {}]
    /\ groups = Groups /\ wanted = [g \in Groups |-> Nil]
    /\ listed = [g \in Groups |-> Nil]
    /\ ingressRow = [p \in Ports |-> Nil] /\ releases = [p \in Ports |-> 0]
    /\ desired = 0 /\ applied = 0 /\ capable = FALSE /\ uninstall = "none"
    /\ running = NoSnapshot /\ stored = NoSnapshot
    /\ fetched = [f \in Fetchers |-> NoSnapshot] /\ acks = {}

-----------------------------------------------------------------------------
(* Helpers of the transactions *)

Registered == desired > 0

\* Mutation: only a confirmed uninstall keeps them off.
AvailableUntilGone == Registered /\ uninstall # "succeeded"

\* nodeAvailableTx: an uninstall that was asked for, started or confirmed
\* keeps rules and exits off the node.
NodeAvailable == Registered /\ uninstall \notin {"pending", "running", "succeeded"}

\* publishGroupDependencies: every enrolled node gets a new revision.
Revision(n) == IF Registered THEN desired + n ELSE desired
Publish == Revision(1) <= MaxRevision /\ desired' = Revision(1)

\* Mutation: the ports of the shared ingresses are forgotten.
FreeOfRulesAndExits(p) == portRow[p] = Nil /\ exitRow[p] = {}

\* The check all port owners make, on the node's locked row.
PortFree(p) == portRow[p] = Nil /\ exitRow[p] = {} /\ ingressRow[p] = Nil

IsLive(r) == rules[r].state = "live"

Children(r) == {q \in Rules : IsLive(q) /\ rules[q].parent = r}

\* A removed rule whose node has not acknowledged the removal.
Unconfirmed(r) == rules[r].state = "gone" /\ applied < rules[r].release
-----------------------------------------------------------------------------
(* Rules *)

\* saveRuleTx, create, a rule with a port of its own.  The primary key of
\* cp_ports refuses the port of any other rule, removed ones included.
CreateRule(r, g, p) ==
    /\ rules[r].state = "none" /\ g \in groups /\ NodeAvailable
    /\ PortFree(p)
    /\ rules' = [rules EXCEPT ![r] = [state |-> "live", group |-> g, port |-> p,
                                      parent |-> Nil, release |-> 0]]
    /\ portRow' = [portRow EXCEPT ![p] = r]
    /\ Publish
    /\ UNCHANGED <<exits, exitRow, groups, wanted, listed, ingressRow, releases,
                   applied, capable, uninstall, agentVars>>

\* saveRuleTx, create, a child that shares its parent's port by server name.
\* validateSharedTx wants a live parent with a port of its own, same group.
CreateChild(r, q) ==
    /\ rules[r].state = "none" /\ NodeAvailable
    /\ IsLive(q) /\ rules[q].parent = Nil /\ rules[q].group \in groups
    /\ LET p == rules[q].port IN
         /\ exitRow[p] = {} /\ ingressRow[p] = Nil
         /\ rules' = [rules EXCEPT ![r] = [state |-> "live", group |-> rules[q].group,
                                           port |-> p, parent |-> q, release |-> 0]]
    /\ Publish
    /\ UNCHANGED <<portRow, exits, exitRow, groups, wanted, listed, ingressRow,
                   releases, applied, capable, uninstall, agentVars>>

\* saveRuleTx, create, a route of the group's shared TLS ingress
\* (bindTLSIngress): the ingress must be reserved as the group now wants it.
CreateRoute(r, g) ==
    /\ rules[r].state = "none" /\ g \in groups /\ NodeAvailable /\ capable
    /\ wanted[g] # Nil /\ listed[g] = wanted[g] /\ exitRow[wanted[g]] = {}
    /\ rules' = [rules EXCEPT ![r] = [state |-> "live", group |-> g, port |-> wanted[g],
                                      parent |-> g, release |-> 0]]
    /\ Publish
    /\ UNCHANGED <<portRow, exits, exitRow, groups, wanted, listed, ingressRow,
                   releases, applied, capable, uninstall, agentVars>>

\* saveRuleTx, update: listener, owner and placement are immutable, so an
\* edit only publishes; a route takes the address its ingress has now.
UpdateRule(r) ==
    /\ IsLive(r) /\ rules[r].group \in groups /\ NodeAvailable
    /\ LET g == rules[r].group
           p == IF rules[r].parent = g THEN wanted[g] ELSE rules[r].port
       IN /\ rules[r].parent = g => wanted[g] # Nil /\ listed[g] = wanted[g]
          /\ exitRow[p] = {} /\ (rules[r].parent # g => ingressRow[p] = Nil)
          /\ rules' = [rules EXCEPT ![r].port = p]
    /\ Publish
    /\ UNCHANGED <<portRow, exits, exitRow, groups, wanted, listed, ingressRow,
                   releases, applied, capable, uninstall, agentVars>>

\* Mutation: the port is free as soon as the rule is deleted.
DeleteFreesPort(r) ==
    /\ IsLive(r) /\ Children(r) = {}
    /\ Publish
    /\ rules' = [rules EXCEPT ![r].state = "gone", ![r].release = Revision(1)]
    /\ portRow' = [p \in Ports |-> IF portRow[p] = r THEN Nil ELSE portRow[p]]
    /\ UNCHANGED <<exits, exitRow, groups, wanted, listed, ingressRow, releases,
                   applied, capable, uninstall, agentVars>>

\* deleteRule: the row stays as a tombstone, its port stays reserved until
\* the revision published here is acknowledged.
DeleteRule(r) ==
    /\ IsLive(r) /\ Children(r) = {}
    /\ Publish
    /\ rules' = [rules EXCEPT ![r].state = "gone", ![r].release = Revision(1)]
    /\ UNCHANGED <<portRow, exits, exitRow, groups, wanted, listed, ingressRow,
                   releases, applied, capable, uninstall, agentVars>>

-----------------------------------------------------------------------------
(* Exits *)

\* saveExit with reserveExitPorts: the exit's old rows go at once, the new
\* port must be free for it.  p = Nil: it listens on another node, or dials.
SaveExit(e, g, p) ==
    LET rest == [q \in Ports |-> exitRow[q] \ {e}] IN
    /\ g \in groups /\ Registered /\ (p # Nil => NodeAvailable)
    /\ p # Nil => portRow[p] = Nil /\ rest[p] = {} /\ ingressRow[p] = Nil
    /\ exitRow' = [q \in Ports |-> IF q = p THEN {e} ELSE rest[q]]
    /\ exits' = [exits EXCEPT ![e] = [group |-> g, port |-> p]]
    /\ Publish
    /\ UNCHANGED <<rules, portRow, groups, wanted, listed, ingressRow, releases,
                   applied, capable, uninstall, agentVars>>

-----------------------------------------------------------------------------
(* Shared TLS ingresses and groups *)

\* syncTLSIngresses for the settings w: rows of an ingress that is switched
\* off or moves wait for the revision published next; the wanted port is
\* refused when anybody else holds it, a removed owner included.
Keeps(w, q) == \E g \in Groups : w[g] = q
IngressFits(w) ==
    \A g \in Groups : w[g] # Nil =>
        /\ portRow[w[g]] = Nil /\ exitRow[w[g]] = {} /\ ingressRow[w[g]] \in {Nil, g}
        /\ \A h \in Groups \ {g} : w[h] # w[g]
Leaves(w, q) ==
    LET g == ingressRow[q] IN
    g # Nil /\ releases[q] = 0 /\ listed[g] # Nil /\ w[g] # listed[g]
SyncTLSIngresses(w) ==
    /\ IngressFits(w)
    /\ ingressRow' = [q \in Ports |-> IF Keeps(w, q) THEN CHOOSE g \in Groups : w[g] = q
                                      ELSE ingressRow[q]]
    /\ releases' = [q \in Ports |-> IF Keeps(w, q) THEN 0
                                    ELSE IF Leaves(w, q) THEN desired + 1 ELSE releases[q]]
    /\ listed' = w

\* registerNode: the machine joins the groups of its enrollment.
RegisterNode ==
    /\ ~Registered /\ desired' = 1
    /\ SyncTLSIngresses(wanted)
    /\ capable' \in BOOLEAN
    /\ UNCHANGED <<rules, portRow, exits, exitRow, groups, wanted, applied,
                   uninstall, agentVars>>

\* saveGroup: the ingress setting of the group changes (Nil: switched off).
\* A confirmed uninstall took the node out of every group.
SaveGroup(g, p) ==
    /\ g \in groups /\ wanted[g] # p
    /\ wanted' = [wanted EXCEPT ![g] = p]
    /\ IF Registered /\ uninstall # "succeeded" THEN SyncTLSIngresses(wanted')
       ELSE UNCHANGED <<listed, ingressRow, releases>>
    /\ Publish
    /\ UNCHANGED <<rules, portRow, exits, exitRow, groups, applied, capable,
                   uninstall, agentVars>>

\* deleteGroup: nothing of the group may still be in use, ports included; its
\* exits and their reservations go with it.  Its nodes get two revisions.
DeleteGroup(g) ==
    /\ g \in groups
    /\ \A r \in Rules : rules[r].group = g => ~IsLive(r) /\ ~Unconfirmed(r)
    /\ \A p \in Ports : /\ ingressRow[p] # g
                        /\ portRow[p] # Nil => rules[portRow[p]].group # g
    /\ groups' = groups \ {g}
    /\ wanted' = [wanted EXCEPT ![g] = Nil] /\ listed' = [listed EXCEPT ![g] = Nil]
    /\ rules' = [r \in Rules |-> IF rules[r].group = g /\ rules[r].state = "gone"
                                 THEN [rules[r] EXCEPT !.state = "purged"] ELSE rules[r]]
    /\ exitRow' = [p \in Ports |-> {e \in exitRow[p] : exits[e].group # g}]
    /\ exits' = [e \in Exits |-> IF exits[e].group = g THEN NoExit ELSE exits[e]]
    /\ LET n == IF uninstall = "succeeded" THEN 1 ELSE 2
       IN Revision(n) <= MaxRevision /\ desired' = Revision(n)
    /\ UNCHANGED <<portRow, ingressRow, releases, applied, capable, uninstall, agentVars>>
-----------------------------------------------------------------------------
(* Uninstalling the node *)

\* createOperation for an uninstall: no rule of the node may be left, and the
\* node must have confirmed the removal of the last one (canUninstallTx).
RequestUninstall ==
    /\ NodeAvailable
    /\ \A r \in Rules : ~IsLive(r) /\ ~Unconfirmed(r)
    /\ uninstall' = "pending"
    /\ UNCHANGED <<rules, portRow, exits, exitRow, groups, wanted, listed, ingressRow,
                   releases, desired, applied, capable, agentVars>>

\* cancelOperation, the time limit, or a withdrawn grant: only before a claim.
UninstallEnds ==
    /\ uninstall = "pending" /\ uninstall' = "none"
    /\ UNCHANGED <<rules, portRow, exits, exitRow, groups, wanted, listed, ingressRow,
                   releases, desired, applied, capable, agentVars>>

\* agentControl hands the operation to the node.
ClaimUninstall ==
    /\ uninstall = "pending" /\ uninstall' = "running"
    /\ UNCHANGED <<rules, portRow, exits, exitRow, groups, wanted, listed, ingressRow,
                   releases, desired, applied, capable, agentVars>>

\* agentControlResult: a confirmed uninstall takes the node out of its groups.
UninstallResult(ok) ==
    /\ uninstall = "running"
    /\ IF ok
       THEN /\ ingressRow' = [p \in Ports |-> Nil] /\ releases' = [p \in Ports |-> 0]
            /\ listed' = [g \in Groups |-> Nil]
            /\ exits' = [e \in Exits |-> IF exits[e].port # Nil THEN NoExit ELSE exits[e]]
            /\ uninstall' = "succeeded" /\ Publish
       ELSE /\ uninstall' = "none"
            /\ UNCHANGED <<ingressRow, releases, listed, exits, desired>>
    /\ UNCHANGED <<rules, portRow, exitRow, groups, wanted, applied, capable, agentVars>>

-----------------------------------------------------------------------------
(* The Agent *)

\* agent(): a node that confirmed its uninstall is turned away.
Connected == Registered /\ uninstall # "succeeded"

\* nodeConfig, one snapshot.  S: the rules with a usable lease and the enabled
\* exits.  caps: the capabilities were read before the snapshot began, and an
\* acknowledgement may have changed them since, so they are any.  filterSharedChildren keeps a child only together with its parent,
\* so the listeners are those of the rules that own a port.
NodeConfig(S, caps) ==
    [version |-> desired,
     listens |-> {<<r, rules[r].port>> : r \in {q \in S \cap Rules : rules[q].parent = Nil}}
                 \cup {<<e, exits[e].port>> : e \in S \cap Exits}
                 \cup {<<g, listed[g]>> : g \in {h \in groups : caps /\ listed[h] # Nil}}]
Eligible == {r \in Rules : IsLive(r)} \cup {e \in Exits : exits[e].port # Nil}

\* syncConfig's GET, or the snapshot in an answer to a lease request.
Fetch(f) ==
    /\ Connected /\ fetched[f] = NoSnapshot
    /\ \E S \in SUBSET Eligible, caps \in BOOLEAN :
         fetched' = [fetched EXCEPT ![f] = NodeConfig(S, caps)]
    /\ UNCHANGED <<panelVars, running, stored, acks>>

\* Runtime.Apply binds the new listeners before it closes the old ones.  A
\* rule takes over the socket of a rule on the same address and a service
\* that of a service; every other address in use fails the whole apply.
SameKind(o, q) == o = q \/ {o, q} \subseteq Rules \/ {o, q} \subseteq Exits
Binds(c) == \A l \in c.listens, m \in running.listens : l[2] = m[2] => SameKind(l[1], m[1])

\* An acknowledgement stays under way for as long as the panel could accept it.
SendAck(a) == acks' = {b \in acks \cup {a} : b.version >= desired}

\* syncConfig: an answer older than what runs is replaced by the stored
\* configuration, then applied and acknowledged.
ApplyPolled ==
    LET c == IF fetched["poll"].version < running.version THEN stored ELSE fetched["poll"] IN
    /\ fetched["poll"] # NoSnapshot
    /\ fetched' = [fetched EXCEPT !["poll"] = NoSnapshot]
    /\ IF Binds(c)
       THEN /\ running' = c /\ stored' = c
            /\ SendAck([version |-> c.version, applied |-> c.version, ok |-> TRUE])
       ELSE /\ SendAck([version |-> c.version, applied |-> running.version, ok |-> FALSE])
            /\ UNCHANGED <<running, stored>>
    /\ UNCHANGED panelVars

\* applyLeaseConfig: only a newer snapshot, and no acknowledgement.
ApplyLeased ==
    LET c == fetched["lease"] IN
    /\ c # NoSnapshot /\ fetched' = [fetched EXCEPT !["lease"] = NoSnapshot]
    /\ IF c.version > running.version /\ Binds(c) THEN running' = c /\ stored' = c
       ELSE UNCHANGED <<running, stored>>
    /\ UNCHANGED <<panelVars, acks>>

\* The process ends and starts again: it applies the stored configuration,
\* unless that is no longer valid.
Restart ==
    /\ running' \in {stored, NoSnapshot}
    /\ fetched' = [f \in Fetchers |-> NoSnapshot]
    /\ UNCHANGED <<panelVars, stored, acks>>

\* ack: accepted for the desired revision only, never backwards.  A changed
\* capability publishes again; success releases what the revision removed.
PortReleased(p, v) == /\ portRow[p] # Nil
                  /\ rules[portRow[p]].state = "gone" /\ rules[portRow[p]].release <= v
Ack(a, caps) ==
    /\ Connected /\ a.version = desired /\ applied <= a.applied
    /\ applied' = a.applied /\ capable' = caps
    /\ IF caps # capable THEN Publish ELSE UNCHANGED desired
    /\ portRow' = [p \in Ports |-> IF a.ok /\ PortReleased(p, a.applied) THEN Nil ELSE portRow[p]]
    /\ LET freed(p) == a.ok /\ releases[p] > 0 /\ releases[p] <= a.applied
       IN /\ ingressRow' = [p \in Ports |-> IF freed(p) THEN Nil ELSE ingressRow[p]]
          /\ releases' = [p \in Ports |-> IF freed(p) THEN 0 ELSE releases[p]]
    /\ UNCHANGED <<rules, exits, exitRow, groups, wanted, listed, uninstall, agentVars>>

PanelStep ==
    \/ \E r \in Rules, g \in Groups, p \in ListenPorts : CreateRule(r, g, p)
    \/ \E r, q \in Rules : CreateChild(r, q)
    \/ \E r \in Rules, g \in Groups : CreateRoute(r, g)
    \/ \E r \in Rules : UpdateRule(r) \/ DeleteRule(r)
    \/ \E e \in Exits, g \in Groups, p \in MaybePort : SaveExit(e, g, p)
    \/ RegisterNode
    \/ \E g \in Groups, p \in MaybePort : SaveGroup(g, p)
    \/ \E g \in Groups : DeleteGroup(g)
    \/ RequestUninstall \/ UninstallEnds \/ ClaimUninstall
    \/ \E ok \in BOOLEAN : UninstallResult(ok)
    \/ \E a \in acks, caps \in BOOLEAN : Ack(a, caps)
AgentStep ==
    \/ \E f \in Fetchers : Fetch(f)
    \/ ApplyPolled \/ ApplyLeased \/ Restart
PortsNext == PanelStep \/ AgentStep
PortsSpec == PortsInit /\ [][PortsNext]_portsVars
-----------------------------------------------------------------------------
(* Properties *)

Snapshots == [version : Nat, listens : SUBSET (Owners \X Ports)]
AckMsg == [version : Nat, applied : Nat, ok : BOOLEAN]
RuleRow == [state : {"none", "live", "gone", "purged"}, group : Groups \cup {Nil},
            port : MaybePort, parent : Rules \cup Groups \cup {Nil}, release : Nat]
ExitRec == [group : Groups \cup {Nil}, port : MaybePort]

\* Every table and message has its shape: the rows of the panel's port tables
\* name owners of their kind, the Agent's listeners name real ports.
PortsTypeOK ==
    /\ rules \in [Rules -> RuleRow] /\ portRow \in [Ports -> Rules \cup {Nil}]
    /\ exits \in [Exits -> ExitRec] /\ exitRow \in [Ports -> SUBSET Exits]
    /\ groups \subseteq Groups /\ wanted \in [Groups -> MaybePort]
    /\ listed \in [Groups -> MaybePort]
    /\ ingressRow \in [Ports -> Groups \cup {Nil}] /\ releases \in [Ports -> Nat]
    /\ desired \in Nat /\ applied \in Nat /\ capable \in BOOLEAN
    /\ uninstall \in {"none", "pending", "running", "succeeded"}
    /\ running \in Snapshots /\ stored \in Snapshots
    /\ fetched \in [Fetchers -> Snapshots] /\ acks \subseteq AckMsg

\* A port of the node is reserved for one owner at most, whichever of saveRule,
\* saveExit and saveGroup asked first and whatever was removed in between.
Holders(p) == ({portRow[p], ingressRow[p]} \ {Nil}) \cup exitRow[p]
PortOwnedOnce == \A p \in Ports : \A o, q \in Holders(p) : o = q

\* As long as the Agent listens on a port for a rule or a shared ingress, the
\* port is reserved for that owner: a removed owner keeps it until the node
\* acknowledged the removal, whatever was lost, late or repeated before.
ListenerHoldsPort ==
    Connected => \A l \in running.listens :
        /\ l[1] \in Rules => portRow[l[2]] = l[1]
        /\ l[1] \in Groups => ingressRow[l[2]] = l[1]

\* A rule that shares a port is never left without the rule that owns it, and
\* a route never without its group: deleteRule and deleteGroup see to that.
SharedRulesRooted ==
    \A r \in Rules : IsLive(r) =>
        /\ rules[r].group \in groups
        /\ rules[r].parent \in Rules => IsLive(rules[r].parent)

\* A node that confirmed its uninstall holds no rule and no rule port.
UninstallIsClean ==
    uninstall = "succeeded" =>
        /\ \A r \in Rules : ~IsLive(r)
        /\ \A p \in Ports : ingressRow[p] = Nil

\* A rule that shares a port or a route has its owner for as long as it lives, and a
\* node that confirmed its uninstall is left with neither (deleteRule, deleteGroup,
\* createOperation, agentControlResult).
IngressSound == SharedRulesRooted /\ UninstallIsClean

\* The comment above syncTLSIngresses says of all port owners that
\* "reservations remain until the node acknowledges removal".  For exits too?
ExitHoldsPort ==
    Connected => \A l \in running.listens : l[1] \in Exits => l[1] \in exitRow[l[2]]
=============================================================================
