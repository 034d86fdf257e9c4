--------------------------- MODULE PortBookProofs ---------------------------
(***************************************************************************)
(* The book of ports is right for any number of rules, exits, groups and   *)
(* ports: a port has one owner, what the Agent listens on is reserved for  *)
(* the owner it listens for, and shared rules keep what they share.        *)
(*                                                                         *)
(* ListenerHoldsPort needs an invariant about every configuration the      *)
(* Agent may still come to run: the stored one and the answers under way.  *)
(* Each that is not older than the acknowledged version is covered by the  *)
(* book (Covered), and none that is older can be applied (Floor), because  *)
(* every version acknowledged or about to be is at most the running one.   *)
(***************************************************************************)
EXTENDS PortBook, TLAPS

\* The rows of the rules and of cp_ports agree.
RuleRows ==
    /\ \A r \in Rules : IsLive(r) /\ rules[r].parent = Nil =>
         rules[r].port \in Ports /\ portRow[rules[r].port] = r
    /\ \A p \in Ports : portRow[p] # Nil =>
         /\ rules[portRow[p]].parent = Nil
         /\ rules[portRow[p]].state \in {"live", "gone"}

\* An ingress that is listed holds its port and is not being released.
IngressRows ==
    \A g \in Groups : listed[g] # Nil => ingressRow[listed[g]] = g /\ releases[listed[g]] = 0

\* Rules come after the registration, the uninstall after the last rule.
Lifecycle ==
    /\ \A r \in Rules : IsLive(r) => Registered
    /\ uninstall # "none" => Registered /\ \A r \in Rules : ~IsLive(r)

RowInv == PortsTypeOK /\ PortOwnedOnce /\ IngressSound /\ RuleRows /\ IngressRows /\ Lifecycle

\* What a configuration listens on is reserved for whom it listens, and stays so
\* until a version is acknowledged that is newer than this one.
Covered(c) ==
    \A l \in c.listens :
        /\ l[1] \in Rules => /\ portRow[l[2]] = l[1]
                             /\ IsLive(l[1]) \/ c.version < rules[l[1]].release
        /\ l[1] \in Groups => /\ ingressRow[l[2]] = l[1]
                              /\ releases[l[2]] = 0 \/ c.version < releases[l[2]]

Configurations == {running, stored} \cup {fetched[f] : f \in Fetchers}

\* A version the panel knows as applied or is about to be told.
Confirmed == {applied} \cup {a.applied : a \in acks}

AllCovered == uninstall # "succeeded" => \A c \in Configurations : applied <= c.version => Covered(c)

Floor ==
    /\ running = stored \/ running = NoSnapshot
    /\ \A c \in Configurations : c.version <= desired /\ (c.version = 0 => c = NoSnapshot)
    /\ \A v \in Confirmed :
         /\ v <= stored.version
         /\ \/ v <= running.version
            \/ running = NoSnapshot /\ \A f \in Fetchers : fetched[f] = NoSnapshot \/ v <= fetched[f].version

PortsInv == RowInv /\ AllCovered /\ Floor
-----------------------------------------------------------------------------
(* Types *)

RuleTypes == rules \in [Rules -> RuleRow] /\ portRow \in [Ports -> Rules \cup {Nil}]
ExitTypes == exits \in [Exits -> ExitRec] /\ exitRow \in [Ports -> SUBSET Exits]
GroupTypes == groups \subseteq Groups /\ wanted \in [Groups -> MaybePort]
IngressTypes ==
    /\ listed \in [Groups -> MaybePort]
    /\ ingressRow \in [Ports -> Groups \cup {Nil}] /\ releases \in [Ports -> Nat]
NodeTypes ==
    /\ desired \in Nat /\ applied \in Nat /\ capable \in BOOLEAN
    /\ uninstall \in {"none", "pending", "running", "succeeded"}
AgentTypes ==
    /\ running \in Snapshots /\ stored \in Snapshots
    /\ fetched \in [Fetchers -> Snapshots] /\ acks \subseteq AckMsg

\* The tables one by one.
LEMMA TypeParts == PortsTypeOK <=> RuleTypes /\ ExitTypes /\ GroupTypes /\ IngressTypes /\ NodeTypes /\ AgentTypes
BY DEF PortsTypeOK, RuleTypes, ExitTypes, GroupTypes, IngressTypes, NodeTypes, AgentTypes

\* A transaction that publishes leaves a version that is a number, and larger on a
\* registered node (publishGroupDependencies).
LEMMA PublishStep ==
    ASSUME NodeTypes, Publish
    PROVE  desired' \in Nat /\ desired' >= desired /\ (Registered => desired' = desired + 1)
BY DEF NodeTypes, Publish, Revision, Registered

\* The tables of the shared ingresses keep their shape (syncTLSIngresses).
LEMMA SyncTypes ==
    ASSUME IngressTypes, NodeTypes, NEW w \in [Groups -> MaybePort], SyncTLSIngresses(w)
    PROVE  IngressTypes'
<1>1. listed' \in [Groups -> MaybePort]
  BY DEF SyncTLSIngresses
<1>2. ASSUME NEW q \in Ports PROVE ingressRow'[q] \in Groups \cup {Nil}
  <2>1. CASE Keeps(w, q)
    <3>1. ingressRow'[q] = CHOOSE g \in Groups : w[g] = q
      BY <2>1 DEF SyncTLSIngresses
    <3> QED BY <2>1, <3>1 DEF Keeps
  <2>2. CASE ~Keeps(w, q)
    BY <2>2 DEF SyncTLSIngresses, IngressTypes
  <2> QED BY <2>1, <2>2
<1>3. ingressRow' \in [Ports -> Groups \cup {Nil}]
  BY <1>2 DEF SyncTLSIngresses
<1>4. releases' \in [Ports -> Nat]
  BY DEF SyncTLSIngresses, IngressTypes, NodeTypes
<1> QED BY <1>1, <1>3, <1>4 DEF IngressTypes
\* Every transaction of the panel keeps its tables' shape.
LEMMA PanelTypes == PortsTypeOK /\ PanelStep => PortsTypeOK'
<1> SUFFICES ASSUME PortsTypeOK, PanelStep PROVE PortsTypeOK'
  OBVIOUS
<1>t. RuleTypes /\ ExitTypes /\ GroupTypes /\ IngressTypes /\ NodeTypes /\ AgentTypes
  BY TypeParts
<1>u. SUFFICES RuleTypes' /\ ExitTypes' /\ GroupTypes' /\ IngressTypes' /\ NodeTypes' /\ AgentTypes'
  BY DEF PortsTypeOK, RuleTypes, ExitTypes, GroupTypes, IngressTypes, NodeTypes, AgentTypes
<1> DEFINE Goal == RuleTypes' /\ ExitTypes' /\ GroupTypes' /\ IngressTypes' /\ NodeTypes' /\ AgentTypes'
<1>r. ASSUME NEW r \in Rules, NEW x \in RuleRow, rules' = [rules EXCEPT ![r] = x] PROVE rules' \in [Rules -> RuleRow]
  BY <1>t, <1>r DEF RuleTypes
<1>a. ASSUME UNCHANGED <<exits, exitRow, groups, wanted, listed, ingressRow, releases, applied, capable, uninstall, agentVars>>,
             Publish, rules' \in [Rules -> RuleRow], portRow' \in [Ports -> Rules \cup {Nil}]
      PROVE  Goal
  BY <1>a, <1>t, PublishStep DEF RuleTypes, ExitTypes, GroupTypes, IngressTypes, NodeTypes, AgentTypes, agentVars
<1>1. ASSUME NEW r \in Rules, NEW g \in Groups, NEW p \in ListenPorts, CreateRule(r, g, p) PROVE Goal
  <2>1. [state |-> "live", group |-> g, port |-> p, parent |-> Nil, release |-> 0] \in RuleRow
    BY <1>1 DEF RuleRow, MaybePort, ListenPorts
  <2>2. rules' \in [Rules -> RuleRow]
    BY <1>1, <2>1, <1>r DEF CreateRule
  <2> QED BY <1>1, <1>a, <1>t, <2>2 DEF CreateRule, RuleTypes, ListenPorts
<1>2. ASSUME NEW r \in Rules, NEW q \in Rules, CreateChild(r, q) PROVE Goal
  <2>1. rules[q] \in RuleRow
    BY <1>t DEF RuleTypes
  <2>2. [state |-> "live", group |-> rules[q].group, port |-> rules[q].port, parent |-> q, release |-> 0] \in RuleRow
    BY <2>1 DEF RuleRow
  <2>3. rules' \in [Rules -> RuleRow]
    BY <1>2, <2>2, <1>r DEF CreateChild
  <2> QED BY <1>2, <1>a, <1>t, <2>3 DEF CreateChild, RuleTypes
<1>3. ASSUME NEW r \in Rules, NEW g \in Groups, CreateRoute(r, g) PROVE Goal
  <2>1. [state |-> "live", group |-> g, port |-> wanted[g], parent |-> g, release |-> 0] \in RuleRow
    BY <1>t DEF RuleRow, GroupTypes
  <2>2. rules' \in [Rules -> RuleRow]
    BY <1>3, <2>1, <1>r DEF CreateRoute
  <2> QED BY <1>3, <1>a, <1>t, <2>2 DEF CreateRoute, RuleTypes
<1>4. ASSUME NEW r \in Rules, UpdateRule(r) PROVE Goal
  <2> DEFINE g == rules[r].group
             p == IF rules[r].parent = g THEN wanted[g] ELSE rules[r].port
             x == [rules[r] EXCEPT !.port = p]
  <2>1. rules[r] \in RuleRow /\ g \in Groups
    BY <1>4, <1>t DEF RuleTypes, GroupTypes, UpdateRule
  <2>2. p \in MaybePort
    BY <2>1, <1>t DEF RuleRow, GroupTypes
  <2> HIDE DEF p
  <2>3. x \in RuleRow
    BY <2>1, <2>2 DEF RuleRow
  <2>4. rules' = [rules EXCEPT ![r] = x]
    BY <1>4, <1>t DEF UpdateRule, RuleTypes, p
  <2> HIDE DEF x
  <2>5. rules' \in [Rules -> RuleRow]
    BY <2>3, <2>4, <1>r
  <2> QED BY <1>4, <1>a, <1>t, <2>5 DEF UpdateRule, RuleTypes
<1>5. ASSUME NEW r \in Rules, DeleteRule(r) PROVE Goal
  <2> DEFINE x == [rules[r] EXCEPT !.state = "gone", !.release = Revision(1)]
  <2>1. rules[r] \in RuleRow
    BY <1>t DEF RuleTypes
  <2>2. Revision(1) \in Nat
    BY <1>t DEF NodeTypes, Revision, Registered
  <2>3. x \in RuleRow
    BY <2>1, <2>2 DEF RuleRow
  <2>4. rules' = [rules EXCEPT ![r] = x]
    BY <1>5, <1>t DEF DeleteRule, RuleTypes
  <2> HIDE DEF x
  <2>5. rules' \in [Rules -> RuleRow]
    BY <2>3, <2>4, <1>r
  <2> QED BY <1>5, <1>a, <1>t, <2>5 DEF DeleteRule, RuleTypes
<1>6. ASSUME NEW e \in Exits, NEW g \in Groups, NEW p \in MaybePort, SaveExit(e, g, p) PROVE Goal
  <2>1. [group |-> g, port |-> p] \in ExitRec
    BY DEF ExitRec
  <2>2. exits' \in [Exits -> ExitRec]
    BY <1>6, <1>t, <2>1 DEF SaveExit, ExitTypes
  <2>3. exitRow' \in [Ports -> SUBSET Exits]
    BY <1>6, <1>t DEF SaveExit, ExitTypes
  <2> QED BY <1>6, <1>t, <2>2, <2>3, PublishStep
          DEF SaveExit, RuleTypes, ExitTypes, GroupTypes, IngressTypes, NodeTypes, AgentTypes, agentVars
<1>7. ASSUME RegisterNode PROVE Goal
  <2>1. IngressTypes'
    BY <1>7, <1>t, SyncTypes DEF RegisterNode, GroupTypes
  <2> QED BY <1>7, <1>t, <2>1 DEF RegisterNode, RuleTypes, ExitTypes, GroupTypes, NodeTypes, AgentTypes, agentVars
<1>8. ASSUME NEW g \in Groups, NEW p \in MaybePort, SaveGroup(g, p) PROVE Goal
  <2>1. wanted' \in [Groups -> MaybePort]
    BY <1>8, <1>t DEF SaveGroup, GroupTypes
  <2>2. IngressTypes'
    <3>1. CASE SyncTLSIngresses(wanted')
      BY <3>1, <1>t, <2>1, SyncTypes
    <3>2. CASE UNCHANGED <<listed, ingressRow, releases>>
      BY <3>2, <1>t DEF IngressTypes
    <3> QED BY <1>8, <3>1, <3>2 DEF SaveGroup
  <2> QED BY <1>8, <1>t, <2>1, <2>2, PublishStep DEF SaveGroup, RuleTypes, ExitTypes, GroupTypes, NodeTypes, AgentTypes, agentVars
<1>9. ASSUME NEW g \in Groups, DeleteGroup(g) PROVE Goal
  <2>1. \A r \in Rules : [rules[r] EXCEPT !.state = "purged"] \in RuleRow
    BY <1>t DEF RuleTypes, RuleRow
  <2>2. rules' \in [Rules -> RuleRow]
    BY <1>9, <1>t, <2>1 DEF DeleteGroup, RuleTypes
  <2>3. NoExit \in ExitRec
    BY DEF NoExit, ExitRec, MaybePort
  <2>4. exits' \in [Exits -> ExitRec] /\ exitRow' \in [Ports -> SUBSET Exits]
    BY <1>9, <1>t, <2>3 DEF DeleteGroup, ExitTypes
  <2>5. groups' \subseteq Groups /\ wanted' \in [Groups -> MaybePort] /\ listed' \in [Groups -> MaybePort]
    BY <1>9, <1>t DEF DeleteGroup, GroupTypes, IngressTypes, MaybePort
  <2>6. desired' \in Nat
    BY <1>9, <1>t DEF DeleteGroup, NodeTypes, Revision, Registered
  <2> QED BY <1>9, <1>t, <2>2, <2>4, <2>5, <2>6
          DEF DeleteGroup, RuleTypes, ExitTypes, GroupTypes, IngressTypes, NodeTypes, AgentTypes, agentVars
<1>10. CASE RequestUninstall \/ UninstallEnds \/ ClaimUninstall
  BY <1>10, <1>t DEF RequestUninstall, UninstallEnds, ClaimUninstall, RuleTypes, ExitTypes, GroupTypes, IngressTypes,
                     NodeTypes, AgentTypes, agentVars
<1>11. ASSUME NEW ok \in BOOLEAN, UninstallResult(ok) PROVE Goal
  <2>1. NoExit \in ExitRec
    BY DEF NoExit, ExitRec, MaybePort
  <2>2. exits' \in [Exits -> ExitRec] /\ exitRow' \in [Ports -> SUBSET Exits]
    BY <1>11, <1>t, <2>1 DEF UninstallResult, ExitTypes
  <2>3. IngressTypes'
    BY <1>11, <1>t DEF UninstallResult, IngressTypes, MaybePort
  <2>4. NodeTypes'
    BY <1>11, <1>t, PublishStep DEF UninstallResult, NodeTypes
  <2> QED BY <1>11, <1>t, <2>2, <2>3, <2>4 DEF UninstallResult, RuleTypes, ExitTypes, GroupTypes, AgentTypes, agentVars
<1>12. ASSUME NEW a \in acks, NEW caps \in BOOLEAN, Ack(a, caps) PROVE Goal
  <2>1. a \in AckMsg
    BY <1>t DEF AgentTypes
  <2>2. NodeTypes'
    BY <1>12, <1>t, <2>1, PublishStep DEF Ack, NodeTypes, AckMsg
  <2>3. RuleTypes' /\ IngressTypes'
    BY <1>12, <1>t DEF Ack, RuleTypes, IngressTypes
  <2> QED BY <1>12, <1>t, <2>2, <2>3 DEF Ack, ExitTypes, GroupTypes, AgentTypes, agentVars
<1> QED BY <1>1, <1>2, <1>3, <1>4, <1>5, <1>6, <1>7, <1>8, <1>9, <1>10, <1>11, <1>12 DEF PanelStep
\* What nodeConfig snapshots are listeners of owners on ports: a rule with a port of
\* its own has one, and so have the exits and ingresses it lists.
LEMMA ConfigTypes ==
    ASSUME PortsTypeOK, RuleRows, NEW S \in SUBSET Eligible, NEW caps \in BOOLEAN
    PROVE  NodeConfig(S, caps) \in Snapshots
<1>t. RuleTypes /\ ExitTypes /\ GroupTypes /\ IngressTypes /\ NodeTypes
  BY TypeParts
<1> DEFINE A == {<<r, rules[r].port>> : r \in {q \in S \cap Rules : rules[q].parent = Nil}}
           B == {<<e, exits[e].port>> : e \in S \cap Exits}
           C == {<<g, listed[g]>> : g \in {h \in groups : caps /\ listed[h] # Nil}}
<1>1. ASSUME NEW r \in S \cap Rules, rules[r].parent = Nil PROVE <<r, rules[r].port>> \in Owners \X Ports
  <2>1. IsLive(r)
    BY <1>1, OwnersDistinct DEF Eligible
  <2> QED BY <1>1, <2>1 DEF RuleRows, Owners
<1>2. ASSUME NEW e \in S \cap Exits PROVE <<e, exits[e].port>> \in Owners \X Ports
  <2>1. exits[e].port # Nil /\ exits[e] \in ExitRec
    BY <1>2, <1>t, OwnersDistinct DEF Eligible, ExitTypes
  <2> QED BY <1>2, <2>1 DEF ExitRec, MaybePort, Owners
<1>3. ASSUME NEW g \in groups, listed[g] # Nil PROVE <<g, listed[g]>> \in Owners \X Ports
  BY <1>3, <1>t DEF GroupTypes, IngressTypes, MaybePort, Owners
<1>4. A \subseteq Owners \X Ports /\ B \subseteq Owners \X Ports /\ C \subseteq Owners \X Ports
  BY <1>1, <1>2, <1>3
<1>5. NodeConfig(S, caps) = [version |-> desired, listens |-> A \cup B \cup C]
  BY DEF NodeConfig
<1> HIDE DEF A, B, C
<1> QED BY <1>4, <1>5, <1>t DEF Snapshots, NodeTypes

\* The Agent's steps keep the shape of its configurations and messages.
LEMMA AgentStepTypes == PortsTypeOK /\ RuleRows /\ AgentStep => PortsTypeOK'
<1> SUFFICES ASSUME PortsTypeOK, RuleRows, AgentStep PROVE PortsTypeOK'
  OBVIOUS
<1>t. RuleTypes /\ ExitTypes /\ GroupTypes /\ IngressTypes /\ NodeTypes /\ AgentTypes
  BY TypeParts
<1>n. NoSnapshot \in Snapshots
  BY DEF NoSnapshot, Snapshots
<1>p. UNCHANGED panelVars
  BY DEF AgentStep, Fetch, ApplyPolled, ApplyLeased, Restart
<1>s. SUFFICES AgentTypes'
  <2>1. RuleTypes' /\ ExitTypes' /\ GroupTypes' /\ IngressTypes' /\ NodeTypes'
    BY <1>p, <1>t DEF panelVars, RuleTypes, ExitTypes, GroupTypes, IngressTypes, NodeTypes
  <2> QED BY <2>1 DEF PortsTypeOK, RuleTypes, ExitTypes, GroupTypes, IngressTypes, NodeTypes, AgentTypes
<1>1. ASSUME NEW f \in Fetchers, Fetch(f) PROVE AgentTypes'
  <2>1. PICK S \in SUBSET Eligible, caps \in BOOLEAN : fetched' = [fetched EXCEPT ![f] = NodeConfig(S, caps)]
    BY <1>1 DEF Fetch
  <2>2. NodeConfig(S, caps) \in Snapshots
    BY ConfigTypes
  <2> QED BY <1>1, <1>t, <2>1, <2>2 DEF Fetch, AgentTypes
<1>2. ASSUME ApplyPolled PROVE AgentTypes'
  <2> DEFINE c == IF fetched["poll"].version < running.version THEN stored ELSE fetched["poll"]
             good == [version |-> c.version, applied |-> c.version, ok |-> TRUE]
             bad == [version |-> c.version, applied |-> running.version, ok |-> FALSE]
  <2>1. c \in Snapshots
    BY <1>t DEF AgentTypes, Fetchers
  <2>2. /\ fetched' = [fetched EXCEPT !["poll"] = NoSnapshot]
        /\ \/ running' = c /\ stored' = c /\ SendAck(good)
           \/ SendAck(bad) /\ UNCHANGED <<running, stored>>
    BY <1>2 DEF ApplyPolled
  <2> HIDE DEF c
  <2>3. good \in AckMsg /\ bad \in AckMsg
    BY <2>1, <1>t DEF AckMsg, AgentTypes, Snapshots
  <2> QED BY <1>t, <1>n, <2>1, <2>2, <2>3 DEF AgentTypes, SendAck
<1>3. ASSUME ApplyLeased PROVE AgentTypes'
  BY <1>3, <1>t, <1>n DEF ApplyLeased, AgentTypes, Fetchers
<1>4. ASSUME Restart PROVE AgentTypes'
  BY <1>4, <1>t, <1>n DEF Restart, AgentTypes
<1> QED BY <1>1, <1>2, <1>3, <1>4 DEF AgentStep
-----------------------------------------------------------------------------
(* The rows *)

\* A port that becomes somebody's was nobody's (saveRuleTx, saveExit,
\* syncTLSIngresses look at all three tables, on the node's locked row).
LEMMA OwnedStep == PortsTypeOK /\ PortOwnedOnce /\ PanelStep => PortOwnedOnce'
<1> SUFFICES ASSUME PortsTypeOK, PortOwnedOnce, PanelStep PROVE PortOwnedOnce'
  OBVIOUS
<1>t. RuleTypes /\ ExitTypes /\ GroupTypes /\ IngressTypes
  BY TypeParts
<1>h. ASSUME \A p \in Ports : Holders(p)' \subseteq Holders(p) PROVE PortOwnedOnce'
  BY <1>h DEF PortOwnedOnce
<1>i. ASSUME NEW p0 \in Ports, NEW o, Holders(p0)' \subseteq {o}, \A p \in Ports \ {p0} : Holders(p)' \subseteq Holders(p)
      PROVE  PortOwnedOnce'
  BY <1>i DEF PortOwnedOnce
<1>1. ASSUME NEW r \in Rules, NEW g \in Groups, NEW p \in ListenPorts, CreateRule(r, g, p) PROVE PortOwnedOnce'
  <2>1. p \in Ports /\ Holders(p)' \subseteq {r}
    BY <1>1, <1>t DEF CreateRule, PortFree, Holders, ListenPorts, RuleTypes
  <2>2. \A q \in Ports \ {p} : Holders(q)' \subseteq Holders(q)
    BY <1>1, <1>t DEF CreateRule, Holders, RuleTypes
  <2> QED BY <1>i, <2>1, <2>2
<1>2. ASSUME UNCHANGED <<portRow, exitRow, ingressRow>> PROVE PortOwnedOnce'
  BY <1>h, <1>2 DEF Holders
<1>3. ASSUME NEW e \in Exits, NEW g \in Groups, NEW p \in MaybePort, SaveExit(e, g, p) PROVE PortOwnedOnce'
  <2>1. \A q \in Ports \ {p} : Holders(q)' \subseteq Holders(q)
    BY <1>3, <1>t DEF SaveExit, Holders
  <2>2. p \in Ports => Holders(p)' \subseteq {e}
    BY <1>3, <1>t, OwnersDistinct DEF SaveExit, Holders
  <2> QED BY <1>h, <1>i, <2>1, <2>2
<1>4. ASSUME NEW w \in [Groups -> MaybePort], SyncTLSIngresses(w), UNCHANGED <<portRow, exitRow>> PROVE PortOwnedOnce'
  <2>1. ASSUME NEW q \in Ports, Keeps(w, q) PROVE \E g \in Groups : Holders(q)' \subseteq {g}
    <3>1. PICK g \in Groups : w[g] = q /\ ingressRow'[q] = g
      BY <1>4, <2>1 DEF SyncTLSIngresses, Keeps
    <3>2. portRow[q] = Nil /\ exitRow[q] = {}
      BY <1>4, <3>1, OwnersDistinct DEF SyncTLSIngresses, IngressFits
    <3> QED BY <1>4, <3>1, <3>2 DEF Holders
  <2>2. ASSUME NEW q \in Ports, ~Keeps(w, q) PROVE Holders(q)' = Holders(q)
    BY <1>4, <2>2 DEF SyncTLSIngresses, Holders
  <2> QED BY <2>1, <2>2 DEF PortOwnedOnce
<1>5. ASSUME RegisterNode PROVE PortOwnedOnce'
  BY <1>5, <1>4, <1>t DEF RegisterNode, GroupTypes
<1>6. ASSUME NEW g \in Groups, NEW p \in MaybePort, SaveGroup(g, p) PROVE PortOwnedOnce'
  <2>1. wanted' \in [Groups -> MaybePort]
    BY <1>6, <1>t DEF SaveGroup, GroupTypes
  <2>2. CASE SyncTLSIngresses(wanted')
    BY <1>4, <1>6, <2>1, <2>2 DEF SaveGroup
  <2>3. CASE UNCHANGED ingressRow
    BY <1>2, <1>6, <2>3 DEF SaveGroup
  <2> QED BY <1>6, <2>2, <2>3 DEF SaveGroup
<1>7. ASSUME NEW g \in Groups, DeleteGroup(g) PROVE PortOwnedOnce'
  BY <1>7, <1>h, <1>t DEF DeleteGroup, Holders
<1>8. ASSUME NEW ok \in BOOLEAN, UninstallResult(ok) PROVE PortOwnedOnce'
  BY <1>8, <1>h, <1>t DEF UninstallResult, Holders
<1>9. ASSUME NEW a \in acks, NEW caps \in BOOLEAN, Ack(a, caps) PROVE PortOwnedOnce'
  BY <1>9, <1>h, <1>t DEF Ack, Holders
<1>10. CASE \/ \E r, q \in Rules : CreateChild(r, q)
            \/ \E r \in Rules, g \in Groups : CreateRoute(r, g)
            \/ \E r \in Rules : UpdateRule(r) \/ DeleteRule(r)
            \/ RequestUninstall \/ UninstallEnds \/ ClaimUninstall
  BY <1>2, <1>10 DEF CreateChild, CreateRoute, UpdateRule, DeleteRule, RequestUninstall, UninstallEnds, ClaimUninstall
<1> QED BY <1>1, <1>3, <1>5, <1>6, <1>7, <1>8, <1>9, <1>10 DEF PanelStep
\* An update leaves placement and listener of a rule alone (saveRuleTx).
LEMMA UpdateFields ==
    ASSUME PortsTypeOK, NEW r \in Rules, UpdateRule(r)
    PROVE  /\ rules' = [rules EXCEPT ![r] = rules'[r]]
           /\ rules'[r].state = "live" /\ rules'[r].group = rules[r].group /\ rules'[r].parent = rules[r].parent
           /\ rules'[r].release = rules[r].release
           /\ rules[r].parent \notin Groups => rules'[r].port = rules[r].port
<1>t. rules \in [Rules -> RuleRow] /\ rules[r] \in RuleRow /\ rules[r].group \in Groups
  BY TypeParts DEF RuleTypes, GroupTypes, UpdateRule
<1> DEFINE g == rules[r].group
           p == IF rules[r].parent = g THEN wanted[g] ELSE rules[r].port
<1>1. rules' = [rules EXCEPT ![r].port = p]
  BY DEF UpdateRule
<1>2. rules[r].parent \notin Groups => p = rules[r].port
  BY <1>t
<1> HIDE DEF p
<1>3. rules'[r] = [rules[r] EXCEPT !.port = p]
  BY <1>1, <1>t
<1> QED BY <1>1, <1>2, <1>3, <1>t DEF RuleRow, UpdateRule, IsLive

\* A deleted rule waits for the version its deletion publishes.
LEMMA DeleteFields ==
    ASSUME PortsTypeOK, NEW r \in Rules, DeleteRule(r)
    PROVE  /\ rules' = [rules EXCEPT ![r] = rules'[r]]
           /\ rules'[r].state = "gone" /\ rules'[r].group = rules[r].group /\ rules'[r].parent = rules[r].parent
           /\ rules'[r].port = rules[r].port /\ rules'[r].release = Revision(1)
<1>t. rules \in [Rules -> RuleRow] /\ rules[r] \in RuleRow
  BY TypeParts DEF RuleTypes
<1>1. rules' = [rules EXCEPT ![r] = [rules[r] EXCEPT !.state = "gone", !.release = Revision(1)]]
  BY <1>t DEF DeleteRule
<1>2. rules'[r] = [rules[r] EXCEPT !.state = "gone", !.release = Revision(1)]
  BY <1>1, <1>t
<1> QED BY <1>1, <1>2, <1>t DEF RuleRow

\* What deleting a group leaves of the rules: removed ones of the group are purged.
LEMMA GroupFields ==
    ASSUME PortsTypeOK, NEW g \in Groups, DeleteGroup(g), NEW r \in Rules
    PROVE  /\ rules'[r].group = rules[r].group /\ rules'[r].parent = rules[r].parent
           /\ rules'[r].port = rules[r].port /\ rules'[r].release = rules[r].release
           /\ rules'[r].state = IF rules[r].group = g /\ rules[r].state = "gone" THEN "purged" ELSE rules[r].state
<1>t. rules[r] \in RuleRow
  BY TypeParts DEF RuleTypes
<1>1. rules'[r] = IF rules[r].group = g /\ rules[r].state = "gone" THEN [rules[r] EXCEPT !.state = "purged"] ELSE rules[r]
  BY DEF DeleteGroup
<1> QED BY <1>1, <1>t DEF RuleRow

\* The rules and cp_ports keep agreeing: a port's row names a live rule with that
\* port, or a removed one whose removal is not acknowledged (saveRuleTx, ack).
LEMMA RuleRowsStep == PortsTypeOK /\ RuleRows /\ PanelStep => RuleRows'
<1> SUFFICES ASSUME PortsTypeOK, RuleRows, PanelStep PROVE RuleRows'
  OBVIOUS
<1>t. rules \in [Rules -> RuleRow] /\ portRow \in [Ports -> Rules \cup {Nil}] /\ Nil \notin Rules \cup Groups
  BY TypeParts, OwnersDistinct DEF RuleTypes
<1>l. ASSUME NEW r \in Rules, IsLive(r), rules[r].parent = Nil PROVE rules[r].port \in Ports /\ portRow[rules[r].port] = r
  BY <1>l DEF RuleRows
<1>h. ASSUME NEW p \in Ports, portRow[p] # Nil
      PROVE  portRow[p] \in Rules /\ rules[portRow[p]].parent = Nil /\ rules[portRow[p]].state \in {"live", "gone"}
  BY <1>h, <1>t DEF RuleRows
<1>1. ASSUME NEW r \in Rules, NEW g \in Groups, NEW p \in ListenPorts, CreateRule(r, g, p) PROVE RuleRows'
  <2>1. \A q \in Ports : portRow[q] # r
    BY <1>1, <1>h, <1>t DEF CreateRule
  <2>2. /\ \A q \in Rules \ {r} : rules'[q] = rules[q]
        /\ rules'[r].state = "live" /\ rules'[r].port = p /\ rules'[r].parent = Nil
    BY <1>1, <1>t DEF CreateRule
  <2>3. p \in Ports /\ portRow[p] = Nil /\ portRow'[p] = r /\ \A q \in Ports \ {p} : portRow'[q] = portRow[q]
    BY <1>1, <1>t DEF CreateRule, PortFree, ListenPorts
  <2> QED BY <2>1, <2>2, <2>3, <1>l, <1>h, <1>t DEF RuleRows, IsLive
<1>2. ASSUME NEW r \in Rules, rules[r].state = "none", UNCHANGED portRow, rules'[r].parent \in Rules \cup Groups,
             \A q \in Rules \ {r} : rules'[q] = rules[q]
      PROVE  RuleRows'
  <2>1. \A q \in Ports : portRow[q] # r
    BY <1>2, <1>h, <1>t
  <2> QED BY <1>2, <2>1, <1>l, <1>h, <1>t DEF RuleRows, IsLive
<1>3. ASSUME NEW r \in Rules, NEW q \in Rules, CreateChild(r, q) PROVE RuleRows'
  BY <1>3, <1>2, <1>t DEF CreateChild
<1>4. ASSUME NEW r \in Rules, NEW g \in Groups, CreateRoute(r, g) PROVE RuleRows'
  BY <1>4, <1>2, <1>t DEF CreateRoute
<1>5. ASSUME NEW r \in Rules, UpdateRule(r) PROVE RuleRows'
  <2>1. UNCHANGED portRow /\ IsLive(r) /\ \A q \in Rules \ {r} : rules'[q] = rules[q]
    BY <1>5, <1>t DEF UpdateRule
  <2>2. rules'[r].state = "live" /\ rules'[r].parent = rules[r].parent /\ (rules[r].parent = Nil => rules'[r].port = rules[r].port)
    BY <1>5, <1>t, UpdateFields
  <2> QED BY <2>1, <2>2, <1>l, <1>h, <1>t DEF RuleRows, IsLive
<1>6. ASSUME NEW r \in Rules, DeleteRule(r) PROVE RuleRows'
  <2>1. UNCHANGED portRow /\ IsLive(r) /\ \A q \in Rules \ {r} : rules'[q] = rules[q]
    BY <1>6, <1>t DEF DeleteRule
  <2>2. rules'[r].state = "gone" /\ rules'[r].parent = rules[r].parent
    BY <1>6, DeleteFields
  <2> QED BY <2>1, <2>2, <1>l, <1>h, <1>t DEF RuleRows, IsLive
<1>7. ASSUME NEW g \in Groups, DeleteGroup(g) PROVE RuleRows'
  <2>1. \A q \in Ports : portRow'[q] = portRow[q] /\ (portRow[q] # Nil => rules[portRow[q]].group # g)
    BY <1>7 DEF DeleteGroup
  <2>2. \A r \in Rules : /\ rules'[r].parent = rules[r].parent /\ rules'[r].port = rules[r].port
                         /\ rules'[r].state = IF rules[r].group = g /\ rules[r].state = "gone" THEN "purged" ELSE rules[r].state
    BY <1>7, GroupFields
  <2> QED BY <2>1, <2>2, <1>l, <1>h DEF RuleRows, IsLive
<1>8. ASSUME NEW a \in acks, NEW caps \in BOOLEAN, Ack(a, caps) PROVE RuleRows'
  <2>1. rules' = rules /\ \A q \in Ports : portRow'[q] = portRow[q] \/ (portRow'[q] = Nil /\ rules[portRow[q]].state = "gone")
    BY <1>8 DEF Ack, PortReleased
  <2> QED BY <2>1, <1>l, <1>h DEF RuleRows, IsLive
<1>9. ASSUME UNCHANGED <<rules, portRow>> PROVE RuleRows'
  BY <1>9 DEF RuleRows, IsLive
<1>10. CASE \/ \E e \in Exits, g \in Groups, p \in MaybePort : SaveExit(e, g, p)
            \/ RegisterNode
            \/ \E g \in Groups, p \in MaybePort : SaveGroup(g, p)
            \/ RequestUninstall \/ UninstallEnds \/ ClaimUninstall
            \/ \E ok \in BOOLEAN : UninstallResult(ok)
  BY <1>9, <1>10 DEF SaveExit, RegisterNode, SaveGroup, RequestUninstall, UninstallEnds, ClaimUninstall, UninstallResult
<1> QED BY <1>1, <1>3, <1>4, <1>5, <1>6, <1>7, <1>8, <1>10 DEF PanelStep
\* A synchronised ingress has its row, and no group takes the row of another
\* (syncTLSIngresses).
LEMMA SyncRows ==
    ASSUME NEW w \in [Groups -> MaybePort], SyncTLSIngresses(w)
    PROVE  IngressRows'
<1> SUFFICES ASSUME NEW g \in Groups, w[g] # Nil PROVE ingressRow'[w[g]] = g /\ releases'[w[g]] = 0
  BY DEF IngressRows, SyncTLSIngresses
<1>1. w[g] \in Ports /\ Keeps(w, w[g])
  BY DEF MaybePort, Keeps
<1>2. \A h \in Groups : w[h] = w[g] => h = g
  BY DEF SyncTLSIngresses, IngressFits
<1>3. ingressRow'[w[g]] = CHOOSE h \in Groups : w[h] = w[g]
  BY <1>1 DEF SyncTLSIngresses
<1>4. ingressRow'[w[g]] = g
  BY <1>2, <1>3
<1> QED BY <1>1, <1>4 DEF SyncTLSIngresses

\* An acknowledgement and the deletion of a group leave the rows of listed
\* ingresses alone (ack, deleteGroup).
LEMMA IngressRowsStep == PortsTypeOK /\ IngressRows /\ PanelStep => IngressRows'
<1> SUFFICES ASSUME PortsTypeOK, IngressRows, PanelStep PROVE IngressRows'
  OBVIOUS
<1>t. /\ listed \in [Groups -> MaybePort] /\ releases \in [Ports -> Nat] /\ wanted \in [Groups -> MaybePort]
      /\ ingressRow \in [Ports -> Groups \cup {Nil}]
  BY TypeParts DEF IngressTypes, GroupTypes
<1>1. ASSUME RegisterNode PROVE IngressRows'
  BY <1>1, <1>t, SyncRows DEF RegisterNode
<1>2. ASSUME NEW g \in Groups, NEW p \in MaybePort, SaveGroup(g, p) PROVE IngressRows'
  <2>1. wanted' \in [Groups -> MaybePort]
    BY <1>2, <1>t DEF SaveGroup
  <2>2. CASE SyncTLSIngresses(wanted')
    BY <2>1, <2>2, SyncRows
  <2>3. CASE UNCHANGED <<listed, ingressRow, releases>>
    BY <2>3 DEF IngressRows
  <2> QED BY <1>2, <2>2, <2>3 DEF SaveGroup
<1>3. ASSUME NEW g \in Groups, DeleteGroup(g) PROVE IngressRows'
  BY <1>3, <1>t DEF DeleteGroup, IngressRows
<1>4. ASSUME NEW ok \in BOOLEAN, UninstallResult(ok) PROVE IngressRows'
  BY <1>4 DEF UninstallResult, IngressRows
<1>5. ASSUME NEW a \in acks, NEW caps \in BOOLEAN, Ack(a, caps) PROVE IngressRows'
  BY <1>5, <1>t DEF Ack, IngressRows, MaybePort
<1>6. ASSUME UNCHANGED <<listed, ingressRow, releases>> PROVE IngressRows'
  BY <1>6 DEF IngressRows
<1>7. CASE \/ \E r \in Rules, g \in Groups, p \in ListenPorts : CreateRule(r, g, p)
           \/ \E r, q \in Rules : CreateChild(r, q)
           \/ \E r \in Rules, g \in Groups : CreateRoute(r, g)
           \/ \E r \in Rules : UpdateRule(r) \/ DeleteRule(r)
           \/ \E e \in Exits, g \in Groups, p \in MaybePort : SaveExit(e, g, p)
           \/ RequestUninstall \/ UninstallEnds \/ ClaimUninstall
  BY <1>6, <1>7 DEF CreateRule, CreateChild, CreateRoute, UpdateRule, DeleteRule, SaveExit, RequestUninstall, UninstallEnds, ClaimUninstall
<1> QED BY <1>1, <1>2, <1>3, <1>4, <1>5, <1>7 DEF PanelStep

\* Nothing is published backwards, and a registered node stays one.
LEMMA DesiredGrows == PortsTypeOK /\ PanelStep => desired' \in Nat /\ desired <= desired' /\ (Registered => Registered')
<1> SUFFICES ASSUME PortsTypeOK, PanelStep PROVE desired' \in Nat /\ desired <= desired'
  BY TypeParts DEF NodeTypes, Registered
<1>t. NodeTypes
  BY TypeParts
<1>1. CASE Publish \/ UNCHANGED desired
  BY <1>1, <1>t, PublishStep DEF NodeTypes
<1>2. CASE RegisterNode \/ \E g \in Groups : DeleteGroup(g)
  BY <1>2, <1>t DEF RegisterNode, DeleteGroup, NodeTypes, Registered, Revision
<1> QED BY <1>1, <1>2 DEF PanelStep, CreateRule, CreateChild, CreateRoute, UpdateRule, DeleteRule, SaveExit, SaveGroup,
                          RequestUninstall, UninstallEnds, ClaimUninstall, UninstallResult, Ack

\* Which rules are live after a transaction: the ones before, but for one that was
\* created on an available node or deleted without children.
LEMMA LiveStep ==
    ASSUME PortsTypeOK, PanelStep
    PROVE  \/ \A r \in Rules : /\ IsLive(r)' <=> IsLive(r)
                               /\ rules'[r].parent = rules[r].parent /\ rules'[r].group = rules[r].group
           \/ /\ NodeAvailable /\ groups' = groups /\ uninstall' = uninstall
              /\ \E r \in Rules : /\ ~IsLive(r) /\ rules'[r].group \in groups
                                  /\ rules'[r].parent \in Rules => IsLive(rules'[r].parent)
                                  /\ \A q \in Rules \ {r} : rules'[q] = rules[q]
           \/ /\ groups' = groups /\ uninstall' = uninstall
              /\ \E r \in Rules : /\ IsLive(r) /\ ~IsLive(r)' /\ Children(r) = {}
                                  /\ \A q \in Rules \ {r} : rules'[q] = rules[q]
<1> DEFINE Same == \A r \in Rules : /\ IsLive(r)' <=> IsLive(r)
                                    /\ rules'[r].parent = rules[r].parent /\ rules'[r].group = rules[r].group
           New == /\ NodeAvailable /\ groups' = groups /\ uninstall' = uninstall
                  /\ \E r \in Rules : /\ ~IsLive(r) /\ rules'[r].group \in groups
                                      /\ rules'[r].parent \in Rules => IsLive(rules'[r].parent)
                                      /\ \A q \in Rules \ {r} : rules'[q] = rules[q]
           Gone == /\ groups' = groups /\ uninstall' = uninstall
                   /\ \E r \in Rules : /\ IsLive(r) /\ ~IsLive(r)' /\ Children(r) = {}
                                       /\ \A q \in Rules \ {r} : rules'[q] = rules[q]
<1>t. rules \in [Rules -> RuleRow]
  BY TypeParts DEF RuleTypes
<1>1. ASSUME NEW r \in Rules, NEW g \in Groups, NEW p \in ListenPorts, CreateRule(r, g, p) PROVE New
  <2>1. rules'[r].group = g /\ rules'[r].parent = Nil /\ \A q \in Rules \ {r} : rules'[q] = rules[q]
    BY <1>1, <1>t DEF CreateRule
  <2> QED BY <1>1, <2>1, OwnersDistinct DEF CreateRule, IsLive
<1>2. ASSUME NEW r \in Rules, NEW q \in Rules, CreateChild(r, q) PROVE New
  <2>1. rules'[r].group = rules[q].group /\ rules'[r].parent = q /\ \A x \in Rules \ {r} : rules'[x] = rules[x]
    BY <1>2, <1>t DEF CreateChild
  <2> QED BY <1>2, <2>1 DEF CreateChild, IsLive
<1>3. ASSUME NEW r \in Rules, NEW g \in Groups, CreateRoute(r, g) PROVE New
  <2>1. rules'[r].group = g /\ rules'[r].parent = g /\ \A x \in Rules \ {r} : rules'[x] = rules[x]
    BY <1>3, <1>t DEF CreateRoute
  <2> QED BY <1>3, <2>1, OwnersDistinct DEF CreateRoute, IsLive
<1>4. ASSUME NEW r \in Rules, UpdateRule(r) PROVE Same
  <2>1. \A q \in Rules \ {r} : rules'[q] = rules[q]
    BY <1>4, <1>t DEF UpdateRule
  <2> QED BY <1>4, <2>1, UpdateFields DEF UpdateRule, IsLive
<1>5. ASSUME NEW r \in Rules, DeleteRule(r) PROVE Gone
  <2>1. \A q \in Rules \ {r} : rules'[q] = rules[q]
    BY <1>5, <1>t DEF DeleteRule
  <2>2. rules'[r].state = "gone"
    BY <1>5, DeleteFields
  <2> QED BY <1>5, <2>1, <2>2 DEF DeleteRule, IsLive
<1>6. ASSUME NEW g \in Groups, DeleteGroup(g) PROVE Same
  BY <1>6, GroupFields DEF IsLive
<1>7. ASSUME UNCHANGED rules PROVE Same
  BY <1>7 DEF IsLive
<1>8. UNCHANGED rules \/ Same \/ New \/ Gone
  BY <1>1, <1>2, <1>3, <1>4, <1>5, <1>6
     DEF PanelStep, SaveExit, RegisterNode, SaveGroup, RequestUninstall, UninstallEnds, ClaimUninstall, UninstallResult, Ack
<1> QED BY <1>7, <1>8
\* No transaction leaves a shared rule without its owner or its group, or a rule on
\* a node that is being uninstalled (deleteRule, deleteGroup, canUninstallTx).
LEMMA SoundStep == PortsTypeOK /\ IngressSound /\ Lifecycle /\ PanelStep => IngressSound' /\ Lifecycle'
<1> SUFFICES ASSUME PortsTypeOK, IngressSound, Lifecycle, PanelStep PROVE IngressSound' /\ Lifecycle'
  OBVIOUS
<1>t. /\ rules \in [Rules -> RuleRow] /\ ingressRow \in [Ports -> Groups \cup {Nil}]
      /\ uninstall \in {"none", "pending", "running", "succeeded"}
  BY TypeParts DEF RuleTypes, IngressTypes, NodeTypes
<1>r. Registered => Registered'
  BY DesiredGrows
<1>u. uninstall' # "none" => uninstall # "none" \/ (Registered /\ \A r \in Rules : ~IsLive(r))
  BY DEF PanelStep, CreateRule, CreateChild, CreateRoute, UpdateRule, DeleteRule, SaveExit, RegisterNode, SaveGroup, DeleteGroup,
         RequestUninstall, UninstallEnds, ClaimUninstall, UninstallResult, Ack, NodeAvailable
<1>g. groups' = groups \/ \E g \in Groups : groups' = groups \ {g} /\ \A r \in Rules : rules[r].group = g => ~IsLive(r)
  BY DEF PanelStep, CreateRule, CreateChild, CreateRoute, UpdateRule, DeleteRule, SaveExit, RegisterNode, SaveGroup, DeleteGroup,
         RequestUninstall, UninstallEnds, ClaimUninstall, UninstallResult, Ack
<1>i. uninstall' = "succeeded" => \A p \in Ports : ingressRow'[p] = Nil
  <2> SUFFICES ASSUME uninstall' = "succeeded" PROVE \A p \in Ports : ingressRow'[p] = Nil
    OBVIOUS
  <2>1. CASE UninstallResult(TRUE)
    BY <2>1 DEF UninstallResult
  <2>2. CASE uninstall = "succeeded"
    <3>1. Registered /\ \A p \in Ports : ingressRow[p] = Nil
      BY <2>2 DEF Lifecycle, IngressSound, UninstallIsClean
    <3>2. UNCHANGED ingressRow \/ \E a \in acks, caps \in BOOLEAN : Ack(a, caps)
      BY <2>2, <3>1 DEF PanelStep, CreateRule, CreateChild, CreateRoute, UpdateRule, DeleteRule, SaveExit, RegisterNode, SaveGroup,
            DeleteGroup, RequestUninstall, UninstallEnds, ClaimUninstall, UninstallResult
    <3> QED BY <3>1, <3>2, <1>t DEF Ack
  <2>3. UninstallResult(TRUE) \/ uninstall = "succeeded"
    <3>1. \A ok \in BOOLEAN : UninstallResult(ok) => ok
      BY DEF UninstallResult
    <3> QED BY <3>1 DEF PanelStep, CreateRule, CreateChild, CreateRoute, UpdateRule, DeleteRule, SaveExit, RegisterNode, SaveGroup,
            DeleteGroup, RequestUninstall, UninstallEnds, ClaimUninstall, Ack
  <2> QED BY <2>1, <2>2, <2>3
<1>s. ASSUME NEW r \in Rules, IsLive(r)
      PROVE  Registered /\ rules[r].group \in groups /\ (rules[r].parent \in Rules => IsLive(rules[r].parent))
  BY <1>s DEF IngressSound, SharedRulesRooted, Lifecycle
<1>n. ASSUME uninstall # "none" PROVE Registered /\ \A r \in Rules : ~IsLive(r)
  BY <1>n DEF Lifecycle
<1>q. SUFFICES /\ \A r \in Rules : IsLive(r)' => Registered' /\ rules'[r].group \in groups'
                                                 /\ (rules'[r].parent \in Rules => rules'[rules'[r].parent].state = "live")
               /\ uninstall' # "none" => Registered' /\ \A r \in Rules : ~IsLive(r)'
  BY <1>i DEF IngressSound, SharedRulesRooted, UninstallIsClean, Lifecycle, IsLive
<1>1. CASE \A r \in Rules : /\ IsLive(r)' <=> IsLive(r)
                            /\ rules'[r].parent = rules[r].parent /\ rules'[r].group = rules[r].group
  <2>1. ASSUME NEW r \in Rules, IsLive(r)' PROVE Registered' /\ rules'[r].group \in groups'
    BY <1>1, <1>s, <1>g, <1>r, <2>1
  <2>2. ASSUME NEW r \in Rules, IsLive(r)', rules'[r].parent \in Rules PROVE rules'[rules'[r].parent].state = "live"
    <3> DEFINE q == rules'[r].parent
    <3>1. q = rules[r].parent /\ IsLive(r) /\ q \in Rules
      BY <1>1, <2>2
    <3>2. IsLive(q)
      BY <1>s, <3>1
    <3> HIDE DEF q
    <3>3. rules'[q].state = "live"
      BY <1>1, <3>1, <3>2 DEF IsLive
    <3> QED BY <3>3 DEF q, IsLive
  <2> QED BY <2>1, <2>2, <1>1, <1>u, <1>n, <1>r
<1>2. CASE /\ NodeAvailable /\ groups' = groups /\ uninstall' = uninstall
           /\ \E r \in Rules : /\ ~IsLive(r) /\ rules'[r].group \in groups
                               /\ rules'[r].parent \in Rules => IsLive(rules'[r].parent)
                               /\ \A q \in Rules \ {r} : rules'[q] = rules[q]
  <2>1. PICK r \in Rules : /\ ~IsLive(r) /\ rules'[r].group \in groups
                           /\ rules'[r].parent \in Rules => IsLive(rules'[r].parent)
                           /\ \A q \in Rules \ {r} : rules'[q] = rules[q]
    BY <1>2
  <2>2. uninstall' = "none" /\ Registered' /\ groups' = groups
    BY <1>2, <1>t, <1>r DEF NodeAvailable
  <2>3. ASSUME NEW q \in Rules, IsLive(q)', rules'[q].parent \in Rules PROVE rules'[rules'[q].parent].state = "live"
    <3> DEFINE x == rules'[q].parent
    <3>1. x \in Rules /\ IsLive(x)
      BY <2>1, <2>3, <1>s DEF IsLive
    <3> HIDE DEF x
    <3>2. rules'[x].state = "live"
      BY <2>1, <3>1 DEF IsLive
    <3> QED BY <3>2 DEF x, IsLive
  <2>4. ASSUME NEW q \in Rules, IsLive(q)' PROVE rules'[q].group \in groups
    BY <2>1, <2>4, <1>s DEF IsLive
  <2> QED BY <2>2, <2>3, <2>4
<1>3. CASE /\ groups' = groups /\ uninstall' = uninstall
           /\ \E r \in Rules : /\ IsLive(r) /\ ~IsLive(r)' /\ Children(r) = {}
                               /\ \A q \in Rules \ {r} : rules'[q] = rules[q]
  <2>1. PICK r \in Rules : /\ IsLive(r) /\ ~IsLive(r)' /\ Children(r) = {}
                           /\ \A q \in Rules \ {r} : rules'[q] = rules[q]
    BY <1>3
  <2>2. uninstall' = "none" /\ Registered' /\ groups' = groups
    BY <1>3, <1>n, <1>s, <1>r, <2>1
  <2>3. ASSUME NEW q \in Rules, IsLive(q)'
        PROVE  IsLive(q) /\ rules'[q] = rules[q] /\ (rules[q].parent \in Rules => rules[q].parent # r)
    BY <2>1, <2>3 DEF IsLive, Children
  <2>4. ASSUME NEW q \in Rules, IsLive(q)', rules'[q].parent \in Rules PROVE rules'[rules'[q].parent].state = "live"
    <3> DEFINE x == rules'[q].parent
    <3>1. x \in Rules \ {r} /\ IsLive(x)
      BY <2>3, <2>4, <1>s
    <3> HIDE DEF x
    <3>2. rules'[x].state = "live"
      BY <2>1, <3>1 DEF IsLive
    <3> QED BY <3>2 DEF x, IsLive
  <2> QED BY <2>2, <2>3, <2>4, <1>s
<1> QED BY <1>1, <1>2, <1>3, LiveStep

\* One transaction keeps all the rows.
LEMMA RowStep == RowInv /\ [PortsNext]_portsVars => RowInv'
<1> SUFFICES ASSUME RowInv, [PortsNext]_portsVars PROVE RowInv'
  OBVIOUS
<1>1. CASE PanelStep
  BY <1>1, PanelTypes, OwnedStep, RuleRowsStep, IngressRowsStep, SoundStep DEF RowInv
<1>2. ASSUME UNCHANGED panelVars
      PROVE  PortOwnedOnce' /\ IngressSound' /\ RuleRows' /\ IngressRows' /\ Lifecycle'
  <2>1. PortOwnedOnce' /\ RuleRows'
    BY <1>2 DEF RowInv, panelVars, PortOwnedOnce, Holders, RuleRows, IsLive, Registered
  <2>2. IngressSound'
    BY <1>2 DEF RowInv, panelVars, IngressSound, SharedRulesRooted, UninstallIsClean, IsLive
  <2>3. IngressRows' /\ Lifecycle'
    BY <1>2 DEF RowInv, panelVars, IngressRows, Lifecycle, IsLive, Registered
  <2> QED BY <2>1, <2>2, <2>3
<1>3. CASE AgentStep
  <2>1. UNCHANGED panelVars
    BY <1>3 DEF AgentStep, Fetch, ApplyPolled, ApplyLeased, Restart
  <2> QED BY <1>2, <1>3, <2>1, AgentStepTypes DEF RowInv
<1>4. CASE UNCHANGED portsVars
  <2>1. UNCHANGED panelVars /\ PortsTypeOK'
    BY <1>4 DEF portsVars, panelVars, agentVars, RowInv, PortsTypeOK
  <2> QED BY <1>2, <2>1 DEF RowInv
<1> QED BY <1>1, <1>3, <1>4 DEF PortsNext
-----------------------------------------------------------------------------
(* The listeners *)

\* A configuration that the book covers is still covered after any transaction,
\* unless a newer version is acknowledged: what is removed keeps its port until
\* the version of the removal, which is newer than every configuration there is.
LEMMA RulePortKept ==
    ASSUME RowInv, PanelStep, NEW c \in Snapshots, c.version <= desired, applied' <= c.version,
           NEW r \in Rules, NEW p \in Ports, portRow[p] = r, IsLive(r) \/ c.version < rules[r].release
    PROVE  portRow'[p] = r /\ (IsLive(r)' \/ c.version < rules'[r].release)
<1>t. /\ rules \in [Rules -> RuleRow] /\ portRow \in [Ports -> Rules \cup {Nil}] /\ Nil \notin Rules \cup Groups
      /\ desired \in Nat /\ c.version \in Nat /\ rules[r].release \in Nat /\ PortsTypeOK
  BY TypeParts, OwnersDistinct DEF RowInv, RuleTypes, NodeTypes, Snapshots, RuleRow
<1>h. rules[r].parent = Nil /\ rules[r].state \in {"live", "gone"}
  BY <1>t DEF RowInv, RuleRows
<1> DEFINE Goal == portRow'[p] = r /\ (IsLive(r)' \/ c.version < rules'[r].release)
<1>1. ASSUME NEW r0 \in Rules, NEW g \in Groups, NEW p0 \in ListenPorts, CreateRule(r0, g, p0) PROVE Goal
  <2>1. p # p0 /\ r # r0
    BY <1>1, <1>h, <1>t DEF CreateRule, PortFree
  <2> QED BY <1>1, <2>1, <1>t DEF CreateRule, IsLive
<1>2. ASSUME NEW r0 \in Rules, rules[r0].state = "none", \A q \in Rules \ {r0} : rules'[q] = rules[q], UNCHANGED portRow PROVE Goal
  <2>1. r # r0
    BY <1>2, <1>h
  <2> QED BY <1>2, <2>1 DEF IsLive
<1>3. ASSUME \/ \E r0, q \in Rules : CreateChild(r0, q)
             \/ \E r0 \in Rules, g \in Groups : CreateRoute(r0, g)
      PROVE  Goal
  BY <1>2, <1>3, <1>t DEF CreateChild, CreateRoute
<1>4. ASSUME NEW r0 \in Rules, UpdateRule(r0) PROVE Goal
  <2>1. UNCHANGED portRow /\ rules'[r0].release = rules[r0].release /\ rules'[r0].state = "live"
    BY <1>4, <1>t, UpdateFields DEF UpdateRule
  <2>2. \A q \in Rules \ {r0} : rules'[q] = rules[q]
    BY <1>4, <1>t DEF UpdateRule
  <2> QED BY <2>1, <2>2 DEF IsLive
<1>5. ASSUME NEW r0 \in Rules, DeleteRule(r0) PROVE Goal
  <2>1. UNCHANGED portRow /\ rules'[r0].release = Revision(1) /\ IsLive(r0)
    BY <1>5, <1>t, DeleteFields DEF DeleteRule
  <2>2. \A q \in Rules \ {r0} : rules'[q] = rules[q]
    BY <1>5, <1>t DEF DeleteRule
  <2>3. Revision(1) = desired + 1
    BY <2>1 DEF RowInv, Lifecycle, Revision
  <2> QED BY <2>1, <2>2, <2>3, <1>t DEF IsLive
<1>6. ASSUME NEW g \in Groups, DeleteGroup(g) PROVE Goal
  <2>1. UNCHANGED portRow /\ rules'[r].release = rules[r].release /\ (IsLive(r) => IsLive(r)')
    BY <1>6, <1>t, GroupFields DEF DeleteGroup, IsLive
  <2> QED BY <2>1
<1>7. ASSUME NEW a \in acks, NEW caps \in BOOLEAN, Ack(a, caps) PROVE Goal
  <2>1. UNCHANGED rules /\ applied' = a.applied /\ a.applied \in Nat
    BY <1>7, TypeParts DEF Ack, RowInv, AgentTypes, AckMsg
  <2>2. ~PortReleased(p, a.applied)
    BY <2>1, <1>t DEF PortReleased, IsLive
  <2>3. portRow'[p] = portRow[p]
    BY <1>7, <2>2 DEF Ack
  <2> QED BY <2>1, <2>3 DEF IsLive
<1>8. ASSUME UNCHANGED <<rules, portRow>> PROVE Goal
  BY <1>8 DEF IsLive
<1>9. CASE \/ \E e \in Exits, g \in Groups, q \in MaybePort : SaveExit(e, g, q)
           \/ RegisterNode
           \/ \E g \in Groups, q \in MaybePort : SaveGroup(g, q)
           \/ RequestUninstall \/ UninstallEnds \/ ClaimUninstall
           \/ \E ok \in BOOLEAN : UninstallResult(ok)
  BY <1>8, <1>9 DEF SaveExit, RegisterNode, SaveGroup, RequestUninstall, UninstallEnds, ClaimUninstall, UninstallResult
<1> QED BY <1>1, <1>3, <1>4, <1>5, <1>6, <1>7, <1>9 DEF PanelStep

\* The same for the port of a shared ingress: syncTLSIngresses releases it with the
\* version it publishes, and only an acknowledgement of that version frees it.
LEMMA IngressPortKept ==
    ASSUME RowInv, PanelStep, NEW c \in Snapshots, c.version <= desired, applied' <= c.version, uninstall' # "succeeded",
           NEW g \in Groups, NEW p \in Ports, ingressRow[p] = g, releases[p] = 0 \/ c.version < releases[p]
    PROVE  ingressRow'[p] = g /\ (releases'[p] = 0 \/ c.version < releases'[p])
<1>t. /\ ingressRow \in [Ports -> Groups \cup {Nil}] /\ releases \in [Ports -> Nat] /\ Nil \notin Rules \cup Groups
      /\ desired \in Nat /\ c.version \in Nat /\ wanted \in [Groups -> MaybePort]
  BY TypeParts, OwnersDistinct DEF RowInv, IngressTypes, NodeTypes, GroupTypes, Snapshots
<1> DEFINE Goal == ingressRow'[p] = g /\ (releases'[p] = 0 \/ c.version < releases'[p])
<1>1. ASSUME NEW w \in [Groups -> MaybePort], SyncTLSIngresses(w) PROVE Goal
  <2>1. CASE Keeps(w, p)
    <3>1. PICK h \in Groups : w[h] = p /\ ingressRow'[p] = h
      BY <1>1, <2>1 DEF SyncTLSIngresses, Keeps
    <3>2. ingressRow[p] \in {Nil, h}
      BY <1>1, <3>1, OwnersDistinct DEF SyncTLSIngresses, IngressFits
    <3>3. releases'[p] = 0
      BY <1>1, <2>1 DEF SyncTLSIngresses
    <3> QED BY <3>1, <3>2, <3>3, <1>t
  <2>2. CASE ~Keeps(w, p)
    <3>1. ingressRow'[p] = g /\ releases'[p] \in {desired + 1, releases[p]}
      BY <1>1, <2>2 DEF SyncTLSIngresses
    <3> QED BY <3>1, <1>t
  <2> QED BY <2>1, <2>2
<1>2. ASSUME UNCHANGED <<ingressRow, releases>> PROVE Goal
  BY <1>2
<1>3. ASSUME RegisterNode PROVE Goal
  BY <1>1, <1>3, <1>t DEF RegisterNode
<1>4. ASSUME NEW h \in Groups, NEW q \in MaybePort, SaveGroup(h, q) PROVE Goal
  <2>1. wanted' \in [Groups -> MaybePort]
    BY <1>4, <1>t DEF SaveGroup
  <2>2. SyncTLSIngresses(wanted') \/ UNCHANGED <<ingressRow, releases>>
    BY <1>4 DEF SaveGroup
  <2> QED BY <1>1, <1>2, <2>1, <2>2
<1>5. ASSUME NEW ok \in BOOLEAN, UninstallResult(ok) PROVE Goal
  BY <1>2, <1>5 DEF UninstallResult
<1>6. ASSUME NEW a \in acks, NEW caps \in BOOLEAN, Ack(a, caps) PROVE Goal
  <2>1. applied' = a.applied /\ a.applied \in Nat
    BY <1>6, TypeParts DEF Ack, RowInv, AgentTypes, AckMsg
  <2>2. ~(releases[p] > 0 /\ releases[p] <= a.applied)
    BY <2>1, <1>t
  <2> QED BY <1>6, <2>2 DEF Ack
<1>7. CASE \/ \E r \in Rules, h \in Groups, q \in ListenPorts : CreateRule(r, h, q)
           \/ \E r, q \in Rules : CreateChild(r, q)
           \/ \E r \in Rules, h \in Groups : CreateRoute(r, h)
           \/ \E r \in Rules : UpdateRule(r) \/ DeleteRule(r)
           \/ \E e \in Exits, h \in Groups, q \in MaybePort : SaveExit(e, h, q)
           \/ \E h \in Groups : DeleteGroup(h)
           \/ RequestUninstall \/ UninstallEnds \/ ClaimUninstall
  BY <1>2, <1>7 DEF CreateRule, CreateChild, CreateRoute, UpdateRule, DeleteRule, SaveExit, DeleteGroup,
                    RequestUninstall, UninstallEnds, ClaimUninstall
<1> QED BY <1>3, <1>4, <1>5, <1>6, <1>7 DEF PanelStep
\* What the Agent runs or may come to run stays covered while the panel works, and
\* stays at or above every version that is acknowledged (all handlers).
LEMMA PanelKeepsCover == PortsInv /\ PanelStep => AllCovered' /\ Floor'
<1> SUFFICES ASSUME PortsInv, PanelStep PROVE AllCovered' /\ Floor'
  OBVIOUS
<1>r. RowInv /\ PortsTypeOK /\ PortsTypeOK' /\ desired <= desired'
  BY PanelTypes, DesiredGrows DEF PortsInv, RowInv
<1>a. UNCHANGED agentVars
  BY DEF PanelStep, CreateRule, CreateChild, CreateRoute, UpdateRule, DeleteRule, SaveExit, RegisterNode, SaveGroup, DeleteGroup,
         RequestUninstall, UninstallEnds, ClaimUninstall, UninstallResult, Ack
<1>c. Configurations' = Configurations /\ Configurations \subseteq Snapshots
  BY <1>a, <1>r, TypeParts DEF agentVars, Configurations, AgentTypes
<1>v. applied' \in Confirmed /\ applied <= applied' /\ applied \in Nat /\ applied' \in Nat /\ desired \in Nat /\ desired' \in Nat
  <2>1. applied \in Nat /\ applied' \in Nat /\ desired \in Nat /\ desired' \in Nat
    BY <1>r DEF PortsTypeOK
  <2>2. applied' = applied \/ \E a \in acks : applied' = a.applied /\ applied <= a.applied
    BY DEF PanelStep, CreateRule, CreateChild, CreateRoute, UpdateRule, DeleteRule, SaveExit, RegisterNode, SaveGroup, DeleteGroup,
         RequestUninstall, UninstallEnds, ClaimUninstall, UninstallResult, Ack
  <2> QED BY <2>1, <2>2 DEF Confirmed
<1>u. uninstall' # "succeeded" => uninstall # "succeeded"
  BY DEF PanelStep, CreateRule, CreateChild, CreateRoute, UpdateRule, DeleteRule, SaveExit, RegisterNode, SaveGroup, DeleteGroup,
         RequestUninstall, UninstallEnds, ClaimUninstall, UninstallResult, Ack, NodeAvailable
<1>1. Floor'
  <2>1. Confirmed' \subseteq Confirmed
    BY <1>a, <1>v DEF Confirmed, agentVars
  <2>2. \A c \in Configurations : c.version <= desired' /\ (c.version = 0 => c = NoSnapshot)
    BY <1>c, <1>r, <1>v DEF PortsInv, Floor, Snapshots
  <2>3. /\ running = stored \/ running = NoSnapshot
        /\ \A v \in Confirmed :
             /\ v <= stored.version
             /\ \/ v <= running.version
                \/ running = NoSnapshot /\ \A f \in Fetchers : fetched[f] = NoSnapshot \/ v <= fetched[f].version
    BY DEF PortsInv, Floor
  <2>4. running' = running /\ stored' = stored /\ fetched' = fetched
    BY <1>a DEF agentVars
  <2> QED BY <1>c, <2>1, <2>2, <2>3, <2>4 DEF Floor
<1>2. AllCovered'
  <2> SUFFICES ASSUME uninstall' # "succeeded", NEW c \in Configurations, applied' <= c.version, NEW l \in c.listens
               PROVE  /\ l[1] \in Rules => /\ portRow'[l[2]] = l[1]
                                           /\ IsLive(l[1])' \/ c.version < rules'[l[1]].release
                      /\ l[1] \in Groups => /\ ingressRow'[l[2]] = l[1]
                                            /\ releases'[l[2]] = 0 \/ c.version < releases'[l[2]]
    BY <1>c DEF AllCovered, Covered, IsLive
  <2>1. c \in Snapshots /\ c.version \in Nat /\ c.version <= desired /\ l[2] \in Ports
    BY <1>c DEF PortsInv, Floor, Snapshots
  <2>2. applied <= c.version
    BY <1>v, <2>1
  <2>3. Covered(c)
    BY <1>u, <2>2 DEF PortsInv, AllCovered
  <2>4. ASSUME l[1] \in Rules PROVE portRow'[l[2]] = l[1] /\ (IsLive(l[1])' \/ c.version < rules'[l[1]].release)
    BY <1>r, <2>1, <2>3, <2>4, RulePortKept DEF Covered
  <2>5. ASSUME l[1] \in Groups PROVE ingressRow'[l[2]] = l[1] /\ (releases'[l[2]] = 0 \/ c.version < releases'[l[2]])
    BY <1>r, <2>1, <2>3, <2>5, IngressPortKept DEF Covered
  <2> QED BY <2>4, <2>5
<1> QED BY <1>1, <1>2

\* What the panel snapshots is covered by its book at that moment (nodeConfig).
LEMMA FetchedIsCovered ==
    ASSUME RowInv, NEW S \in SUBSET Eligible, NEW caps \in BOOLEAN
    PROVE  Covered(NodeConfig(S, caps))
<1> DEFINE c == NodeConfig(S, caps)
<1> SUFFICES ASSUME NEW l \in c.listens
             PROVE  /\ l[1] \in Rules => portRow[l[2]] = l[1] /\ IsLive(l[1])
                    /\ l[1] \in Groups => ingressRow[l[2]] = l[1] /\ releases[l[2]] = 0
  BY DEF Covered
<1>t. groups \subseteq Groups
  BY TypeParts DEF RowInv, GroupTypes
<1>1. ASSUME l[1] \in Rules PROVE portRow[l[2]] = l[1] /\ IsLive(l[1])
  <2>1. PICK r \in S \cap Rules : rules[r].parent = Nil /\ l = <<r, rules[r].port>>
    BY <1>1, <1>t, OwnersDistinct DEF NodeConfig
  <2>2. IsLive(r)
    BY <2>1, OwnersDistinct DEF Eligible
  <2> QED BY <2>1, <2>2 DEF RowInv, RuleRows
<1>2. ASSUME l[1] \in Groups PROVE ingressRow[l[2]] = l[1] /\ releases[l[2]] = 0
  <2>1. PICK g \in groups : listed[g] # Nil /\ l = <<g, listed[g]>>
    BY <1>2, OwnersDistinct DEF NodeConfig
  <2> QED BY <2>1, <1>t DEF RowInv, IngressRows
<1> QED BY <1>1, <1>2
\* The Agent never goes back behind a version it acknowledged or may still
\* acknowledge: an older answer is dropped or replaced by the stored configuration,
\* and a restart forgets the answers under way (syncConfig, applyLeaseConfig).
LEMMA AgentKeepsCover == PortsInv /\ AgentStep => AllCovered' /\ Floor'
<1> SUFFICES ASSUME PortsInv, AgentStep PROVE AllCovered' /\ Floor'
  OBVIOUS
<1>p. UNCHANGED panelVars
  BY DEF AgentStep, Fetch, ApplyPolled, ApplyLeased, Restart
<1>q. /\ rules' = rules /\ portRow' = portRow /\ ingressRow' = ingressRow /\ releases' = releases
      /\ desired' = desired /\ applied' = applied /\ uninstall' = uninstall
  BY <1>p DEF panelVars
<1>t. /\ RowInv /\ running \in Snapshots /\ stored \in Snapshots /\ fetched \in [Fetchers -> Snapshots]
      /\ desired \in Nat /\ applied \in Nat /\ acks \subseteq AckMsg
  BY TypeParts DEF PortsInv, RowInv, AgentTypes, NodeTypes
<1>f. /\ running = stored \/ running = NoSnapshot
      /\ \A c \in Configurations : c.version <= desired /\ (c.version = 0 => c = NoSnapshot)
      /\ \A v \in Confirmed :
           /\ v <= stored.version
           /\ \/ v <= running.version
              \/ running = NoSnapshot /\ \A f \in Fetchers : fetched[f] = NoSnapshot \/ v <= fetched[f].version
  BY DEF PortsInv, Floor
<1>n. NoSnapshot.version = 0 /\ NoSnapshot.listens = {} /\ NoSnapshot \in Snapshots
  BY DEF NoSnapshot, Snapshots
<1>w. /\ \A c \in Snapshots : c.version \in Nat
      /\ \A v \in Confirmed : v \in Nat
  BY <1>t DEF Snapshots, Confirmed, AckMsg
<1>k. \A c : Covered(c)' <=> Covered(c)
  BY <1>q DEF Covered, IsLive
<1>a. ASSUME NEW d, d \in Snapshots, d.version <= desired, d.version = 0 => d = NoSnapshot, Covered(d),
             Configurations' \subseteq Configurations \cup {d}
      PROVE  AllCovered' /\ \A c \in Configurations' : c.version <= desired' /\ (c.version = 0 => c = NoSnapshot)
  <2>1. \A c \in Configurations' : c.version <= desired' /\ (c.version = 0 => c = NoSnapshot)
    BY <1>a, <1>q, <1>f
  <2>2. AllCovered'
    <3> SUFFICES ASSUME uninstall # "succeeded", NEW c \in Configurations', applied <= c.version PROVE Covered(c)
      BY <1>q, <1>k DEF AllCovered, Covered, IsLive
    <3> QED BY <1>a DEF PortsInv, AllCovered
  <2> QED BY <2>1, <2>2
<1>b. Covered(NoSnapshot) /\ NoSnapshot.version <= desired
  <2>1. Covered(NoSnapshot)
    BY <1>n, Zenon DEF Covered
  <2> QED BY <1>n, <1>t, <2>1
<1>c. ASSUME Configurations' \subseteq Configurations \cup {NoSnapshot},
             running' = stored' \/ running' = NoSnapshot,
             \A v \in Confirmed' :
                /\ v <= stored'.version
                /\ v <= running'.version \/ (running' = NoSnapshot /\ \A f \in Fetchers : fetched'[f] = NoSnapshot \/ v <= fetched'[f].version)
      PROVE  AllCovered' /\ Floor'
  BY <1>a, <1>b, <1>c, <1>n DEF Floor
<1>1. ASSUME NEW f \in Fetchers, Fetch(f) PROVE AllCovered' /\ Floor'
  <2>1. PICK S \in SUBSET Eligible, caps \in BOOLEAN : fetched' = [fetched EXCEPT ![f] = NodeConfig(S, caps)]
    BY <1>1 DEF Fetch
  <2> DEFINE d == NodeConfig(S, caps)
  <2>2. d \in Snapshots /\ Covered(d)
    BY <1>t, ConfigTypes, FetchedIsCovered DEF RowInv
  <2>3. d.version = desired /\ desired > 0
    BY <1>1 DEF NodeConfig, Fetch, Connected, Registered
  <2> HIDE DEF d
  <2>4. running' = running /\ stored' = stored /\ acks' = acks /\ fetched'[f] = d /\ \A g \in Fetchers \ {f} : fetched'[g] = fetched[g]
    BY <1>1, <1>t, <2>1 DEF Fetch, d
  <2>5. Configurations' \subseteq Configurations \cup {d}
    BY <2>4 DEF Configurations
  <2>6. Confirmed' = Confirmed
    BY <2>4, <1>q DEF Confirmed
  <2>7. \A v \in Confirmed : v <= desired
    BY <1>f, <1>w, <1>t DEF Configurations
  <2>8. AllCovered' /\ \A c \in Configurations' : c.version <= desired' /\ (c.version = 0 => c = NoSnapshot)
    BY <1>a, <1>t, <2>2, <2>3, <2>5
  <2>9. ASSUME NEW v \in Confirmed
        PROVE  /\ v <= stored.version
               /\ v <= running.version \/ (running = NoSnapshot /\ \A g \in Fetchers : fetched'[g] = NoSnapshot \/ v <= fetched'[g].version)
    BY <1>f, <2>3, <2>4, <2>7
  <2> QED BY <1>f, <2>4, <2>6, <2>8, <2>9 DEF Floor
<1>2. ASSUME NEW f \in Fetchers, NEW c \in Snapshots, fetched' = [fetched EXCEPT ![f] = NoSnapshot],
             c = fetched[f] \/ c = stored, running' = c, stored' = c, \A v \in Confirmed' : v <= c.version
      PROVE  AllCovered' /\ Floor'
  <2>1. Configurations' \subseteq Configurations \cup {NoSnapshot}
    BY <1>2, <1>t DEF Configurations
  <2> QED BY <1>2, <1>c, <2>1
<1>3. ASSUME NEW f \in Fetchers, fetched' = [fetched EXCEPT ![f] = NoSnapshot], UNCHANGED <<running, stored>>,
             \A v \in Confirmed' : v \in Confirmed \/ v = running.version
      PROVE  AllCovered' /\ Floor'
  <2>1. Configurations' \subseteq Configurations \cup {NoSnapshot}
    BY <1>3, <1>t DEF Configurations
  <2>2. running.version <= stored.version /\ running.version <= running.version
    BY <1>f, <1>n, <1>t, <1>w
  <2>3. \A g \in Fetchers : fetched'[g] = NoSnapshot \/ fetched'[g] = fetched[g]
    BY <1>3, <1>t
  <2>4. ASSUME NEW v \in Confirmed'
        PROVE  /\ v <= stored.version
               /\ v <= running.version \/ (running = NoSnapshot /\ \A g \in Fetchers : fetched'[g] = NoSnapshot \/ v <= fetched'[g].version)
    <3>1. CASE v = running.version
      BY <2>2, <3>1
    <3>2. CASE v \in Confirmed
      BY <1>f, <2>3, <3>2
    <3> QED BY <1>3, <3>1, <3>2
  <2>5. running' = running /\ stored' = stored
    BY <1>3
  <2> QED BY <1>c, <1>f, <2>1, <2>4, <2>5
<1>4. ASSUME NEW f \in Fetchers, fetched[f] # NoSnapshot, running.version <= fetched[f].version, NEW v \in Confirmed
      PROVE  v <= fetched[f].version
  BY <1>4, <1>f, <1>w, <1>t
<1>5. ASSUME ApplyPolled PROVE AllCovered' /\ Floor'
  <2> DEFINE c == IF fetched["poll"].version < running.version THEN stored ELSE fetched["poll"]
             good == [version |-> c.version, applied |-> c.version, ok |-> TRUE]
             bad == [version |-> c.version, applied |-> running.version, ok |-> FALSE]
  <2>1. /\ fetched["poll"] # NoSnapshot /\ fetched' = [fetched EXCEPT !["poll"] = NoSnapshot]
        /\ \/ running' = c /\ stored' = c /\ SendAck(good)
           \/ SendAck(bad) /\ UNCHANGED <<running, stored>>
    BY <1>5 DEF ApplyPolled
  <2>2. "poll" \in Fetchers /\ fetched["poll"] \in Snapshots
    BY <1>t DEF Fetchers
  <2>3. c \in Snapshots /\ (c = stored \/ c = fetched["poll"])
    BY <2>2, <1>t
  <2>4. \A v \in Confirmed : v <= c.version
    <3>1. CASE fetched["poll"].version < running.version
      BY <3>1, <1>f
    <3>2. CASE ~(fetched["poll"].version < running.version)
      <4>1. running.version <= fetched["poll"].version
        BY <3>2, <2>2, <1>t, <1>w
      <4> QED BY <4>1, <3>2, <2>1, <2>2, <1>4
    <3> QED BY <3>1, <3>2
  <2> HIDE DEF c
  <2>5. c.version <= c.version
    BY <2>3, <1>w
  <2>6. CASE running' = c /\ stored' = c /\ SendAck(good)
    <3>1. \A a \in acks' : a \in acks \/ a = good
      BY <2>6 DEF SendAck
    <3>2. \A v \in Confirmed' : v \in Confirmed \/ v = c.version
      BY <3>1, <1>q DEF Confirmed
    <3>3. \A v \in Confirmed' : v <= c.version
      BY <3>2, <2>4, <2>5
    <3> QED BY <1>2, <2>1, <2>2, <2>3, <2>6, <3>3
  <2>7. CASE SendAck(bad) /\ UNCHANGED <<running, stored>>
    <3>1. \A a \in acks' : a \in acks \/ a = bad
      BY <2>7 DEF SendAck
    <3>2. \A v \in Confirmed' : v \in Confirmed \/ v = running.version
      <4> SUFFICES ASSUME NEW a \in acks' PROVE a.applied \in Confirmed \/ a.applied = running.version
        BY <1>q DEF Confirmed
      <4> QED BY <3>1 DEF Confirmed
    <3> QED BY <1>3, <2>1, <2>2, <2>7, <3>2
  <2> QED BY <2>1, <2>6, <2>7
<1>6. ASSUME ApplyLeased PROVE AllCovered' /\ Floor'
  <2>1. "lease" \in Fetchers /\ fetched["lease"] \in Snapshots /\ Confirmed' = Confirmed
    BY <1>6, <1>t, <1>q DEF Fetchers, Confirmed, ApplyLeased
  <2>2. fetched["lease"] # NoSnapshot /\ fetched' = [fetched EXCEPT !["lease"] = NoSnapshot]
    BY <1>6 DEF ApplyLeased
  <2>3. CASE fetched["lease"].version > running.version /\ running' = fetched["lease"] /\ stored' = fetched["lease"]
    <3>1. running.version <= fetched["lease"].version
      BY <2>1, <2>3, <1>t, <1>w
    <3> QED BY <1>2, <1>4, <2>1, <2>2, <2>3, <3>1
  <2>4. CASE UNCHANGED <<running, stored>>
    BY <1>3, <2>1, <2>2, <2>4
  <2> QED BY <1>6, <2>3, <2>4 DEF ApplyLeased
<1>7. ASSUME Restart PROVE AllCovered' /\ Floor'
  <2>1. running' \in {stored, NoSnapshot} /\ stored' = stored /\ acks' = acks /\ \A g \in Fetchers : fetched'[g] = NoSnapshot
    BY <1>7 DEF Restart
  <2>2. Configurations' \subseteq Configurations \cup {NoSnapshot} /\ Confirmed' = Confirmed
    BY <2>1, <1>q DEF Configurations, Confirmed
  <2> QED BY <1>c, <1>f, <2>1, <2>2
<1> QED BY <1>1, <1>5, <1>6, <1>7 DEF AgentStep
-----------------------------------------------------------------------------
\* PortsInv is inductive.
LEMMA PortsInduction == PortsSpec => []PortsInv
<1>1. PortsInit => PortsInv
  <2> SUFFICES ASSUME PortsInit PROVE PortsInv
    OBVIOUS
  <2>1. PortsTypeOK
    BY DEF PortsInit, PortsTypeOK, NoRule, NoExit, NoSnapshot, RuleRow, ExitRec, Snapshots, MaybePort
  <2>2. PortOwnedOnce /\ IngressSound /\ RuleRows /\ IngressRows /\ Lifecycle
    BY DEF PortsInit, PortOwnedOnce, Holders, IngressSound, SharedRulesRooted, UninstallIsClean, RuleRows, IngressRows, Lifecycle,
           IsLive, NoRule
  <2>3. Configurations = {NoSnapshot} /\ Confirmed = {0} /\ desired = 0
    BY DEF PortsInit, Configurations, Confirmed, Fetchers
  <2>4. NoSnapshot.version = 0 /\ NoSnapshot.listens = {} /\ 0 <= 0
    BY DEF NoSnapshot
  <2>5. AllCovered /\ Floor
    BY <2>3, <2>4 DEF PortsInit, AllCovered, Covered, Floor
  <2> QED BY <2>1, <2>2, <2>5 DEF PortsInv, RowInv
<1>2. PortsInv /\ [PortsNext]_portsVars => PortsInv'
  <2> SUFFICES ASSUME PortsInv, [PortsNext]_portsVars PROVE PortsInv'
    OBVIOUS
  <2>1. RowInv'
    BY RowStep DEF PortsInv
  <2>2. CASE UNCHANGED portsVars
    <3>1. Configurations' = Configurations /\ Confirmed' = Confirmed /\ desired' = desired /\ running' = running /\ stored' = stored
          /\ fetched' = fetched /\ applied' = applied /\ uninstall' = uninstall /\ rules' = rules /\ portRow' = portRow
          /\ ingressRow' = ingressRow /\ releases' = releases
      BY <2>2 DEF portsVars, panelVars, agentVars, Configurations, Confirmed
    <3> QED BY <2>1, <3>1 DEF PortsInv, AllCovered, Covered, Floor, IsLive
  <2> QED BY <2>1, <2>2, PanelKeepsCover, AgentKeepsCover DEF PortsInv, PortsNext
<1> QED BY <1>1, <1>2, PTL DEF PortsSpec

\* Every table of the book keeps its shape, and a port of the node has one owner at
\* most, for any number of rules, exits, groups and ports and any order of saveRule,
\* saveExit, saveGroup, their deletions, acknowledgements and uninstalls.
THEOREM PortsAreOwnedOnce == PortsSpec => [](PortsTypeOK /\ PortOwnedOnce)
<1>1. PortsInv => PortsTypeOK /\ PortOwnedOnce
  BY DEF PortsInv, RowInv
<1> QED BY <1>1, PortsInduction, PTL

\* Shared rules keep their owners and an uninstalled node keeps nothing, for any
\* number of rules and groups (deleteRule, deleteGroup, agentControlResult).
THEOREM IngressesAreSound == PortsSpec => []IngressSound
<1>1. PortsInv => IngressSound
  BY DEF PortsInv, RowInv
<1> QED BY <1>1, PortsInduction, PTL

\* The Agent never listens for a rule or an ingress on a port that the panel could
\* give to somebody else, however late, lost or repeated answers and acknowledgements
\* are, across restarts (nodeConfig, syncConfig, applyLeaseConfig, ack).
THEOREM ListenersHoldTheirPorts == PortsSpec => []ListenerHoldsPort
<1>1. PortsInv => ListenerHoldsPort
  <2> SUFFICES ASSUME PortsInv, Connected, NEW l \in running.listens
               PROVE  (l[1] \in Rules => portRow[l[2]] = l[1]) /\ (l[1] \in Groups => ingressRow[l[2]] = l[1])
    BY DEF ListenerHoldsPort
  <2>1. running # NoSnapshot
    BY DEF NoSnapshot
  <2>2. applied <= running.version
    BY <2>1 DEF PortsInv, Floor, Confirmed
  <2>3. Covered(running)
    BY <2>2 DEF PortsInv, AllCovered, Connected, Configurations
  <2> QED BY <2>3 DEF Covered
<1> QED BY <1>1, PortsInduction, PTL
=============================================================================
