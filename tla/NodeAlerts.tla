------------------------------ MODULE NodeAlerts -----------------------------
(***************************************************************************)
(* Alerts about nodes (internal/alerts/alerts.go). Agents leave heartbeats  *)
(* in cp_nodes; every ten seconds the panel reads one page of nodes, keeps  *)
(* those whose state would change, and settles each in a transaction of its *)
(* own that decides afresh, writes cp_alert_nodes and emits the event.      *)
(*                                                                         *)
(* Between the page and a node's transaction heartbeats arrive, time passes *)
(* and an administrator edits the policy; the scan keeps the policy it read.*)
(* A transaction that fails ends the scan, the cursor already moved. A      *)
(* panel that restarts forgets the cursor and when it started.              *)
(***************************************************************************)
EXTENDS Naturals, Sequences, SequencesExt

CONSTANTS
  Nodes,       \* node ids, numbers: a page is read in their order
  Page,        \* rows of a page (1000 in the code)
  Policies,    \* [enabled, offline, recovery]: what an administrator may set
  Default,     \* the policy until then
  MaxTime,     \* bound: the clock
  MaxTurns     \* bound: policy updates, restarts and failed transactions

VARIABLES
  now,
  seen,     \* cp_nodes.last_seen, 0 before the first heartbeat
  policy,   \* cp_alert_policy
  row,      \* cp_alert_nodes; status "" where a node has no row
  monitor,  \* Manager.startedAt (0: no scan yet) and nodeCursor
  scan,     \* the scan under way: the policy it read, the nodes it has left
  told,     \* the events emitted about each node
  turns

alertVars == <<now, seen, policy, row, monitor, scan, told, turns>>

NoRow == [status |-> "", observed |-> 0, recovery |-> 0]
NoScan == [active |-> FALSE, policy |-> Default, todo |-> <<>>]
Started == [started |-> 0, cursor |-> 0]

AlertsInit ==
  /\ now = 1
  /\ seen = [n \in Nodes |-> 0]
  /\ policy = Default
  /\ row = [n \in Nodes |-> NoRow]
  /\ monitor = Started
  /\ scan = NoScan
  /\ told = [n \in Nodes |-> <<>>]
  /\ turns = 0
-----------------------------------------------------------------------------
(* The world: time, heartbeats, the administrator. *)

Tick ==
  /\ now < MaxTime
  /\ now' = now + 1
  /\ UNCHANGED <<seen, policy, row, monitor, scan, told, turns>>

Heartbeat(n) ==
  /\ seen' = [seen EXCEPT ![n] = now]
  /\ UNCHANGED <<now, policy, row, monitor, scan, told, turns>>

\* An update that carries another version than the stored one is refused.
SetPolicy(p) ==
  /\ turns < MaxTurns
  /\ policy' = p
  /\ turns' = turns + 1
  /\ UNCHANGED <<now, seen, row, monitor, scan, told>>
-----------------------------------------------------------------------------
(* What a scan decides about a node. *)

Ago(t) == now - t
Online(last, p) == last > 0 /\ Ago(last) < p.offline

\* The row and the event, "" for none, that follow from a row and a heartbeat.
Silent(r, last, p) ==
  IF r.status # "offline" /\ Ago(IF last = 0 THEN r.observed ELSE last) >= p.offline
  THEN [row |-> [r EXCEPT !.recovery = 0, !.status = "offline"], event |-> "node.offline"]
  ELSE [row |-> [r EXCEPT !.recovery = 0], event |-> ""]

Heard(r, last, p) ==
  LET since == IF r.recovery = 0 THEN now ELSE r.recovery
  IN CASE r.status = "unknown" -> [row |-> [r EXCEPT !.status = "online"], event |-> ""]
       [] r.status = "online" -> [row |-> r, event |-> ""]
       [] r.status = "offline" ->
            IF Ago(since) >= p.recovery /\ last > since
            THEN [row |-> [r EXCEPT !.status = "online", !.recovery = 0], event |-> "node.recovered"]
            ELSE [row |-> [r EXCEPT !.recovery = since], event |-> ""]

transition(old, last, p) ==
  LET first == [status |-> "unknown", observed |-> now, recovery |-> 0]
      r == IF old.status = "" THEN first ELSE old
  IN IF old.status = "" /\ last > 0
     THEN [row |-> [first EXCEPT !.status = "online"], event |-> "node.online"]
     ELSE IF Online(last, p) THEN Heard(r, last, p) ELSE Silent(r, last, p)

\* After a start the panel lets its Agents come back before it declares a loss.
NoGrace(p, m) == FALSE
InGrace(p, m) == now - m.started < p.offline

Changes(n, p, m) ==
  LET t == transition(row[n], seen[n], p)
  IN t.row # row[n] /\ ~(t.event = "node.offline" /\ InGrace(p, m))
-----------------------------------------------------------------------------
(* RunOnce. *)

RowsAfter(c) == LET rest == SetToSortSeq({n \in Nodes : n > c}, <) IN SubSeq(rest, 1, IF Len(rest) < Page THEN Len(rest) ELSE Page)

\* The page's last id, or the start again when the page was not full.
SticksAtEnd(page) == IF page = <<>> THEN monitor.cursor ELSE Last(page)
NextCursor(page) == IF Len(page) < Page THEN 0 ELSE Last(page)

\* One query returns the page; the loop over it keeps the nodes that change.
ReadPage ==
  /\ ~scan.active
  /\ LET m == IF monitor.started = 0 THEN [monitor EXCEPT !.started = now] ELSE monitor
         page == RowsAfter(m.cursor)
     IN IF policy.enabled
        THEN /\ monitor' = [m EXCEPT !.cursor = NextCursor(page)]
             /\ scan' = [active |-> TRUE, policy |-> policy,
                         todo |-> SelectSeq(page, LAMBDA n : Changes(n, policy, m))]
        ELSE monitor' = m /\ UNCHANGED scan
  /\ UNCHANGED <<now, seen, policy, row, told, turns>>

monitorNode ==
  /\ scan.todo # <<>>
  /\ LET n == Head(scan.todo)
         t == transition(row[n], seen[n], scan.policy)
     IN IF Changes(n, scan.policy, monitor)
        THEN /\ row' = [row EXCEPT ![n] = t.row]
             /\ told' = IF t.event = "" THEN told ELSE [told EXCEPT ![n] = Append(@, t.event)]
        ELSE UNCHANGED <<row, told>>
  /\ scan' = [scan EXCEPT !.todo = Tail(@)]
  /\ UNCHANGED <<now, seen, policy, monitor, turns>>

\* The page's query or a transaction failed: RunOnce returns, the cursor moved.
Fails ==
  /\ scan.active /\ turns < MaxTurns
  /\ scan' = NoScan
  /\ turns' = turns + 1
  /\ UNCHANGED <<now, seen, policy, row, monitor, told>>

End ==
  /\ scan.active /\ scan.todo = <<>>
  /\ scan' = NoScan
  /\ UNCHANGED <<now, seen, policy, row, monitor, told, turns>>

Restart ==
  /\ turns < MaxTurns
  /\ turns' = turns + 1
  /\ monitor' = Started
  /\ scan' = NoScan
  /\ UNCHANGED <<now, seen, policy, row, told>>

RunOnce == ReadPage \/ monitorNode \/ End

AlertsNext ==
  \/ Tick
  \/ \E n \in Nodes : Heartbeat(n)
  \/ \E p \in Policies : SetPolicy(p)
  \/ ReadPage \/ monitorNode \/ End
  \/ Fails \/ Restart

\* Manager.Run scans for as long as the panel lives.
AlertsSpec == AlertsInit /\ [][AlertsNext]_alertVars /\ WF_alertVars(RunOnce)
-----------------------------------------------------------------------------
(* Properties. *)

\* The events about a node take turns: node.online at most once and first, and
\* node.recovered only after the node.offline it answers, across restarts,
\* failed transactions and pages read twice (the row is the one memory).
EventsTakeTurns ==
  \A n \in Nodes : \A i \in 1..Len(told[n]) :
    CASE told[n][i] = "node.online" -> i = 1
      [] told[n][i] = "node.recovered" -> i > 1 /\ told[n][i - 1] = "node.offline"
      [] told[n][i] = "node.offline" -> i = 1 \/ told[n][i - 1] # "node.offline"

\* node.offline is emitted only about a node that is silent at that moment for
\* as long as the scan's policy asks, by a panel that has been up for as long:
\* monitorNode decides again what the page had found.
LossIsReal ==
  \A n \in Nodes :
    Len(told'[n]) > Len(told[n]) /\ Last(told'[n]) = "node.offline" =>
      /\ Ago(seen[n]) >= scan.policy.offline
      /\ Ago(monitor.started) >= scan.policy.offline

\* A node that is overdue under the stored policy, the grace of the start over.
Overdue(n) ==
  /\ policy.enabled
  /\ monitor.started > 0 /\ Ago(monitor.started) >= policy.offline
  /\ seen[n] > 0 /\ Ago(seen[n]) >= policy.offline

\* A node that stays overdue is reported, whatever page it is on.
LossIsTold == \A n \in Nodes : Overdue(n) ~> (~Overdue(n) \/ row[n].status = "offline")
=============================================================================
