----------------------------- MODULE MCWorkers -----------------------------
(***************************************************************************)
(* Workers that share rows or a pool and can be cut off between two steps, *)
(* checked side by side: the panel's task queue (TaskQueue), its webhook    *)
(* deliveries (Webhooks) and a node's pool of carriers (MuxPool). A         *)
(* behaviour is one of one of them.                                         *)
(***************************************************************************)
EXTENDS TaskQueue

CONSTANTS a, b, Events, MaxAttempts, MaxEdits, Calls, Keys, MaxCarriers, MaxStreams, MaxEntries

VARIABLES
  regime,
  sub, row, loop, calls, hidden, edits, dead,
  closed, sessions, entry, call, expired, opener, closing

TwoPanels == {a, b}

Hooks == INSTANCE Webhooks WITH crashes <- dead
Mux   == INSTANCE MuxPool

HookVars == <<sub, row, loop, calls, hidden, edits, dead>>
MuxVars  == <<closed, sessions, entry, call, expired, opener, closing>>
AllVars  == <<regime, vars, HookVars, MuxVars>>

WorkersInit == regime \in {"tasks", "hooks", "mux"} /\ Init /\ Hooks!Init /\ Mux!Init

TaskFrame == regime = "tasks" /\ UNCHANGED <<regime, HookVars, MuxVars>>
HookFrame == regime = "hooks" /\ UNCHANGED <<regime, vars, MuxVars>>
MuxFrame  == regime = "mux" /\ UNCHANGED <<regime, vars, HookVars>>

WorkersNext ==
  \/ TaskFrame /\ Next
  \/ HookFrame /\ Hooks!Next
  \/ MuxFrame /\ Mux!Next

\* The fairness of the two panel modules, over the variables of all.
WorkersFairness ==
  /\ \A w \in Panels : WF_AllVars((TaskFrame /\ Worker(w)) \/ (HookFrame /\ Hooks!Worker(w)))
  /\ WF_AllVars((TaskFrame /\ Elapse) \/ (HookFrame /\ \E e \in Events : Hooks!FallsDue(e)))

WorkersSpec == WorkersInit /\ [][WorkersNext]_AllVars /\ WorkersFairness

\* A receiver is called at most once per counted attempt, attempts stay within the
\* limit, no delivery waits that the subscription does not want, and one that was
\* suppressed or revoked stays so (claim, finish, emit, revoke).
WebhooksCounted ==
  /\ [](Hooks!TypeOK /\ Hooks!CallsCounted /\ Hooks!PendingIsWanted)
  /\ [][Hooks!KeepsFinal]_HookVars

\* Carriers and the streams of each stay within the pool's limits, opens in progress
\* counted; after Close no carrier is left open, and a failed call keeps no stream
\* (MuxPool.Open, Close, openStream).
PoolSound ==
  /\ Mux!TypeOK /\ Mux!CarriersBounded /\ Mux!StreamsBounded
  /\ Mux!CloseIsComplete /\ Mux!NoStreamLeaks

\* Every task and every delivery ends, although panels stop between two steps.
WorkersFinish == TasksEnd /\ Hooks!DeliveriesEnd
=============================================================================
