--------------------------- MODULE DatagramServer ---------------------------
(***************************************************************************)
(* The exit of UDP over QUIC (internal/tunnel/datagram.go, DatagramServer): *)
(* a handler per connection, a goroutine per flow, and three channels that  *)
(* limit connections, flows being opened and flows. A configuration changes *)
(* the authorization first and the inspection after, with the server in     *)
(* use; each change is stored, and then every connection known is closed.   *)
(***************************************************************************)
EXTENDS Naturals, FiniteSets

CONSTANTS
  Links,       \* QUIC connections
  Requests,    \* streams that ask for a flow
  MaxSlots,    \* connections handled (64)
  MaxTargets,  \* flows being opened (32)
  MaxFlows,    \* flows (1024)
  MaxUpdates   \* bound: configurations

VARIABLES
  auth,      \* authorization: the versions of allow and of inspect
  updating,  \* the commit that changes them: step, and connections left to close
  closed,    \* DatagramServer.closed
  link,      \* Links -> handler and whether the connection is open
  conns,     \* DatagramServer.conns
  request,   \* Requests -> where open is, its connection and the authorization it loaded
  slots, targets, flows  \* the channels

serverVars == <<auth, updating, closed, link, conns, request, slots, targets, flows>>

NoLink == [pc |-> "new", open |-> FALSE]
NoRequest == [pc |-> "new", on |-> 0, auth |-> [allow |-> 0, inspect |-> 0]]
NoUpdate == [pc |-> "idle", left |-> {}]

ServerInit ==
  /\ auth = [allow |-> 0, inspect |-> 0]
  /\ updating = NoUpdate
  /\ closed = FALSE
  /\ link = [q \in Links |-> NoLink]
  /\ conns = {}
  /\ request = [s \in Requests |-> NoRequest]
  /\ slots = 0 /\ targets = 0 /\ flows = 0
-----------------------------------------------------------------------------
(* ServeBound and handle *)

\* A handshake ends: a handler when there is a slot, or the connection is closed.
ServeBound(q) ==
  /\ ~closed /\ link[q].pc = "new"
  /\ IF slots < MaxSlots
     THEN link' = [link EXCEPT ![q] = [pc |-> "accepted", open |-> TRUE]] /\ slots' = slots + 1
     ELSE link' = [link EXCEPT ![q].pc = "gone"] /\ UNCHANGED slots
  /\ UNCHANGED <<auth, updating, closed, conns, request, targets, flows>>

\* The handler registers its connection, unless the server is closed by then. A
\* peer without DATAGRAM is left at once.
Register(q) ==
  /\ link[q].pc = "accepted"
  /\ IF closed THEN link' = [link EXCEPT ![q].pc = "leaving"] /\ UNCHANGED conns
     ELSE /\ conns' = conns \cup {q}
          /\ \E next \in {"handling", "leaving"} : link' = [link EXCEPT ![q].pc = next]
  /\ UNCHANGED <<auth, updating, closed, request, slots, targets, flows>>

HandlerEnds(q) ==
  /\ link[q].pc = "handling" /\ ~link[q].open
  /\ link' = [link EXCEPT ![q].pc = "leaving"]
  /\ UNCHANGED <<auth, updating, closed, conns, request, slots, targets, flows>>

\* Its defer: the slot, the connection, and its place in the map under the mutex.
Leave(q) ==
  /\ \/ link[q].pc = "leaving" /\ link' = [link EXCEPT ![q] = [pc |-> "left", open |-> FALSE]] /\ slots' = slots - 1 /\ UNCHANGED conns
     \/ link[q].pc = "left" /\ link' = [link EXCEPT ![q].pc = "gone"] /\ conns' = conns \ {q} /\ UNCHANGED slots
  /\ UNCHANGED <<auth, updating, closed, request, targets, flows>>

\* The peer goes away, or is silent too long.
LinkDies(q) ==
  /\ link[q].open
  /\ link' = [link EXCEPT ![q].open = FALSE]
  /\ UNCHANGED <<auth, updating, closed, conns, request, slots, targets, flows>>
-----------------------------------------------------------------------------
(* open *)

Opening == {"reading", "authorized", "dialling"}
HoldsFlow == {"dialling", "serving"}

StreamOpens(s, q) ==
  /\ request[s].pc = "new"
  /\ link[q].pc = "handling" /\ link[q].open
  /\ IF targets < MaxTargets
     THEN request' = [request EXCEPT ![s].pc = "reading", ![s].on = q] /\ targets' = targets + 1
     ELSE request' = [request EXCEPT ![s].pc = "done"] /\ UNCHANGED targets
  /\ UNCHANGED <<auth, updating, closed, link, conns, slots, flows>>

\* The defers of open, from wherever it returns.
Return(s) ==
  /\ request' = [request EXCEPT ![s].pc = "done"]
  /\ targets' = IF request[s].pc \in Opening THEN targets - 1 ELSE targets
  /\ flows' = IF request[s].pc \in HoldsFlow THEN flows - 1 ELSE flows

\* The request is read and the authorization loaded; it is refused, or goes on.
Authorize(s) ==
  /\ request[s].pc = "reading"
  /\ \/ request' = [request EXCEPT ![s].pc = "authorized", ![s].auth = auth] /\ UNCHANGED <<targets, flows>>
     \/ Return(s)
  /\ UNCHANGED <<auth, updating, closed, link, conns, slots>>

TakeFlow(s) ==
  /\ request[s].pc = "authorized"
  /\ IF flows < MaxFlows
     THEN request' = [request EXCEPT ![s].pc = "dialling"] /\ flows' = flows + 1 /\ UNCHANGED targets
     ELSE Return(s)
  /\ UNCHANGED <<auth, updating, closed, link, conns, slots>>

\* The target is dialled and the flow added to the link, which must be up; the
\* answer is sent and the place among those being opened given back.
Serve(s) ==
  /\ request[s].pc = "dialling"
  /\ \/ /\ link[request[s].on].open
        /\ request' = [request EXCEPT ![s].pc = "serving"]
        /\ targets' = targets - 1 /\ UNCHANGED flows
     \/ Return(s)
  /\ UNCHANGED <<auth, updating, closed, link, conns, slots>>

\* The flow is idle, refused by the inspection, closed by its peer or cut off.
FlowEnds(s) ==
  /\ request[s].pc = "serving"
  /\ Return(s)
  /\ UNCHANGED <<auth, updating, closed, link, conns, slots>>
-----------------------------------------------------------------------------
(* UpdateAuthorization and UpdateInspection, one after the other in a commit, and Close *)

Stored(step) == IF step = "allow" THEN [allow |-> auth.allow + 1, inspect |-> 0] ELSE [auth EXCEPT !.inspect = auth.allow]

\* Mutation: the connections are read before the authorization is replaced.
SnapshotFirst(step) ==
  \/ /\ updating.pc = IF step = "allow" THEN "idle" ELSE "between"
     /\ updating' = [pc |-> step, left |-> conns]
     /\ UNCHANGED auth
  \/ /\ updating.pc = step
     /\ auth' = Stored(step)
     /\ updating' = [updating EXCEPT !.pc = IF step = "allow" THEN "closing" ELSE "closing2"]

\* Stored, and only then is it asked who is connected.
Replace(step) ==
  \/ /\ updating.pc = IF step = "allow" THEN "idle" ELSE "between"
     /\ auth' = Stored(step)
     /\ updating' = [updating EXCEPT !.pc = step]
  \/ /\ updating.pc = step
     /\ updating' = [pc |-> IF step = "allow" THEN "closing" ELSE "closing2", left |-> conns]
     /\ UNCHANGED auth

Update(step) ==
  /\ step = "allow" /\ updating.pc = "idle" => auth.allow < MaxUpdates
  /\ Replace(step)
  /\ UNCHANGED <<closed, link, conns, request, slots, targets, flows>>

\* The connections of the snapshot, one by one.
CloseOne(q) ==
  /\ updating.pc \in {"closing", "closing2"} /\ q \in updating.left
  /\ updating' = [updating EXCEPT !.left = @ \ {q}]
  /\ link' = [link EXCEPT ![q].open = FALSE]
  /\ UNCHANGED <<auth, closed, conns, request, slots, targets, flows>>

AllClosed ==
  /\ updating.pc \in {"closing", "closing2"} /\ updating.left = {}
  /\ updating' = [NoUpdate EXCEPT !.pc = IF updating.pc = "closing" THEN "between" ELSE "idle"]
  /\ UNCHANGED <<auth, closed, link, conns, request, slots, targets, flows>>

Close ==
  /\ ~closed
  /\ closed' = TRUE
  /\ link' = [q \in Links |-> IF q \in conns THEN [link[q] EXCEPT !.open = FALSE] ELSE link[q]]
  /\ UNCHANGED <<auth, updating, conns, request, slots, targets, flows>>

ServerNext ==
  \/ \E q \in Links : ServeBound(q) \/ Register(q) \/ HandlerEnds(q) \/ Leave(q) \/ LinkDies(q) \/ CloseOne(q)
  \/ \E s \in Requests : (\E q \in Links : StreamOpens(s, q)) \/ Authorize(s) \/ TakeFlow(s) \/ Serve(s) \/ FlowEnds(s)
  \/ \E step \in {"allow", "inspect"} : Update(step)
  \/ AllClosed \/ Close

ServerSpec == ServerInit /\ [][ServerNext]_serverVars
-----------------------------------------------------------------------------
\* Once a commit is through, no flow passes packets under an authorization or an
\* inspection that it replaced: what was opened before, or with what was loaded
\* before, sits on a connection that is closed ("revokes old flows whose
\* authorization snapshot could otherwise retain an outdated detector plan").
FlowsAreCurrent ==
  updating.pc = "idle" =>
    \A s \in Requests :
      request[s].pc \in {"authorized", "dialling", "serving"} /\ link[request[s].on].open => request[s].auth = auth

\* The three channels hold exactly what is in progress, and a closed server has no
\* open connection but those whose handler has yet to look (handle, open, Close).
ServerAccounts ==
  /\ slots = Cardinality({q \in Links : link[q].pc \in {"accepted", "handling", "leaving"}}) /\ slots <= MaxSlots
  /\ targets = Cardinality({s \in Requests : request[s].pc \in Opening}) /\ targets <= MaxTargets
  /\ flows = Cardinality({s \in Requests : request[s].pc \in HoldsFlow}) /\ flows <= MaxFlows
  /\ closed => \A q \in Links : link[q].open => link[q].pc \in {"accepted", "leaving"}
=============================================================================
