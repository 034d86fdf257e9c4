----------------------------- MODULE TunnelChain -----------------------------
(***************************************************************************)
(* One request on its way through up to three exits (internal/tunnel:       *)
(* Client.open and dial, Server.serveRequest, chain.go, group_policy.go).   *)
(* Hop 0 is the Agent; hop k opens hop k+1 while it serves hop k-1, so the  *)
(* handshakes nest. Every exit has its own policy: what must be inspected,  *)
(* which next hops it knows. How a hop is asked to inspect depends on the   *)
(* version of the request, and data flows only after the answers.           *)
(***************************************************************************)
EXTENDS Naturals, FiniteSets, Sequences

CONSTANTS
  Exits,      \* exits, by their stable identity
  Endpoints,  \* addresses of exits
  ExitAt,     \* Endpoints -> Exits; two addresses may lead to one exit
  NextHops    \* Exits -> sets of endpoints

Hops == 1..3

VARIABLES
  form,    \* what is asked: network, business, and for every hop its route and flags
  policy,  \* exits -> [layers, plan]: needs inspection, has a detector plan
  hop,     \* Hops -> where serveRequest is there
  agent    \* where the Agent's DialRoute is: dialling, sending, failed

chainVars == <<form, policy, hop, agent>>

NoHop == [pc |-> "none", visited |-> <<>>, prefix |-> FALSE, checked |-> {}, said |-> FALSE]

\* What a client can ask of a hop: t.Inspect and t.StagedInspection. open sets the
\* first with the second, and neither for packets.
NotAsked == [inspect |-> FALSE, staged |-> FALSE]
Asks == {NotAsked, [inspect |-> TRUE, staged |-> FALSE], [inspect |-> TRUE, staged |-> TRUE]}

ChainInit ==
  /\ form \in [network : {"tcp", "udp"}, business : {"none", "tls", "ws"}, prefix : BOOLEAN,
               route : UNION {[1..n -> Endpoints] : n \in Hops}, asks : {[k \in Hops |-> IF k = 1 THEN a ELSE b] : a, b \in Asks}]
  /\ form.network = "udp" => \A k \in Hops : form.asks[k] = NotAsked
  /\ policy \in [Exits -> [layers : BOOLEAN, plan : BOOLEAN]]
  /\ hop = [k \in Hops |-> NoHop]
  /\ agent = "new"

Last == Len(form.route)
ExitOf(k) == ExitAt[form.route[k]]
TCP == form.network = "tcp"
Ws == form.business = "ws"

\* Client.open: flags and version of the request sent to hop k.
Staged(k) == TCP /\ (form.asks[k].staged \/ form.business = "tls")
Inspect(k) == TCP /\ (form.asks[k].inspect \/ form.business # "none" \/ Staged(k))
Version(k) ==
  IF TCP /\ (form.business # "none" \/ Staged(k)) THEN 4
  ELSE IF TCP /\ form.asks[k].inspect THEN 3
  ELSE IF k < Last \/ k > 1 THEN 2 ELSE 1

\* The prefix the client of hop k can send: what the Agent, or the hop before, inspected.
Prefix(k) == IF k = 1 THEN form.prefix ELSE hop[k - 1].prefix

\* A staged hop looks at the stream before it dials.
StagedReady(k) == Staged(k) /\ ~Ws

HasPlan(k) == policy[ExitOf(k)].plan
HasLayers(k) == policy[ExitOf(k)].layers
-----------------------------------------------------------------------------
Moves(k, h) == hop' = [hop EXCEPT ![k] = h] /\ UNCHANGED <<form, policy, agent>>

\* ValidateChain: addresses on the way are distinct.
DistinctAddresses == \A i, j \in 1..Last : i # j => form.route[i] # form.route[j]

\* DialRoute, DialChain: the whole route is looked at before anything is opened.
DialRoute ==
  /\ agent = "new"
  /\ IF DistinctAddresses
     THEN /\ agent' = "dialling"
          /\ hop' = [hop EXCEPT ![1] = [NoHop EXCEPT !.pc = "asked"]]
     ELSE agent' = "failed" /\ UNCHANGED hop
  /\ UNCHANGED <<form, policy>>

\* Mutation: an exit trusts the addresses, which the client has compared.
TrustsAddresses(k) == Version(k) = 1 \/ Len(hop[k].visited) + (Last - k) + 1 <= 3

\* validateRoute: never more than three, and never the same exit again, whatever
\* its address.
RouteIsValid(k) ==
  \/ Version(k) = 1
  \/ /\ Len(hop[k].visited) + (Last - k) + 1 <= 3
     /\ \A i \in 1..Len(hop[k].visited) :
          hop[k].visited[i] # ExitOf(k) /\ \A j \in 1..(i - 1) : hop[k].visited[i] # hop[k].visited[j]

\* authorized may say no, at any hop. A next hop must be one the exit knows.
KnowsNext(k) == k = Last \/ form.route[k + 1] \in NextHops[ExitOf(k)]

Ended(k) == [hop[k] EXCEPT !.pc = "ended"]

\* serveRequest up to its answer: refused, an inspection asked for, or dialling.
Serve(k) ==
  /\ hop[k].pc = "asked"
  /\ \/ Moves(k, Ended(k))
     \/ /\ (form.business # "none" \/ Staged(k)) => Version(k) = 4
        /\ RouteIsValid(k)
        /\ TCP /\ HasLayers(k) => Version(k) \in {3, 4} /\ Inspect(k)
        /\ IF Inspect(k) THEN Moves(k, [hop[k] EXCEPT !.pc = "accepted"])
           ELSE Moves(k, [hop[k] EXCEPT !.pc = IF KnowsNext(k) THEN "attempt" ELSE "ended"])

\* What the prefix is checked against: the layers, and the plan unless the gate
\* inside the WebSocket does that. A staged hop waits for the stream itself.
PrefixChecks(k) == IF StagedReady(k) THEN {} ELSE {"layers"} \cup (IF Ws THEN {} ELSE {"prefix plan"})

\* A staged exit says ready ("inspect-stream") before it dials: it needs the stream.
SaysEarly(k) == StagedReady(k)

\* The client answers with its prefix; none, and its dial fails. The exit checks it.
ReadPrefix(k) ==
  /\ hop[k].pc = "accepted"
  /\ \/ Moves(k, Ended(k))
     \/ /\ Prefix(k)
        /\ Moves(k, [hop[k] EXCEPT !.prefix = TRUE, !.checked = @ \cup PrefixChecks(k), !.said = KnowsNext(k) /\ SaysEarly(k),
                                   !.pc = IF ~KnowsNext(k) THEN "ended" ELSE IF StagedReady(k) THEN "staged" ELSE "attempt"])

\* Data reaches hop k: the Agent sends, and all hops on the way pass it on.
DataAt(k) == agent = "sending" /\ \A j \in 1..(k - 1) : hop[j].pc = "relaying"

\* The stream is inspected before the dial.
InspectStaged(k) ==
  /\ hop[k].pc = "staged"
  /\ DataAt(k)
  /\ \/ Moves(k, Ended(k))
     \/ Moves(k, [hop[k] EXCEPT !.checked = @ \cup {"layers", "stream plan"}, !.pc = "attempt"])

\* targetAttempt lets the dial begin: the target, or the next hop with this exit
\* added to those visited.
Attempt(k) ==
  /\ hop[k].pc = "attempt"
  /\ \/ Moves(k, Ended(k))
     \/ k = Last /\ Moves(k, [hop[k] EXCEPT !.pc = "dialling"])
     \/ /\ k < Last
        /\ hop' = [hop EXCEPT ![k].pc = "dialling",
                              ![k + 1] = [NoHop EXCEPT !.pc = "asked", !.visited = Append(hop[k].visited, ExitOf(k))]]
        /\ UNCHANGED <<form, policy, agent>>

\* The dial ends, and the exit says "ok" unless it has answered before. Then, or
\* now, the stream goes on.
DialEnds(k) ==
  /\ hop[k].pc = "dialling"
  /\ \/ Moves(k, Ended(k))
     \/ /\ k < Last => hop[k + 1].said
        /\ Moves(k, [hop[k] EXCEPT !.pc = "ready", !.said = TRUE])

\* The exit's own plan wants more than the prefix.
StreamNeeded(k) == TCP /\ HasPlan(k) /\ ~Ws /\ ~StagedReady(k)

\* The actual stream is inspected before anything reaches the origin; packets, and
\* what is inside a WebSocket, are inspected one by one when they are relayed.
InspectStream(k) ==
  /\ hop[k].pc = "ready"
  /\ IF StreamNeeded(k)
     THEN /\ DataAt(k)
          /\ \/ Moves(k, Ended(k))
             \/ Moves(k, [hop[k] EXCEPT !.checked = @ \cup {"layers", "stream plan"}, !.pc = "relaying"])
     ELSE Moves(k, [hop[k] EXCEPT !.pc = "relaying"])

\* The Agent has its answer.
AgentReady ==
  /\ agent = "dialling" /\ hop[1].said
  /\ agent' = "sending"
  /\ UNCHANGED <<form, policy, hop>>

\* A hop that is over closes its connections, and its neighbours notice.
Over(k) == hop[k].pc = "ended"

Unwind ==
  \/ \E k \in 1..2 : Over(k + 1) /\ hop[k].pc \in {"dialling", "ready", "relaying"} /\ Moves(k, Ended(k))
  \/ \E k \in 1..2 : Over(k) /\ hop[k + 1].pc \notin {"none", "ended"} /\ Moves(k + 1, Ended(k + 1))
  \/ /\ Over(1) /\ agent \in {"dialling", "sending"}
     /\ agent' = "failed" /\ UNCHANGED <<form, policy, hop>>
  \/ agent = "failed" /\ hop[1].pc \notin {"none", "ended"} /\ Moves(1, Ended(1))

\* The ten seconds of a handshake are over, or a connection breaks.
Breaks(k) == hop[k].pc \notin {"none", "ended"} /\ Moves(k, Ended(k))

Handshake ==
  \/ DialRoute \/ AgentReady
  \/ \E k \in 1..Last : Serve(k) \/ ReadPrefix(k) \/ InspectStaged(k) \/ Attempt(k) \/ DialEnds(k) \/ InspectStream(k)

\* Nothing is left to do: everything flows, or nothing is open any more.
Settled ==
  \/ agent = "sending" /\ \A k \in 1..Last : hop[k].pc = "relaying"
  \/ agent = "failed" /\ \A k \in Hops : hop[k].pc \in {"none", "ended"}

ChainNext ==
  \/ Handshake
  \/ Unwind
  \/ \E k \in Hops : Breaks(k)
  \/ Settled /\ UNCHANGED chainVars

ChainSpec == ChainInit /\ [][ChainNext]_chainVars
-----------------------------------------------------------------------------
\* No exit carries a request twice, and never more than three do, also when two
\* addresses lead to one exit ("DNS aliases are caught by each exit's stable NodeID").
ChainIsSimple ==
  \A i, j \in 1..Last :
    i # j /\ hop[i].pc \notin {"none", "asked", "ended"} /\ hop[j].pc \notin {"none", "asked", "ended"} => ExitOf(i) # ExitOf(j)

\* Business bytes pass an exit only after the inspection that exit's own policy asks
\* for, in whatever version and with whatever flags it was asked ("before any business
\* bytes reach origin", serveRequest).
InspectedFirst ==
  \A k \in 1..Last :
    hop[k].pc = "relaying" /\ TCP =>
      /\ HasLayers(k) => "layers" \in hop[k].checked
      /\ HasPlan(k) /\ ~Ws => "stream plan" \in hop[k].checked

\* The nested handshakes do not wait for each other: as long as nothing failed,
\* somebody can go on without a timeout, until everything flows (open, serveRequest).
NoStandoff ==
  agent # "failed" /\ (\A k \in Hops : ~Over(k)) /\ ~Settled => ENABLED Handshake
=============================================================================
