----------------------------- MODULE UDPSessions -----------------------------
(***************************************************************************)
(* The UDP side of one of an Agent's listeners (internal/agent/udp.go):     *)
(* packets go from the socket through a worker's queue to the session of    *)
(* their peer, which is dialled by one goroutine and served by two more.    *)
(* Memory, sessions and dials are limited over the whole Agent; whoever     *)
(* drops a packet, or a session, must give back what it held.               *)
(***************************************************************************)
EXTENDS Naturals, FiniteSets

CONSTANTS
  Packets,       \* datagrams
  Peers,         \* their senders; a peer's packets go to one worker
  MaxQueued,     \* packets in memory (maxUDPQueuedBytes)
  WorkerCap,     \* packets in a worker's queue (64)
  PendingCap,    \* packets of a session not dialled yet (8)
  MaxSessions,   \* sessions of the listener (UDP.MaxSessions)
  SessionSlots,  \* sessions of the Agent (udpSessionSlots)
  DialSlots,     \* dials of the Agent (udpDialSlots)
  MaxMade,       \* bound: sessions made
  MaxResets      \* bound: configurations that change the rule

VARIABLES
  queued,    \* Runtime.udpQueued
  packet,    \* Packets -> where it is: new, queue, worker, out, batch, gone
  peerOf,    \* Packets -> its peer
  worker,    \* Peers -> the worker's packet and whether the context it took is good
  bySender,  \* binding.sessions: peer -> session, 0 when none
  udp,       \* 1..MaxMade -> session
  made,      \* sessions made
  slots,     \* udpSessionSlots in use
  dials,     \* udpDialSlots in use
  resets     \* configurations that changed the rule, so far

udpVars == <<queued, packet, peerOf, worker, bySender, udp, made, slots, dials, resets>>

Sessions == 1..MaxMade
NoPacket == [at |-> "new", in |-> 0]
Resting == [packet |-> 0, live |-> FALSE]
NoSession == [peer |-> 0, live |-> FALSE, conn |-> "none", opener |-> "none", sender |-> "none", receiver |-> "none", finish |-> "none"]

UDPInit ==
  /\ queued = 0
  /\ packet = [p \in Packets |-> NoPacket]
  /\ peerOf \in [Packets -> Peers]
  /\ worker = [k \in Peers |-> Resting]
  /\ bySender = [k \in Peers |-> 0]
  /\ udp = [s \in Sessions |-> NoSession]
  /\ made = 0 /\ slots = 0 /\ dials = 0 /\ resets = 0

Out(s) == {p \in Packets : packet[p] = [at |-> "out", in |-> s]}
Batch(s) == {p \in Packets : packet[p] = [at |-> "batch", in |-> s]}

Goes(p, where, s) == packet' = [packet EXCEPT ![p] = [at |-> where, in |-> s]]

\* freePacket.
Free(p) == Goes(p, "gone", 0) /\ queued' = queued - 1
-----------------------------------------------------------------------------
(* serveUDP and udpWorker *)

\* A datagram is read: no memory, or no room with its worker, and it is dropped.
Receive(p) ==
  /\ packet[p].at = "new"
  /\ IF queued >= MaxQueued \/ Cardinality({q \in Packets : packet[q].at = "queue" /\ peerOf[q] = peerOf[p]}) >= WorkerCap
     THEN Goes(p, "gone", 0) /\ UNCHANGED queued
     ELSE Goes(p, "queue", 0) /\ queued' = queued + 1
  /\ UNCHANGED <<peerOf, worker, bySender, udp, made, slots, dials, resets>>

\* The worker takes a packet and the listener's rule and context, which is always a
\* good one here; the policy may refuse the packet.
Take(p) ==
  /\ packet[p].at = "queue"
  /\ worker[peerOf[p]].packet = 0
  /\ \/ Goes(p, "worker", 0) /\ worker' = [worker EXCEPT ![peerOf[p]] = [packet |-> p, live |-> TRUE]] /\ UNCHANGED queued
     \/ Free(p) /\ UNCHANGED worker
  /\ UNCHANGED <<peerOf, bySender, udp, made, slots, dials, resets>>

\* The peer's session, unless it is over.
Current(k) == IF bySender[k] # 0 /\ udp[bySender[k]].live THEN bySender[k] ELSE 0

Mapped == {k \in Peers : bySender[k] # 0}

\* No room for another session: every slot taken on the way is given back.
Refused ==
  /\ Cardinality(Mapped) >= MaxSessions \/ slots >= SessionSlots \/ dials >= DialSlots
  /\ UNCHANGED slots

Room == Cardinality(Mapped) < MaxSessions /\ slots < SessionSlots /\ dials < DialSlots

\* The packet goes to a session, in the listener's mutex: dropped when the session
\* is over or, not dialled yet, has its share.
Offer(p, s, u) ==
  IF ~u.live \/ (u.conn = "none" /\ Cardinality(Out(s)) >= PendingCap)
  THEN Free(p) ELSE Goes(p, "out", s) /\ UNCHANGED queued

PlaceInSession(k) ==
  /\ worker[k].packet # 0
  /\ Current(k) # 0
  /\ Offer(worker[k].packet, Current(k), udp[Current(k)])
  /\ worker' = [worker EXCEPT ![k] = Resting]
  /\ UNCHANGED <<peerOf, bySender, udp, made, slots, dials, resets>>

\* A new session takes the place of one that is over but not yet removed.
PlaceInNewSession(k) ==
  /\ worker[k].packet # 0
  /\ Current(k) = 0
  /\ Room
  /\ made < MaxMade
  /\ LET s == made + 1
         u == [NoSession EXCEPT !.peer = k, !.live = worker[k].live, !.opener = "dialling"]
     IN /\ udp' = [udp EXCEPT ![s] = u]
        /\ made' = s
        /\ bySender' = [bySender EXCEPT ![k] = s]
        /\ Offer(worker[k].packet, s, u)
  /\ slots' = slots + 1 /\ dials' = dials + 1
  /\ worker' = [worker EXCEPT ![k] = Resting]
  /\ UNCHANGED <<peerOf, resets>>

\* No session can be had; the account's pool may refuse one too.
PlaceNowhere(k) ==
  /\ worker[k].packet # 0
  /\ Current(k) = 0
  /\ Refused \/ (Room /\ UNCHANGED slots)
  /\ Free(worker[k].packet)
  /\ worker' = [worker EXCEPT ![k] = Resting]
  /\ UNCHANGED <<peerOf, bySender, udp, made, dials, resets>>
-----------------------------------------------------------------------------
(* openUDP *)

\* stop: the context, and the connection if there is one.
Stopped(u) == [u EXCEPT !.live = FALSE, !.conn = IF @ = "open" THEN "closed" ELSE @]

\* finishUDP: stop, and the first to come goes on with the rest, from "begun".
Finishing(u) == [Stopped(u) EXCEPT !.finish = IF @ = "none" THEN "begun" ELSE @]

\* The dial ends. Its slot is free before anything else; the connection is stored
\* and the context looked at under the session's mutex.
OpenUDP(s) ==
  /\ udp[s].opener = "dialling"
  /\ dials' = dials - 1
  /\ LET u == [udp[s] EXCEPT !.opener = "done"]
     IN \/ udp' = [udp EXCEPT ![s] = Finishing(u)]
        \/ LET v == [u EXCEPT !.conn = "open"]
           IN udp' = [udp EXCEPT ![s] = IF v.live THEN [v EXCEPT !.sender = "running", !.receiver = "running"] ELSE Finishing(v)]
  /\ UNCHANGED <<queued, packet, peerOf, worker, bySender, made, slots, resets>>
-----------------------------------------------------------------------------
(* sendUDP and receiveUDP *)

\* The sender gathers what is there; it may do so after the context is over.
Gather(s) ==
  /\ udp[s].sender = "running"
  /\ Batch(s) = {}
  /\ Out(s) # {}
  /\ packet' = [p \in Packets |-> IF p \in Out(s) THEN [at |-> "batch", in |-> s] ELSE packet[p]]
  /\ UNCHANGED <<queued, peerOf, worker, bySender, udp, made, slots, dials, resets>>

\* The batch is charged and written, or dropped; a refusal for good stops the session.
Send(s) ==
  /\ Batch(s) # {}
  /\ packet' = [p \in Packets |-> IF p \in Batch(s) THEN [at |-> "gone", in |-> 0] ELSE packet[p]]
  /\ queued' = queued - Cardinality(Batch(s))
  /\ udp' \in {udp, [udp EXCEPT ![s] = Stopped(@)]}
  /\ UNCHANGED <<peerOf, worker, bySender, made, slots, dials, resets>>

SenderEnds(s) ==
  /\ udp[s].sender = "running"
  /\ Batch(s) = {}
  /\ ~udp[s].live
  /\ udp' = [udp EXCEPT ![s] = [Finishing(@) EXCEPT !.sender = "done"]]
  /\ UNCHANGED <<queued, packet, peerOf, worker, bySender, made, slots, dials, resets>>

\* The target is silent for too long, fails, or the connection was closed.
ReceiverEnds(s) ==
  /\ udp[s].receiver = "running"
  /\ udp' = [udp EXCEPT ![s] = [Finishing(@) EXCEPT !.receiver = "done"]]
  /\ UNCHANGED <<queued, packet, peerOf, worker, bySender, made, slots, dials, resets>>
-----------------------------------------------------------------------------
(* finishUDP, once per session *)

FinishStep(s, from, to) == udp[s].finish = from /\ udp' = [udp EXCEPT ![s].finish = to]

Release(s) ==
  /\ FinishStep(s, "begun", "released")
  /\ slots' = slots - 1
  /\ UNCHANGED <<queued, packet, peerOf, worker, bySender, made, dials, resets>>

\* Mutation: the peer's session is removed, whichever it is by now.
UnmapAny(s) ==
  /\ FinishStep(s, "released", "unmapped")
  /\ bySender' = [bySender EXCEPT ![udp[s].peer] = 0]
  /\ UNCHANGED <<queued, packet, peerOf, worker, made, slots, dials, resets>>

\* In the listener's mutex, unless another session has taken its place.
Unmap(s) ==
  /\ FinishStep(s, "released", "unmapped")
  /\ bySender' = IF bySender[udp[s].peer] = s THEN [bySender EXCEPT ![udp[s].peer] = 0] ELSE bySender
  /\ UNCHANGED <<queued, packet, peerOf, worker, made, slots, dials, resets>>

Drain(s) ==
  /\ FinishStep(s, "unmapped", "drained")
  /\ packet' = [p \in Packets |-> IF p \in Out(s) THEN [at |-> "gone", in |-> 0] ELSE packet[p]]
  /\ queued' = queued - Cardinality(Out(s))
  /\ UNCHANGED <<peerOf, worker, bySender, made, slots, dials, resets>>
-----------------------------------------------------------------------------
\* Apply with a changed rule, or StopLease: contexts end and sessions are stopped.
Reset ==
  /\ resets < MaxResets
  /\ resets' = resets + 1
  /\ udp' = [s \in Sessions |-> IF \E k \in Peers : bySender[k] = s THEN Stopped(udp[s]) ELSE [udp[s] EXCEPT !.live = FALSE]]
  /\ worker' = [k \in Peers |-> [worker[k] EXCEPT !.live = FALSE]]
  /\ UNCHANGED <<queued, packet, peerOf, bySender, made, slots, dials>>

UDPNext ==
  \/ \E p \in Packets : Receive(p) \/ Take(p)
  \/ \E k \in Peers : PlaceInSession(k) \/ PlaceInNewSession(k) \/ PlaceNowhere(k)
  \/ \E s \in Sessions :
       \/ OpenUDP(s) \/ Gather(s) \/ Send(s) \/ SenderEnds(s) \/ ReceiverEnds(s)
       \/ Release(s) \/ Unmap(s) \/ Drain(s)
  \/ Reset

UDPSpec == UDPInit /\ [][UDPNext]_udpVars
-----------------------------------------------------------------------------
Unfinished == {s \in 1..made : udp[s].finish \in {"none", "begun"}}

\* Counters stay within their limits and count exactly what is held: packets in
\* memory, sessions not released and dials in progress (packet, freePacket,
\* udpWorker, openUDP, finishUDP).
UDPAccounts ==
  /\ queued = Cardinality({p \in Packets : packet[p].at \notin {"new", "gone"}}) /\ queued <= MaxQueued
  /\ slots = Cardinality(Unfinished) /\ slots <= SessionSlots
  /\ dials = Cardinality({s \in Sessions : udp[s].opener = "dialling"}) /\ dials <= DialSlots
  /\ Cardinality(Mapped) <= MaxSessions

\* Nothing is left with a session that is over: no packet nobody will free, no open
\* connection nobody will close, and no place in the map (finishUDP, openUDP).
FinishedHoldsNothing ==
  \A s \in Sessions :
    udp[s].finish = "drained" =>
      Out(s) = {} /\ (udp[s].opener = "done" => udp[s].conn # "open") /\ \A k \in Peers : bySender[k] # s

\* A session that is served stays the session of its peer: a late end of the one
\* before it does not remove it (finishUDP).
LiveIsMapped ==
  \A s \in Sessions : udp[s].live /\ udp[s].finish = "none" => bySender[udp[s].peer] = s
=============================================================================
