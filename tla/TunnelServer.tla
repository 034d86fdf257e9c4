---------------------------- MODULE TunnelServer ----------------------------
(***************************************************************************)
(* The handlers of one exit (internal/tunnel/tunnel.go: Server.Serve,       *)
(* handle, serveRequest, Close; mux.go: serveMultiplex, serveStreams,       *)
(* openReverse; group_policy.go: targetAttempt). Connections, and the       *)
(* streams inside a multiplexed one, are served side by side: they share    *)
(* the slots, the circuits of the targets and the table of reverse          *)
(* carriers, while the server may be closed at any moment. What a single    *)
(* request goes through is the subject of TunnelChain.                      *)
(***************************************************************************)
EXTENDS Naturals, FiniteSets

CONSTANTS
  Raws,        \* accepted connections
  Streams,     \* streams of multiplexed connections
  Identities,  \* names of reverse carriers
  Hosts,       \* targets dialled directly
  None,
  MaxServed,   \* the slots: 256 in the code
  MaxFail      \* failures after which a target cools down

Workers == Raws \cup Streams
Keys == Identities \cup Hosts

VARIABLES
  stopped,   \* Close has been called
  conns,     \* s.conns
  up,        \* connections that are open
  worker,    \* Workers -> where its handler is, the carrier of a stream, the key dialled
  served,    \* slots taken
  reverse,   \* s.reverse: Identities -> a connection
  circuit    \* s.targets: Keys -> [failures, until, probing]

tunnelVars == <<stopped, conns, up, worker, served, reverse, circuit>>

Idle == [pc |-> "none", over |-> None, key |-> None, via |-> None]

TunnelInit ==
  /\ stopped = FALSE /\ conns = {} /\ up = {} /\ served = 0
  /\ worker = [w \in Workers |-> Idle]
  /\ reverse = [i \in Identities |-> None]
  /\ circuit = [k \in Keys |-> [failures |-> 0, until |-> "never", probing |-> FALSE]]

At(w, pc) == worker[w].pc = pc
Goes(w, pc) == worker' = [worker EXCEPT ![w].pc = pc]
-----------------------------------------------------------------------------
\* Serve: a slot, or the connection is closed at once.
Accept(r) ==
  /\ At(r, "none") /\ ~stopped /\ served < MaxServed
  /\ served' = served + 1 /\ up' = up \cup {r}
  /\ Goes(r, "accepted")
  /\ UNCHANGED <<stopped, conns, reverse, circuit>>

TooLate == stopped

\* handle begins: registered, unless the server was closed meanwhile.
Handle(r) ==
  /\ At(r, "accepted")
  /\ IF TooLate THEN Goes(r, "leaving") /\ UNCHANGED conns
     ELSE Goes(r, "handling") /\ conns' = conns \cup {r}
  /\ UNCHANGED <<stopped, up, served, reverse, circuit>>

\* The handshake, the first frame, the authorization: refused, a request of its own,
\* or a carrier of streams.
ReadOpen(r) ==
  /\ At(r, "handling")
  /\ \E pc \in {"leaving", "request", "streams"} : (pc # "leaving" => r \in up) /\ Goes(r, pc)
  /\ UNCHANGED <<stopped, conns, up, served, reverse, circuit>>

\* serveMultiplex: the first live carrier of an identity keeps its place.
OpenReverseCarrier(r, i) ==
  /\ At(r, "handling") /\ r \in up
  /\ IF reverse[i] # None /\ reverse[i] \in up
     THEN Goes(r, "leaving") /\ UNCHANGED reverse
     ELSE /\ worker' = [worker EXCEPT ![r] = [@ EXCEPT !.pc = "reversing", !.key = i]]
          /\ reverse' = [reverse EXCEPT ![i] = r]
  /\ UNCHANGED <<stopped, conns, up, served, circuit>>

\* Mutation: the entry goes whoever it belongs to.
Forgets(i, r) == None

\* What is left of the entry: only its own is removed.
WithoutCarrier(i, r) == IF reverse[i] = r THEN None ELSE reverse[i]

ReverseEnds(r) ==
  /\ At(r, "reversing") /\ r \notin up
  /\ reverse' = [reverse EXCEPT ![worker[r].key] = WithoutCarrier(worker[r].key, r)]
  /\ Goes(r, "leaving")
  /\ UNCHANGED <<stopped, conns, up, served, circuit>>

\* serveStreams: a stream takes a slot as well, or is closed at once.
StreamArrives(s, r) ==
  /\ At(s, "none") /\ At(r, "streams") /\ r \in up /\ served < MaxServed
  /\ worker' = [worker EXCEPT ![s] = [Idle EXCEPT !.pc = "request", !.over = r]]
  /\ served' = served + 1
  /\ UNCHANGED <<stopped, conns, up, reverse, circuit>>

StreamsOf(r) == {s \in Streams : worker[s].over = r}

\* AcceptStream fails; wg.Wait.
StreamsEnd(r) ==
  /\ At(r, "streams") /\ r \notin up /\ StreamsOf(r) = {}
  /\ Goes(r, "leaving")
  /\ UNCHANGED <<stopped, conns, up, served, reverse, circuit>>

\* The end of serveRequest: a stream gives its slot back, a connection unregisters first.
EndsTo(w) == IF w \in Streams THEN Idle ELSE [Idle EXCEPT !.pc = "leaving"]
Slots(w) == IF w \in Streams THEN served - 1 ELSE served

\* targetAttempt: one that cools down, or is being probed, is not tried.
Cooling(k) == circuit[k].until = "future" \/ circuit[k].probing

Attempt(w, k) ==
  /\ At(w, "request")
  /\ IF Cooling(k)
     THEN worker' = [worker EXCEPT ![w] = EndsTo(w)] /\ served' = Slots(w) /\ UNCHANGED circuit
     ELSE /\ worker' = [worker EXCEPT ![w].pc = "dialling", ![w].key = k,
                                      ![w].via = IF k \in Identities THEN reverse[k] ELSE None]
          /\ circuit' = [circuit EXCEPT ![k].probing = circuit[k].until # "never"]
          /\ UNCHANGED served
  /\ UNCHANGED <<stopped, conns, up, reverse>>

\* Other refusals before the dial: the route, the policy, the inspection.
Refused(w) ==
  /\ At(w, "request")
  /\ worker' = [worker EXCEPT ![w] = EndsTo(w)] /\ served' = Slots(w)
  /\ UNCHANGED <<stopped, conns, up, reverse, circuit>>

\* finishAttempt, on every path after the dial.
Finished(k, ok) ==
  LET failures == IF ok THEN 0 ELSE circuit[k].failures + 1
  IN [failures |-> IF failures > MaxFail THEN MaxFail ELSE failures,
      until |-> IF ok THEN "never" ELSE IF failures >= MaxFail THEN "future" ELSE circuit[k].until,
      probing |-> FALSE]

\* A reverse carrier must be there, and still be up.
CanReach(w) == worker[w].key \in Identities => worker[w].via \in up

DialEnds(w) ==
  /\ At(w, "dialling")
  /\ \/ CanReach(w) /\ Goes(w, "relaying") /\ circuit' = [circuit EXCEPT ![worker[w].key] = Finished(worker[w].key, TRUE)] /\ UNCHANGED served
     \/ /\ worker' = [worker EXCEPT ![w] = EndsTo(w)] /\ served' = Slots(w)
        /\ circuit' = [circuit EXCEPT ![worker[w].key] = Finished(worker[w].key, FALSE)]
  /\ UNCHANGED <<stopped, conns, up, reverse>>

\* The relay ends: by itself, after idling, with its connection or with its target.
RelayEnds(w) ==
  /\ At(w, "relaying")
  /\ worker' = [worker EXCEPT ![w] = EndsTo(w)] /\ served' = Slots(w)
  /\ UNCHANGED <<stopped, conns, up, reverse, circuit>>

\* The deferred end of handle: unregistered, closed, the slot given back.
Unregister(r) ==
  /\ At(r, "leaving")
  /\ conns' = conns \ {r} /\ Goes(r, "closing")
  /\ UNCHANGED <<stopped, up, served, reverse, circuit>>

Leave(r) ==
  /\ At(r, "closing")
  /\ up' = up \ {r} /\ served' = served - 1
  /\ worker' = [worker EXCEPT ![r] = Idle]
  /\ UNCHANGED <<stopped, conns, reverse, circuit>>

CarrierDies(r) ==
  /\ r \in up /\ up' = up \ {r}
  /\ UNCHANGED <<stopped, conns, worker, served, reverse, circuit>>

CooledDown(k) ==
  /\ circuit[k].until = "future"
  /\ circuit' = [circuit EXCEPT ![k].until = "past"]
  /\ UNCHANGED <<stopped, conns, up, worker, served, reverse>>

Close ==
  /\ ~stopped /\ stopped' = TRUE
  /\ up' = up \ conns
  /\ UNCHANGED <<conns, worker, served, reverse, circuit>>

TunnelNext ==
  \/ \E r \in Raws :
       \/ Accept(r) \/ Handle(r) \/ ReadOpen(r) \/ ReverseEnds(r) \/ StreamsEnd(r) \/ Unregister(r) \/ Leave(r) \/ CarrierDies(r)
       \/ \E i \in Identities : OpenReverseCarrier(r, i)
       \/ \E s \in Streams : StreamArrives(s, r)
  \/ \E w \in Workers : Refused(w) \/ DialEnds(w) \/ RelayEnds(w) \/ \E k \in Keys : Attempt(w, k)
  \/ \E k \in Keys : CooledDown(k)
  \/ Close

TunnelSpec == TunnelInit /\ [][TunnelNext]_tunnelVars
-----------------------------------------------------------------------------
\* The slots count the handlers of connections and of streams exactly, and a connection's
\* handler outlives the streams it has started (Serve, serveStreams, wg.Wait).
SlotsExact ==
  /\ served = Cardinality({w \in Workers : ~At(w, "none")}) /\ served <= MaxServed
  /\ \A s \in Streams : ~At(s, "none") => At(worker[s].over, "streams")

\* Once the server is closed no connection is left open, but for one whose handler has not
\* looked yet or is about to close it (handle, Close).
StopIsComplete == stopped => \A r \in up : worker[r].pc \in {"accepted", "leaving", "closing"}

\* A reverse carrier that is served and alive is the one its name leads to, also after an
\* older one of the same name ended late (serveMultiplex, openReverse).
ReverseReachable ==
  \A r \in Raws : At(r, "reversing") /\ r \in up => reverse[worker[r].key] = r

\* A target that is being probed is so by an attempt that will end: no target is refused
\* for good (targetAttempt).
TargetNotStuck == \A k \in Keys : circuit[k].probing => \E w \in Workers : At(w, "dialling") /\ worker[w].key = k
=============================================================================
