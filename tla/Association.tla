----------------------------- MODULE Association -----------------------------
(***************************************************************************)
(* The registry of SOCKS5 UDP associations (internal/policy/association,    *)
(* configured by internal/agent/association.go). A control connection is    *)
(* observed while it is relayed; when its handshake has ended well its      *)
(* session is indexed, and a datagram from the same peer is then admitted   *)
(* with a proof, which later has to be valid still. Configuration changes,  *)
(* revocations, expiry and the end of the connection come from other        *)
(* goroutines.                                                              *)
(***************************************************************************)
EXTENDS Naturals, FiniteSets

CONSTANTS
  Bindings,     \* records [control, udp, generation, endpoint, target]
  Conns,        \* control connections, one session each
  Peers,        \* addresses of clients
  Ports,        \* ports of clients
  MaxSessions,  \* limit
  MaxPeer       \* maxPeerSessions

VARIABLES
  allowed,   \* bindings of the running configuration
  stage,     \* Conns -> stage of the observer: 0..6, closed, or none before Observe
  sessions,  \* Conns -> whether r.sessions has it
  session,   \* Conns -> [bindings, peer, port, ready, fresh]
  index,     \* <<key, connection>> -> its binding, as triples
  proofs     \* proofs that were handed out

assocVars == <<allowed, stage, sessions, session, index, proofs>>

NoSession == [bindings |-> {}, peer |-> 0, port |-> 0, ready |-> FALSE, fresh |-> FALSE]

AssocInit ==
  /\ allowed = {} /\ index = {} /\ proofs = {} /\ sessions = {}
  /\ stage = [c \in Conns |-> "none"]
  /\ session = [c \in Conns |-> NoSession]

Key(b, peer) == <<b.udp, b.generation, b.target, peer>>

\* The entries of a session. The bindings of a session that is ready have one control
\* rule and one endpoint, so that no two of them share a key.
Entries(c, s) == {<<Key(b, s.peer), c, b>> : b \in s.bindings}
At(k, I) == {e \in I : e[1] = k}
-----------------------------------------------------------------------------
\* removeSessionLocked.
Without(C) == {e \in index : e[2] \notin C}

Remove(C) == sessions' = sessions \ C /\ index' = Without(C)

\* pruneLocked: the sessions whose time is over.
Expired == {c \in sessions : ~session[c].fresh}

\* indexSessionLocked: all of a session's entries, or none when a peer has too many.
HasRoom(I, s) == \A b \in s.bindings : Cardinality(At(Key(b, s.peer), I)) < MaxPeer

\* Configure: sessions lose what is no longer allowed, and the index is built anew, in
\* some order, until a peer has too many; a session that does not fit is not ready.
Configure(S) ==
  LET kept(c) == [session[c] EXCEPT !.bindings = @ \cap S]
      stay == {c \in sessions \ Expired : session[c].bindings \cap S # {}}
      ready == {c \in stay : session[c].ready}
  IN /\ allowed' = S
     /\ sessions' = stay
     /\ \E R \in SUBSET ready :
          /\ \A c \in ready : c \notin R => ~HasRoom(UNION {Entries(d, kept(d)) : d \in R}, kept(c))
          /\ index' = UNION {Entries(d, kept(d)) : d \in R}
          /\ \A c \in R : HasRoom(index' \ Entries(c, kept(c)), kept(c))
          /\ session' = [c \in Conns |-> IF c \in stay THEN [kept(c) EXCEPT !.ready = c \in R] ELSE session[c]]
     /\ UNCHANGED <<stage, proofs>>

\* prepareAssociations: of the bindings that a configuration wants those that hold are
\* kept. When one that a plan requires does not hold, the configuration is refused and
\* nothing changes.
Commit(sound) == Configure(sound)

\* RevokeRule, RevokeGeneration: a binding goes, and every session that has it.
Revoke(gone) ==
  /\ gone # {}
  /\ allowed' = allowed \ gone
  /\ Remove({c \in sessions : session[c].bindings \cap gone # {}})
  /\ UNCHANGED <<stage, session, proofs>>

RevokeRule(r) == Revoke({b \in Bindings : r \in {b.control, b.udp}})
RevokeGeneration(g) == Revoke({b \in Bindings : b.generation = g})
RevokeAll ==
  /\ allowed' = {} /\ sessions' = {} /\ index' = {}
  /\ UNCHANGED <<stage, session, proofs>>

\* Observe: a new session for a control connection with the bindings of its rule, while
\* there is room and every relationship it was started with is still allowed.
Observe(c, peer, S) ==
  /\ stage[c] = "none" /\ S # {} /\ \A a, b \in S : a.control = b.control
  /\ LET live == sessions \ Expired IN
     /\ index' = Without(Expired)
     /\ IF Cardinality(live) < MaxSessions /\ S \subseteq allowed
        THEN /\ sessions' = live \cup {c}
             /\ session' = [session EXCEPT ![c] = [bindings |-> S, peer |-> peer, port |-> 0, ready |-> FALSE, fresh |-> TRUE]]
             /\ stage' = [stage EXCEPT ![c] = "method"]
        ELSE sessions' = live /\ stage' = [stage EXCEPT ![c] = "closed"] /\ UNCHANGED session
  /\ UNCHANGED <<allowed, proofs>>

\* observer.closeLocked: an error, an end of either direction, a byte too many.
CloseObserver(c) ==
  /\ stage[c] \notin {"none", "closed"}
  /\ stage' = [stage EXCEPT ![c] = "closed"]
  /\ Remove({c})
  /\ UNCHANGED <<allowed, session, proofs>>

\* feed, up to the request: methods, the choice, a password and its answer.
Negotiates(c) ==
  /\ \/ stage[c] = "method" /\ \E next \in {"password", "request"} : stage' = [stage EXCEPT ![c] = next]
     \/ stage[c] = "password" /\ stage' = [stage EXCEPT ![c] = "request"]
  /\ UNCHANGED <<allowed, sessions, session, index, proofs>>

\* The request names a port, or none; the address is the peer's own.
Requests(c, port) ==
  /\ stage[c] = "request"
  /\ stage' = [stage EXCEPT ![c] = "reply"]
  /\ session' = [session EXCEPT ![c].port = port]
  /\ UNCHANGED <<allowed, sessions, index, proofs>>

\* Mutation: the session was there when the observation began.
StillThereAlways(c) == TRUE

StillThere(c) == c \in sessions /\ session[c].fresh

\* The reply names the relay: bindings for another endpoint are dropped, and the session
\* becomes ready, if it is still there and there is room.
Replies(c, endpoint) ==
  LET s == [session[c] EXCEPT !.bindings = {b \in @ : b.endpoint = endpoint /\ b \in allowed}, !.ready = TRUE, !.fresh = TRUE]
  IN /\ stage[c] = "reply"
     /\ IF StillThere(c) /\ s.bindings # {} /\ HasRoom(index, s)
        THEN /\ index' = index \cup Entries(c, s)
             /\ session' = [session EXCEPT ![c] = s]
             /\ stage' = [stage EXCEPT ![c] = "done"]
             /\ UNCHANGED sessions
        ELSE /\ stage' = [stage EXCEPT ![c] = "closed"]
             /\ Remove({c}) /\ UNCHANGED session
     /\ UNCHANGED <<allowed, proofs>>

\* ttl is over.
Expire(c) ==
  /\ c \in sessions /\ session[c].fresh
  /\ session' = [session EXCEPT ![c].fresh = FALSE]
  /\ UNCHANGED <<allowed, stage, sessions, index, proofs>>

Matches(c, peer, port) ==
  /\ c \in sessions /\ session[c].fresh /\ session[c].ready
  /\ session[c].peer = peer /\ session[c].port \in {0, port}

\* Admission: a proof when exactly one session fits; its port is fixed from then on. The
\* expired ones that are met on the way are removed; a second fit ends the search.
Admission(k, peer, port) ==
  LET found == At(k, index)
      fits == {e \in found : Matches(e[2], peer, port) /\ e[3] \in allowed}
      stale == {e[2] : e \in {f \in found : f[2] \in Expired}}
  IN /\ k[4] = peer
     /\ \E C \in SUBSET stale : Remove(C) /\ (Cardinality({e[2] : e \in fits}) <= 1 => C = stale)
     /\ IF Cardinality({e[2] : e \in fits}) = 1
        THEN \E e \in fits :
               /\ session' = [session EXCEPT ![e[2]].port = port, ![e[2]].fresh = TRUE]
               /\ proofs' = proofs \cup {[conn |-> e[2], binding |-> e[3], peer |-> peer, port |-> port]}
        ELSE UNCHANGED <<session, proofs>>
     /\ UNCHANGED <<allowed, stage>>

\* Proof.ValidFor, for the rule, generation and target of its own binding.
Valid(p) ==
  /\ p.conn \in sessions /\ session[p.conn].fresh /\ session[p.conn].ready
  /\ p.binding \in allowed \cap session[p.conn].bindings
  /\ session[p.conn].peer = p.peer /\ session[p.conn].port = p.port

AssocNext ==
  \/ \E sound \in SUBSET Bindings : Commit(sound)
  \/ \E r \in UNION {{b.control, b.udp} : b \in Bindings} : RevokeRule(r)
  \/ \E g \in {b.generation : b \in Bindings} : RevokeGeneration(g)
  \/ RevokeAll
  \/ \E c \in Conns :
       \/ \E peer \in Peers, S \in SUBSET Bindings : Observe(c, peer, S)
       \/ CloseObserver(c) \/ Negotiates(c) \/ Expire(c)
       \/ \E port \in Ports \cup {0} : Requests(c, port)
       \/ \E endpoint \in {b.endpoint : b \in Bindings} : Replies(c, endpoint)
  \/ \E b \in Bindings, peer \in Peers, port \in Ports : Admission(Key(b, peer), peer, port)

AssocSpec == AssocInit /\ [][AssocNext]_assocVars
-----------------------------------------------------------------------------
\* The index has the sessions that are ready, and no other: none is found after it was
\* removed, none is forgotten, and no peer has more than its share (Configure,
\* removeSessionLocked, indexSessionLocked).
IndexExact ==
  /\ {e[2] : e \in index} = {c \in sessions : session[c].ready}
  /\ \A e \in index : e[3] \in session[e[2]].bindings /\ e[1] = Key(e[3], session[e[2]].peer)
  /\ \A e \in index : Cardinality(At(e[1], index)) <= MaxPeer
  /\ Cardinality(sessions) <= MaxSessions

\* A valid proof stands for a control connection that is open and whose handshake has ended
\* well, under a binding that is allowed now, and for one source only ("validity is checked
\* against the live control TCP session").
ProofSound ==
  \A p \in proofs :
    Valid(p) =>
      /\ stage[p.conn] = "done" /\ p.binding \in allowed
      /\ \A q \in proofs : Valid(q) /\ q.conn = p.conn => q.peer = p.peer /\ q.port = p.port
=============================================================================
