------------------------------ MODULE MCNetwork ------------------------------
(***************************************************************************)
(* The traffic path of Agents and exits, one component per behaviour: which *)
(* one is chosen in the initial state (regime) and stays. They take turns   *)
(* with the variables s1..s17, of which those a component has no use for    *)
(* stay 0, so that one run checks them all.                                 *)
(***************************************************************************)
EXTENDS Naturals, TLC

CONSTANTS Two, Three  \* interchangeable values: connections, peers, packets, callers, ...

VARIABLES
  regime,  \* the component this behaviour is about
  s1, s2, s3, s4, s5, s6, s7, s8, s9, s10, s11, s12, s13, s14, s15, s16, s17

Interchangeable == Permutations(Two) \cup Permutations(Three)

MCLimits == {[conns |-> 1, ips |-> 0], [conns |-> 2, ips |-> 1]}  \* 0 is unlimited
MCLength == <<2, 2>>                                          \* packets of one frame ...
MCChunks == <<2, 1>>                                          \* ... or, on a smaller path, of two
MCExitAt == [a1 |-> "x", a2 |-> "y", a3 |-> "x"]              \* two addresses of one exit
MCNext == [x |-> {"a1", "a2"}, y |-> {"a1", "a3"}]
MCLayers == [strategy : {"none", "random-padding", "tls-mimic"}] \cup [strategy : {"timing-perturb"}, range : {0, 1}]
MCBindings ==                                                 \* two UDP rules of one control rule
  {[control |-> "t", udp |-> u, generation |-> "g", endpoint |-> "e", target |-> "x"] : u \in {"u1", "u2"}}

\* A rule of each kind, and each kind on its own with a rule that changes.
TCP == INSTANCE Relay WITH
  Dedicated <- {"dedicated"}, Routed <- {"routed"}, Forms <- {1},
  Conns <- Two, IPs <- Three, Limits <- MCLimits, MaxSlots <- 1, MaxConfigs <- 2, form <- s1, open <- s2,
  over <- s3, lapsed <- s4, account <- s5, using <- s6, pools <- s7, conn <- s8, applying <- s9, changes <- s10

Own == INSTANCE Relay WITH
  Dedicated <- {"dedicated"}, Routed <- {}, Forms <- {1, 2},
  Conns <- Two, IPs <- Three, Limits <- MCLimits, MaxSlots <- 1, MaxConfigs <- 2, form <- s1, open <- s2,
  over <- s3, lapsed <- s4, account <- s5, using <- s6, pools <- s7, conn <- s8, applying <- s9, changes <- s10

Shared == INSTANCE Relay WITH
  Dedicated <- {}, Routed <- {"routed"}, Forms <- {1, 2},
  Conns <- Two, IPs <- Three, Limits <- MCLimits, MaxSlots <- 1, MaxConfigs <- 2, form <- s1, open <- s2,
  over <- s3, lapsed <- s4, account <- s5, using <- s6, pools <- s7, conn <- s8, applying <- s9, changes <- s10

UDP == INSTANCE UDPSessions WITH
  Packets <- Three, Peers <- Two, MaxQueued <- 1, WorkerCap <- 1, PendingCap <- 1, MaxSessions <- 2,
  SessionSlots <- 2, DialSlots <- 1, MaxMade <- 3, MaxResets <- 1, queued <- s1, packet <- s2, peerOf <- s3,
  worker <- s4, bySender <- s5, udp <- s6, made <- s7, slots <- s8, dials <- s9, resets <- s10

Flow == INSTANCE DatagramFlow WITH
  Flows <- {1}, Packets <- {1, 2}, Length <- MCLength, Chunks <- MCChunks, QueueCap <- 1, Memory <- 4,
  MaxParts <- 2, InCap <- 2, up <- s1, live <- s2, chunk <- s3, path <- s4, fresh <- s5, holder <- s6,
  jobs <- s7, sending <- s8, sender <- s9, sequence <- s10, frames <- s11, picked <- s12, session <- s13,
  queued <- s14, reassembly <- s15, received <- s16, got <- s17

Server == INSTANCE DatagramServer WITH
  Links <- Two, Requests <- {"r1", "r2"}, MaxSlots <- 2, MaxTargets <- 1, MaxFlows <- 1, MaxUpdates <- 1,
  auth <- s1, updating <- s2, closed <- s3, link <- s4, conns <- s5, request <- s6, slots <- s7,
  targets <- s8, flows <- s9

Links == INSTANCE DatagramPool WITH
  Callers <- Three, Keys <- Two, MaxPooled <- 1, MaxDials <- 3, poolClosed <- s1, pooled <- s2, dialled <- s3,
  caller <- s4

Chain == INSTANCE TunnelChain WITH
  Exits <- {"x", "y"}, Endpoints <- {"a1", "a2", "a3"}, ExitAt <- MCExitAt, NextHops <- MCNext, form <- s1,
  policy <- s2, hop <- s3, agent <- s4

Tunnel == INSTANCE TunnelServer WITH
  Raws <- Three, Streams <- {"stream"}, Identities <- {"identity"}, Hosts <- {"host"}, None <- "none",
  MaxServed <- 3, MaxFail <- 1, stopped <- s1, conns <- s2, up <- s3, worker <- s4, served <- s5,
  reverse <- s6, circuit <- s7

Octets == INSTANCE ByteRelay WITH
  Layers <- MCLayers, Bytes <- 5, EntryBuffer <- 4, ExitBuffer <- 2, MaxFrame <- 6, MaxRecord <- 3,
  Width <- 8, Pads <- {0, 1}, Window <- 2, layer <- s1, offered <- s2, fin <- s3, entry <- s4, charged <- s5,
  carrier <- s6, ended <- s7, plain <- s8, session <- s9, out <- s10, target <- s11, cut <- s12,
  refused <- s13

Gate == INSTANCE BusinessGate WITH
  Gates <- Two, MaxSlots <- 1, MaxRaw <- 2, up <- s1, down <- s2, state <- s3, slot <- s4, business <- s5,
  passed <- s6, verdict <- s7

Socks == INSTANCE Association WITH
  Bindings <- MCBindings, Conns <- Two, Peers <- {1}, Ports <- {1, 2}, MaxSessions <- 2,
  MaxPeer <- 2, allowed <- s1, stage <- s2, sessions <- s3, session <- s4, index <- s5, proofs <- s6

rest14 == <<s14, s15, s16, s17>>
rest11 == <<s11, s12, s13, rest14>>
rest10 == <<s10, rest11>>
rest8 == <<s8, s9, rest10>>
rest7 == <<s7, rest8>>
rest5 == <<s5, s6, rest7>>
turnVars == <<s1, s2, s3, s4, rest5>>
networkVars == <<regime, turnVars>>

Idle14 == s14 = 0 /\ s15 = 0 /\ s16 = 0 /\ s17 = 0
Idle11 == s11 = 0 /\ s12 = 0 /\ s13 = 0 /\ Idle14
Idle10 == s10 = 0 /\ Idle11
Idle8 == s8 = 0 /\ s9 = 0 /\ Idle10
Idle7 == s7 = 0 /\ Idle8
Idle5 == s5 = 0 /\ s6 = 0 /\ Idle7

NetworkInit ==
  \/ regime = "relay" /\ TCP!RelayInit /\ Idle11
  \/ regime = "own" /\ Own!RelayInit /\ Idle11
  \/ regime = "shared" /\ Shared!RelayInit /\ Idle11
  \/ regime = "udp" /\ UDP!UDPInit /\ Idle11
  \/ regime = "flow" /\ Flow!FlowInit
  \/ regime = "server" /\ Server!ServerInit /\ Idle10
  \/ regime = "links" /\ Links!PoolInit /\ Idle5
  \/ regime = "chain" /\ Chain!ChainInit /\ Idle5
  \/ regime = "tunnel" /\ Tunnel!TunnelInit /\ Idle8
  \/ regime = "bytes" /\ Octets!RelayInit /\ Idle14
  \/ regime = "gate" /\ Gate!GateInit /\ Idle8
  \/ regime = "association" /\ Socks!AssocInit /\ Idle7

\* A step of the component r that leaves the others, and what it has no use for, alone.
Only(r, unused) == regime = r /\ UNCHANGED <<regime, unused>>

TCPStep == Only("relay", rest11) /\ TCP!RelayNext
OwnStep == Only("own", rest11) /\ Own!RelayNext
SharedStep == Only("shared", rest11) /\ Shared!RelayNext
UDPStep == Only("udp", rest11) /\ UDP!UDPNext
FlowStep == Only("flow", <<>>) /\ Flow!FlowNext
ServerStep == Only("server", rest10) /\ Server!ServerNext
LinksStep == Only("links", rest5) /\ Links!PoolNext
ChainStep == Only("chain", rest5) /\ Chain!ChainNext
TunnelStep == Only("tunnel", rest8) /\ Tunnel!TunnelNext
OctetsStep == Only("bytes", rest14) /\ Octets!RelayNext
GateStep == Only("gate", rest8) /\ Gate!GateNext
SocksStep == Only("association", rest7) /\ Socks!AssocNext

NetworkNext ==
  \/ TCPStep \/ OwnStep \/ SharedStep \/ UDPStep \/ FlowStep \/ ServerStep \/ LinksStep
  \/ ChainStep \/ TunnelStep \/ OctetsStep \/ GateStep \/ SocksStep

NetworkSpec == NetworkInit /\ [][NetworkNext]_networkVars
-----------------------------------------------------------------------------

\* Bytes of a TCP connection pass only for the rule as it is served now and within the
\* account's limits, and a revoked connection ends (Apply, acquire, revokeIngressRoute).
ConnectionsServed ==
  /\ regime = "relay" => TCP!PassingIsServed /\ TCP!LimitsHold /\ TCP!RevokedEnds
  /\ regime = "own" => Own!PassingIsServed /\ Own!LimitsHold /\ Own!RevokedEnds
  /\ regime = "shared" => Shared!PassingIsServed /\ Shared!LimitsHold /\ Shared!RevokedEnds

\* UDP packets, sessions and dials are counted exactly and within their limits; a session
\* that is over holds nothing and does not take its successor with it (openUDP, finishUDP).
SessionsAccounted == regime = "udp" => UDP!UDPAccounts /\ UDP!FinishedHoldsNothing /\ UDP!LiveIsMapped

\* Datagrams arrive whole or not at all, whatever is lost, overtakes or is cut anew, and
\* the memory counters say exactly what is held (sendPacket, accept, takeMemory, Close).
DatagramsIntact == regime = "flow" => Flow!DatagramMemory /\ Flow!PacketsIntact

\* No flow passes packets under an authorization that a commit has replaced and the server's
\* slots are exact (UpdateAuthorization, open, handle); a key has one shared connection,
\* none survives Close and nobody waits for an entry that no one dials (DialPolicy).
DatagramLinks ==
  /\ regime = "server" => Server!FlowsAreCurrent /\ Server!ServerAccounts
  /\ regime = "links" => Links!LinksShared

\* A relay chain passes no exit twice, inspects before it relays, and its nested handshakes
\* never all wait for each other (open, serveRequest).
ChainSound == regime = "chain" => Chain!ChainIsSimple /\ Chain!InspectedFirst /\ Chain!NoStandoff

\* A tunnel server's slots are exact, Close leaves no connection open, a late end of an old
\* reverse carrier does not hide the new one, and no target is refused for good.
TunnelsAccounted == regime = "tunnel" => Tunnel!SlotsExact /\ Tunnel!StopIsComplete /\ Tunnel!ReverseReachable /\ Tunnel!TargetNotStuck

\* The target receives the client's bytes, in order, after they were charged, through every
\* layer of frames, records and obfuscation (relay, Session, obfuscatedConn).
StreamIntact == regime = "bytes" => Octets!BytesIntact

\* No frame passes before the upgrade and no application frame before the verdict, and
\* inspection slots are given back (business_ws.go, from both goroutines).
GatesHold == regime = "gate" => Gate!GateKept /\ Gate!SlotsReturned

\* The index of SOCKS associations has the ready sessions and no other, and a valid proof
\* stands for an open control connection and one source (registry.go, observer.go).
AssociationsExact == regime = "association" => Socks!IndexExact /\ Socks!ProofSound
=============================================================================
