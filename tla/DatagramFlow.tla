---------------------------- MODULE DatagramFlow ----------------------------
(***************************************************************************)
(* UDP packets over QUIC DATAGRAM frames (internal/tunnel/datagram.go), one *)
(* direction of one link: writers queue packets under the admission mutex,  *)
(* one goroutine cuts them into frames, frames are lost or overtake each    *)
(* other, and the other end puts them together again, flow by flow. Memory  *)
(* is counted at three places; flows and the link end at any time.          *)
(*                                                                         *)
(* A payload is the set of its bytes, a byte is a packet and a position.    *)
(***************************************************************************)
EXTENDS Naturals, FiniteSets, Sequences, FiniteSetsExt

CONSTANTS
  Flows,     \* flows of the link
  Packets,   \* packets written, each once
  Length,    \* Packets -> bytes
  Chunks,    \* what a frame can hold, first the one a link starts with: <<wide, narrow>>
  QueueCap,  \* jobs in the send queue (256)
  Memory,    \* bytes at each of the three places (maxDatagramMemory)
  MaxParts,  \* packets a flow puts together at a time (4)
  InCap      \* packets a flow holds for its reader (32)

VARIABLES
  up,          \* ends of the connection that are up: "sending", "receiving"
  live,        \* flows whose context is good at the sending end
  chunk,       \* packetSize - datagramHeader, as a position of Chunks
  path,        \* the position of Chunks the path takes
  fresh,       \* packets not written yet
  holder,      \* the writer that holds admission, or NoJob
  jobs,        \* the send queue
  sending,     \* the job the sender cuts, its id, next frame and attempt, or NoJob
  sender,      \* the sender's loop: running or done
  sequence,    \* flow -> ids used
  frames,      \* frames on the way
  picked,      \* the frame the receiver has looked the flow up for, or NoJob
  session,     \* flow -> the receiving end's session: state, parts, seen, in
  queued, reassembly, received,  \* the counters
  got          \* packets readers were given

flowVars == <<up, live, chunk, path, fresh, holder, jobs, sending, sender, sequence, frames, picked, session, queued, reassembly, received, got>>
senderVars == <<live, chunk, path, fresh, holder, jobs, sending, sender, sequence, queued>>
receiverVars == <<picked, session, reassembly, received, got>>

NoJob == [flow |-> 0]
Bytes(p) == {p} \X (1..Length[p])
NewSession == [state |-> "open", parts |-> {}, seen |-> {}, in |-> <<>>]

FlowInit ==
  /\ up = {"sending", "receiving"}
  /\ live = Flows
  /\ chunk = 1 /\ path = 1
  /\ fresh = Packets
  /\ holder = NoJob /\ jobs = <<>> /\ sending = NoJob /\ sender = "running"
  /\ sequence = [f \in Flows |-> 0]
  /\ frames = {} /\ picked = NoJob
  /\ session = [f \in Flows |-> NewSession]
  /\ queued = 0 /\ reassembly = 0 /\ received = 0
  /\ got = {}
-----------------------------------------------------------------------------
(* WriteAuthorized, under the admission mutex *)

\* Admission comes before the charge: room in the queue and memory.
Admit(f, p) ==
  /\ holder = NoJob
  /\ p \in fresh
  /\ fresh' = fresh \ {p}
  /\ IF f \in live /\ "sending" \in up /\ Len(jobs) < QueueCap /\ queued + Length[p] <= Memory
     THEN holder' = [flow |-> f, packet |-> p] /\ queued' = queued + Length[p]
     ELSE UNCHANGED <<holder, queued>>
  /\ UNCHANGED <<up, live, chunk, path, jobs, sending, sender, sequence, frames, receiverVars>>

\* The charge is refused, or the packet is queued.
Authorized ==
  /\ holder # NoJob
  /\ holder' = NoJob
  /\ \/ jobs' = Append(jobs, holder) /\ UNCHANGED queued
     \/ queued' = queued - Length[holder.packet] /\ UNCHANGED jobs
  /\ UNCHANGED <<up, live, chunk, path, fresh, sending, sender, sequence, frames, receiverVars>>
-----------------------------------------------------------------------------
(* sender and sendPacket *)

\* A job is taken; a flow that is over sends nothing.
TakeJob ==
  /\ sender = "running" /\ sending = NoJob /\ jobs # <<>>
  /\ jobs' = Tail(jobs)
  /\ LET j == Head(jobs)
     IN IF j.flow \in live
        THEN sending' = [flow |-> j.flow, packet |-> j.packet, id |-> 0, next |-> 0, cut |-> 0, attempt |-> 1] /\ UNCHANGED queued
        ELSE queued' = queued - Length[j.packet] /\ UNCHANGED sending
  /\ UNCHANGED <<up, live, chunk, path, fresh, holder, sender, sequence, frames, receiverVars>>

NextID(f) == sequence[f] + 1

\* An attempt begins: the size of the moment, and an id of its own.
Attempt ==
  /\ sending # NoJob /\ sending.cut = 0
  /\ sending' = [sending EXCEPT !.id = NextID(sending.flow), !.cut = chunk, !.next = 0]
  /\ sequence' = [sequence EXCEPT ![sending.flow] = @ + 1]
  /\ UNCHANGED <<up, live, chunk, path, fresh, holder, jobs, sender, frames, queued, receiverVars>>

Count(j) == LET c == Chunks[j.cut] IN (Length[j.packet] + c - 1) \div c

Frame(j) ==
  [flow |-> j.flow, id |-> j.id, total |-> Length[j.packet], index |-> j.next, count |-> Count(j),
   payload |-> {b \in Bytes(j.packet) : b[2] > j.next * Chunks[j.cut] /\ b[2] <= (j.next + 1) * Chunks[j.cut]}]

\* The packet is done with, sent or given up.
JobDone == sending' = NoJob /\ queued' = queued - Length[sending.packet]

\* The next frame: QUIC takes it, finds it too large (one more attempt), or fails.
SendFrame ==
  /\ sending # NoJob /\ sending.cut # 0
  /\ \/ /\ sending.cut >= path /\ "sending" \in up
        /\ frames' = frames \cup {Frame(sending)}
        /\ IF sending.next + 1 = Count(sending) THEN JobDone
           ELSE sending' = [sending EXCEPT !.next = @ + 1] /\ UNCHANGED queued
        /\ UNCHANGED chunk
     \/ /\ sending.cut < path
        /\ chunk' = path
        /\ IF sending.attempt = 2 THEN JobDone
           ELSE sending' = [sending EXCEPT !.attempt = 2, !.cut = 0] /\ UNCHANGED queued
        /\ UNCHANGED frames
     \/ "sending" \notin up /\ JobDone /\ UNCHANGED <<frames, chunk>>
  /\ UNCHANGED <<up, live, path, fresh, holder, jobs, sender, sequence, receiverVars>>

\* The path takes smaller frames from now on.
PathShrinks ==
  /\ path < Len(Chunks)
  /\ path' = path + 1
  /\ UNCHANGED <<up, live, chunk, fresh, holder, jobs, sending, sender, sequence, frames, queued, receiverVars>>

\* Mutation: the sender ends without taking the admission mutex.
SenderJustEnds == "sending" \notin up /\ sending = NoJob

\* The link is over and no writer is between admission and queue.
SenderMayEnd == "sending" \notin up /\ sending = NoJob /\ holder = NoJob

SenderEnds ==
  /\ sender = "running"
  /\ SenderMayEnd
  /\ queued' = queued - MapThenSumSet(LAMBDA i : Length[jobs[i].packet], 1..Len(jobs))
  /\ jobs' = <<>>
  /\ sender' = "done"
  /\ UNCHANGED <<up, live, chunk, path, fresh, holder, sending, sequence, frames, receiverVars>>
-----------------------------------------------------------------------------
(* receive and accept *)

Opened(f) == session[f].state \in {"open", "cancelled"}

\* A frame arrives, in any order; the flow is looked up under the link's mutex.
Pick(x) ==
  /\ x \in frames /\ picked = NoJob /\ "receiving" \in up
  /\ frames' = frames \ {x}
  /\ picked' = IF Opened(x.flow) THEN x ELSE NoJob
  /\ UNCHANGED <<up, senderVars, session, reassembly, received, got>>

Lose(x) == x \in frames /\ frames' = frames \ {x} /\ UNCHANGED <<up, senderVars, receiverVars>>

Same(a, x) == a.id = x.id
SizeOf(a) == MapThenSumSet(LAMBDA y : Cardinality(y.payload), a.have)

\* accept under the session's mutex: the assembly with the frame in it, and the
\* packet when that was the last one.
Accept ==
  /\ picked # NoJob
  /\ picked' = NoJob
  /\ LET x == picked
         s == session[x.flow]
         old == {a \in s.parts : Same(a, x)}
         known == old # {}
         a == IF known THEN CHOOSE y \in old : TRUE ELSE [id |-> x.id, total |-> x.total, count |-> x.count, have |-> {}]
         fits == /\ a.total = x.total /\ a.count = x.count
                 /\ \A y \in a.have : y.index # x.index
                 /\ Cardinality(x.payload) <= a.total - SizeOf(a)
         b == [a EXCEPT !.have = @ \cup {x}]
         whole == UNION {y.payload : y \in b.have}
         room == Len(s.in) < InCap /\ received + x.total <= Memory
         parts == IF x.count = 1 THEN s.parts
                  ELSE IF ~known /\ (Cardinality(s.parts) >= MaxParts \/ reassembly + x.total > Memory) THEN s.parts
                  ELSE IF ~fits THEN s.parts
                  ELSE IF Cardinality(b.have) = b.count THEN s.parts \ old ELSE (s.parts \ old) \cup {b}
         done == \/ x.count = 1 /\ Cardinality(x.payload) = x.total
                 \/ fits /\ Cardinality(b.have) = b.count /\ SizeOf(b) = x.total
         held(P) == MapThenSumSet(LAMBDA y : y.total, P)
     IN IF s.state # "open" \/ x.id \in s.seen
        THEN UNCHANGED <<session, reassembly, received>>
        ELSE /\ reassembly' = reassembly - held(s.parts) + held(parts)
             /\ session' = [session EXCEPT ![x.flow] =
                  [s EXCEPT !.parts = parts,
                            !.seen = IF done THEN @ \cup {x.id} ELSE @,
                            !.in = IF done /\ room THEN Append(@, IF x.count = 1 THEN x.payload ELSE whole) ELSE @]]
             /\ received' = IF done /\ room THEN received + x.total ELSE received
  /\ UNCHANGED <<up, senderVars, frames, got>>

\* expireLocked: an assembly is given up after fragmentTTL.
Expire(f) ==
  /\ \E a \in session[f].parts :
       /\ session' = [session EXCEPT ![f].parts = @ \ {a}]
       /\ reassembly' = reassembly - a.total
  /\ UNCHANGED <<up, senderVars, frames, picked, received, got>>

Read(f) ==
  /\ session[f].in # <<>>
  /\ got' = got \cup {Head(session[f].in)}
  /\ received' = received - Cardinality(Head(session[f].in))
  /\ session' = [session EXCEPT ![f].in = Tail(@)]
  /\ UNCHANGED <<up, senderVars, frames, picked, reassembly>>
-----------------------------------------------------------------------------
(* DatagramSession.Close at either end, and the end of the link *)

CloseWriter(f) ==
  /\ f \in live
  /\ live' = live \ {f}
  /\ UNCHANGED <<up, chunk, path, fresh, holder, jobs, sending, sender, sequence, queued, frames, receiverVars>>

Given(f) == MapThenSumSet(LAMBDA a : a.total, session[f].parts)

\* Cancelled, taken off the link, assemblies dropped, reader's queue emptied.
CloseReader(f) ==
  /\ \/ /\ session[f].state = "open"
        /\ session' = [session EXCEPT ![f].state = "cancelled"]
        /\ UNCHANGED <<reassembly, received>>
     \/ /\ session[f].state = "cancelled"
        /\ session' = [session EXCEPT ![f].state = "cleared", ![f].parts = {}]
        /\ reassembly' = reassembly - Given(f)
        /\ UNCHANGED received
     \/ /\ session[f].state = "cleared"
        /\ session' = [session EXCEPT ![f].state = "closed", ![f].in = <<>>]
        /\ received' = received - MapThenSumSet(LAMBDA i : Cardinality(session[f].in[i]), 1..Len(session[f].in))
        /\ UNCHANGED reassembly
  /\ UNCHANGED <<up, senderVars, frames, picked, got>>

\* The connection ends; its flows are derived from its context.
LinkEnds(end) ==
  /\ end \in up
  /\ up' = up \ {end}
  /\ UNCHANGED <<senderVars, frames, receiverVars>>

FlowNext ==
  \/ \E f \in Flows, p \in Packets : Admit(f, p)
  \/ Authorized \/ TakeJob \/ Attempt \/ SendFrame \/ PathShrinks \/ SenderEnds
  \/ \E x \in frames : Pick(x) \/ Lose(x)
  \/ Accept
  \/ \E f \in Flows : Expire(f) \/ Read(f) \/ CloseWriter(f) \/ CloseReader(f)
  \/ \E end \in {"sending", "receiving"} : LinkEnds(end)

FlowSpec == FlowInit /\ [][FlowNext]_flowVars
-----------------------------------------------------------------------------
Sum(j) == IF j = NoJob THEN 0 ELSE Length[j.packet]

\* The three counters say exactly what is held, within the limit: queued or being
\* cut or with a writer, in assemblies, and with readers. What ended holds nothing:
\* no buffer outlives the sender or a closed flow (takeMemory, sender, accept, Close).
DatagramMemory ==
  /\ queued = Sum(holder) + Sum(sending) + MapThenSumSet(LAMBDA i : Length[jobs[i].packet], 1..Len(jobs))
  /\ reassembly = MapThenSumSet(LAMBDA f : MapThenSumSet(LAMBDA a : a.total, session[f].parts), Flows)
  /\ received = MapThenSumSet(LAMBDA f : MapThenSumSet(LAMBDA i : Cardinality(session[f].in[i]), 1..Len(session[f].in)), Flows)
  /\ queued <= Memory /\ reassembly <= Memory /\ received <= Memory
  /\ sender = "done" => jobs = <<>> /\ queued = 0
  /\ \A f \in Flows : session[f].state = "closed" => session[f].parts = {} /\ session[f].in = <<>>

\* What a reader gets is a packet somebody wrote, whole, whatever frames were lost,
\* overtook others or were cut anew for a smaller path (sendPacket, accept).
PacketsIntact ==
  \A x \in got \cup UNION {{session[f].in[i] : i \in 1..Len(session[f].in)} : f \in Flows} :
    \E p \in Packets : x = Bytes(p)
=============================================================================
