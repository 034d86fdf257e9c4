------------------------------- MODULE MuxPool -------------------------------
(***************************************************************************)
(* The pool of multiplexed carriers between nodes (internal/tunnel/mux.go). *)
(* A call wants one stream to a peer. Calls to the same peer share a        *)
(* carrier, which the first of them dials in a goroutine of its own; a      *)
(* second goroutine per call opens the stream, since yamux cannot be        *)
(* cancelled. Each call has its own deadline, a carrier can die at any      *)
(* time, and Close may come between any two steps.                          *)
(*                                                                         *)
(* A step is what happens under the pool's mutex, or one blocking call.     *)
(***************************************************************************)
EXTENDS Naturals, FiniteSets

CONSTANTS
  Calls,        \* calls of dialMux, each with its own context
  Keys,         \* peers: transport, endpoint, server name and token
  MaxCarriers,  \* entries in the pool, pending dials included (64 in the code)
  MaxStreams,   \* streams per carrier, opens in progress included (256)
  MaxEntries    \* bound: entries created

VARIABLES
  closed,    \* MuxPool.closed, and done
  sessions,  \* MuxPool.sessions: the entry of a key, or 0
  entry,     \* 1..MaxEntries -> muxEntry and the state of its dial
  call,      \* per call, where dialMux is
  expired,   \* calls whose context is over
  opener,    \* per call, where the goroutine of openStream is
  closing    \* sessions Close has still to close

vars == <<closed, sessions, entry, call, expired, opener, closing>>

Entries == 1..MaxEntries
Unused == [key |-> CHOOSE k \in Keys : TRUE, dial |-> "unused", session |-> "none", opening |-> 0, streams |-> {}]

Init ==
  /\ closed = FALSE
  /\ sessions = [k \in Keys |-> 0]
  /\ entry = [e \in Entries |-> Unused]
  /\ call = [c \in Calls |-> [pc |-> "new", entry |-> 0]]
  /\ expired = {}
  /\ opener = [c \in Calls |-> "none"]
  /\ closing = {}

Ended == {"failed", "done"}
\* dialMux returns an error.
Ends(c) == call' = [call EXCEPT ![c].pc = "failed"]
-----------------------------------------------------------------------------
(* muxCarrier *)

\* Entries whose session has closed leave the map; pending dials stay.
Sweep == [k \in Keys |-> IF sessions[k] # 0 /\ entry[sessions[k]].session = "closed" THEN 0 ELSE sessions[k]]

Used(s) == {k \in Keys : s[k] # 0}

Full(s) == Cardinality(Used(s)) >= MaxCarriers

MuxCarrier(c) ==
  /\ call[c].pc = "new"
  /\ IF closed THEN Ends(c) /\ UNCHANGED <<sessions, entry>>
     ELSE \E k \in Keys :
       LET s == Sweep
           e == CHOOSE x \in Entries : entry[x].dial = "unused"
       IN IF s[k] # 0
          THEN /\ sessions' = s
               /\ call' = [call EXCEPT ![c] = [pc |-> "wait", entry |-> s[k]]]
               /\ UNCHANGED entry
          ELSE IF Full(s) THEN Ends(c) /\ sessions' = s /\ UNCHANGED entry
          ELSE /\ \E x \in Entries : entry[x].dial = "unused"
               /\ sessions' = [s EXCEPT ![k] = e]
               /\ entry' = [entry EXCEPT ![e].key = k, ![e].dial = "dialing"]
               /\ call' = [call EXCEPT ![c] = [pc |-> "wait", entry |-> e]]
  /\ UNCHANGED <<closed, expired, opener, closing>>

\* The select at the end: any branch that is ready may be taken.
CarrierReady(c) ==
  /\ call[c].pc = "wait"
  /\ \/ c \in expired /\ Ends(c)
     \/ closed /\ Ends(c)
     \/ entry[call[c].entry].dial = "failed" /\ Ends(c)
     \/ entry[call[c].entry].dial = "ready" /\ call' = [call EXCEPT ![c].pc = "reserve"]
  /\ UNCHANGED <<closed, sessions, entry, expired, opener, closing>>
-----------------------------------------------------------------------------
(* connectMux *)

\* The dial and the yamux handshake; Close and the dial's own timeout end it too.
Dial(e) ==
  /\ entry[e].dial = "dialing"
  /\ \E s \in {"open", "none"} : entry' = [entry EXCEPT ![e].dial = "dialed", ![e].session = s]
  /\ UNCHANGED <<closed, sessions, call, expired, opener, closing>>

\* Under the mutex; a session of a closed pool is closed after it.
Publish(e) ==
  /\ entry[e].dial = "dialed"
  /\ LET ok == entry[e].session # "none" /\ ~closed
     IN /\ entry' = [entry EXCEPT ![e].dial = IF ok THEN "ready" ELSE "failed"]
        /\ sessions' = IF ~ok /\ sessions[entry[e].key] = e THEN [sessions EXCEPT ![entry[e].key] = 0] ELSE sessions
        /\ closing' = IF closed /\ entry[e].session = "open" THEN closing \cup {e} ELSE closing
  /\ UNCHANGED <<closed, call, expired, opener>>
-----------------------------------------------------------------------------
(* dialMux and openStream *)

Exhausted(e) == Cardinality(entry[e].streams) + entry[e].opening >= MaxStreams

Reserve(c) ==
  /\ call[c].pc = "reserve"
  /\ LET e == call[c].entry
     IN IF closed \/ Exhausted(e)
        THEN Ends(c) /\ UNCHANGED <<entry, opener>>
        ELSE /\ entry' = [entry EXCEPT ![e].opening = @ + 1]
             /\ call' = [call EXCEPT ![c].pc = "opening"]
             /\ opener' = [opener EXCEPT ![c] = "opening"]
  /\ UNCHANGED <<closed, sessions, expired, closing>>

\* yamux.OpenStream registers the stream before it returns; it may fail.
OpenStream(c) ==
  /\ opener[c] = "opening"
  /\ LET e == call[c].entry
     IN \/ /\ entry[e].session = "open"
           /\ entry' = [entry EXCEPT ![e].streams = @ \cup {c}]
           /\ opener' = [opener EXCEPT ![c] = "opened"]
        \/ opener' = [opener EXCEPT ![c] = "refused"] /\ UNCHANGED entry
  /\ UNCHANGED <<closed, sessions, call, expired, closing>>

\* The reservation is given back when the stream counts itself.
Opened(c) ==
  /\ opener[c] \in {"opened", "refused"}
  /\ entry' = [entry EXCEPT ![call[c].entry].opening = @ - 1]
  /\ opener' = [opener EXCEPT ![c] = IF @ = "opened" THEN "offer" ELSE "error"]
  /\ UNCHANGED <<closed, sessions, call, expired, closing>>

\* The unbuffered channel: goroutine and call meet.
Deliver(c) ==
  /\ call[c].pc = "opening"
  /\ opener[c] \in {"offer", "error"}
  /\ call' = [call EXCEPT ![c].pc = IF opener[c] = "offer" THEN "handshake" ELSE "failed"]
  /\ opener' = [opener EXCEPT ![c] = "none"]
  /\ UNCHANGED <<closed, sessions, entry, expired, closing>>

StopWaiting(c) ==
  /\ call[c].pc = "opening"
  /\ c \in expired
  /\ Ends(c)
  /\ UNCHANGED <<closed, sessions, entry, expired, opener, closing>>

\* Mutation: a stream delivered too late is dropped and not closed.
TooLateDropped(c) ==
  /\ opener[c] \in {"offer", "error"}
  /\ c \in expired
  /\ opener' = [opener EXCEPT ![c] = "none"]
  /\ call' = IF call[c].pc = "opening" THEN [call EXCEPT ![c].pc = "failed"] ELSE call
  /\ UNCHANGED <<closed, sessions, entry, expired, closing>>

\* The goroutine finds the context over and closes what it holds; a call still
\* in its select has then only the same way out.
TooLate(c) ==
  /\ opener[c] \in {"offer", "error"}
  /\ c \in expired
  /\ opener' = [opener EXCEPT ![c] = "none"]
  /\ entry' = [entry EXCEPT ![call[c].entry].streams = @ \ {c}]
  /\ call' = IF call[c].pc = "opening" THEN [call EXCEPT ![c].pc = "failed"] ELSE call
  /\ UNCHANGED <<closed, sessions, expired, closing>>

\* c.open on the stream; the end of the context closes the stream under it.
Handshake(c) ==
  /\ call[c].pc = "handshake"
  /\ \/ /\ c \notin expired
        /\ entry[call[c].entry].session = "open"
        /\ call' = [call EXCEPT ![c].pc = "using"]
        /\ UNCHANGED entry
     \/ /\ Ends(c)
        /\ entry' = [entry EXCEPT ![call[c].entry].streams = @ \ {c}]
  /\ UNCHANGED <<closed, sessions, expired, opener, closing>>

\* The connection that uses the stream ends.
Release(c) ==
  /\ call[c].pc = "using"
  /\ call' = [call EXCEPT ![c].pc = "done"]
  /\ entry' = [entry EXCEPT ![call[c].entry].streams = @ \ {c}]
  /\ UNCHANGED <<closed, sessions, expired, opener, closing>>

\* The caller's context: its timeout, or its client is gone.
Expire(c) ==
  /\ call[c].pc \notin {"new", "using"} \cup Ended
  /\ c \notin expired
  /\ expired' = expired \cup {c}
  /\ UNCHANGED <<closed, sessions, entry, call, opener, closing>>
-----------------------------------------------------------------------------
CloseSession(e) == entry' = [entry EXCEPT ![e].session = "closed", ![e].streams = {}]

\* The carrier breaks.
SessionDies(e) ==
  /\ entry[e].dial = "ready"
  /\ entry[e].session = "open"
  /\ CloseSession(e)
  /\ UNCHANGED <<closed, sessions, call, expired, opener, closing>>

Close ==
  /\ ~closed
  /\ closed' = TRUE
  /\ sessions' = [k \in Keys |-> 0]
  /\ closing' = {sessions[k] : k \in {x \in Used(sessions) : entry[sessions[x]].dial = "ready"}}
  /\ UNCHANGED <<entry, call, expired, opener>>

\* Outside the mutex, one session after the other.
CloseNext(e) ==
  /\ e \in closing
  /\ CloseSession(e)
  /\ closing' = closing \ {e}
  /\ UNCHANGED <<closed, sessions, call, expired, opener>>
-----------------------------------------------------------------------------
CallStep(c) == CarrierReady(c) \/ Reserve(c) \/ Deliver(c) \/ StopWaiting(c) \/ Handshake(c)
OpenerStep(c) == OpenStream(c) \/ Opened(c) \/ TooLate(c)
PoolStep(e) == Dial(e) \/ Publish(e) \/ CloseNext(e)

Next ==
  \/ \E c \in Calls : MuxCarrier(c) \/ CallStep(c) \/ OpenerStep(c) \/ Release(c) \/ Expire(c)
  \/ \E e \in Entries : PoolStep(e) \/ SessionDies(e)
  \/ Close

Spec == Init /\ [][Next]_vars
-----------------------------------------------------------------------------
Live(e) == entry[e].dial \in {"dialing", "dialed"} \/ entry[e].session = "open"

\* Pool, entries and calls have the shapes the code gives them, and opening counts
\* exactly the goroutines that hold a reservation.
TypeOK ==
  /\ \A k \in Keys : sessions[k] \in 0..MaxEntries
  /\ \A e \in Entries :
       /\ entry[e].dial \in {"unused", "dialing", "dialed", "ready", "failed"}
       /\ entry[e].session \in {"none", "open", "closed"}
       /\ entry[e].opening = Cardinality({c \in Calls : call[c].entry = e /\ opener[c] \in {"opening", "opened", "refused"}})
  /\ \A c \in Calls : call[c].entry \in 0..MaxEntries

\* Carriers that are open or being dialled never exceed the pool's limit, though
\* dials end after their callers and carriers die unseen (muxCarrier).
CarriersBounded == ~closed => Cardinality({e \in Entries : Live(e)}) <= MaxCarriers

\* A carrier never has more streams than its limit, whatever is being opened or
\* was opened for a call that has gone (dialMux, openStream).
StreamsBounded == \A e \in Entries : Cardinality(entry[e].streams) <= MaxStreams

\* Close leaves nothing behind: once its own loop and the dials it found are over,
\* every carrier is closed, published or not when Close came (Close, connectMux).
CloseIsComplete ==
  closed /\ closing = {} => \A e \in Entries : Live(e) => entry[e].dial \in {"dialing", "dialed"}

\* A call that failed keeps no stream: once its goroutine is over, what was opened
\* after the caller had left is closed (openStream).
NoStreamLeaks ==
  \A c \in Calls : call[c].pc = "failed" /\ opener[c] = "none" => \A e \in Entries : c \notin entry[e].streams
=============================================================================
