------------------------------ MODULE Services ------------------------------
(***************************************************************************)
(* The services an Agent runs for other nodes                               *)
(* (internal/agent/service_manager.go): exits and hubs that listen, and     *)
(* reverse carriers that dial out. A configuration replaces the whole set   *)
(* under the manager's mutex, which Prepare takes and commit gives back, so *)
(* a commit is one step and an abort changes nothing. Entries that did not  *)
(* change are kept; the others get a new generation over the same physical  *)
(* sockets. Their goroutines, the expiry timer and the callbacks of the     *)
(* carriers take the mutex one by one, when they get to it.                 *)
(***************************************************************************)
EXTENDS Naturals, FiniteSets

CONSTANTS
  Listening,   \* services that listen: exits and hubs, with a datagram server
  Reverse,     \* reverse carriers
  Addrs,       \* addresses to listen on
  Versions,    \* what else a service's configuration can say
  MaxEntries,  \* bound: entries in memory
  MaxCommits   \* bound: configurations committed

\* A service listens or dials out; version 0 is that of a service that is absent.
ASSUME ServicesConstants ==
  Listening \cap Reverse = {} /\ Versions \subseteq Nat \ {0} /\ MaxEntries \in Nat

VARIABLES
  entries,     \* ServiceManager.entries: service -> entry, 0 when absent
  entry,       \* 1..MaxEntries -> serviceEntry and where its goroutine is
  socket,      \* address -> [open, active]: serviceSocket
  datagram,    \* 1..MaxEntries -> DatagramServer made for that entry
  generation,  \* ServiceManager.generation
  lapsed,      \* the validity of the committed configuration is over
  firing       \* generations whose timer has gone off and waits for the mutex

serviceVars == <<entries, entry, socket, datagram, generation, lapsed, firing>>

ServiceIDs == Listening \cup Reverse
EntryNumbers == 1..MaxEntries
Absent == [version |-> 0, addr |-> "none"]
NoEntry == [id |-> "none", config |-> Absent, datagram |-> 0, closed |-> FALSE, ready |-> FALSE, error |-> "", run |-> "none"]
NoDatagram == [addr |-> "none", open |-> FALSE, grants |-> 0]

ServicesInit ==
  /\ entries = [i \in ServiceIDs |-> 0]
  /\ entry = [n \in EntryNumbers |-> NoEntry]
  /\ socket = [a \in Addrs |-> [open |-> FALSE, active |-> 0]]
  /\ datagram = [n \in EntryNumbers |-> NoDatagram]
  /\ generation = 0
  /\ lapsed = FALSE
  /\ firing = {}

Made == {n \in EntryNumbers : entry[n].run # "none"}
\* An entry nobody refers to is garbage, and its number free again.
Unused == {n \in EntryNumbers : entry[n].run = "none" /\ ~datagram[n].open /\ \A m \in EntryNumbers : entry[m].datagram # n}
Current == {entries[i] : i \in ServiceIDs} \ {0}

\* liveService: the entry may be kept.
LiveService(n) == n # 0 /\ entry[n].error \notin {"expired", "failed", "datagram failed"}
-----------------------------------------------------------------------------
(* Prepare and commit *)

Configs == [Listening -> {Absent} \cup [version : Versions, addr : Addrs]] 
ReverseConfigs == [Reverse -> {Absent} \cup [version : Versions, addr : {"none"}]]

Keeps(i, c) == LiveService(entries[i]) /\ entry[entries[i]].config = c[i]

Staged(c) == {i \in ServiceIDs : c[i] # Absent /\ ~Keeps(i, c)}

\* The datagram server of the old entry goes on when its address stays.
Reuses(i, c) ==
  /\ i \in Listening
  /\ LiveService(entries[i])
  /\ datagram[entry[entries[i]].datagram].addr = c[i].addr

Bound(a) == \E n \in EntryNumbers : datagram[n].open /\ datagram[n].addr = a

\* Addresses are used once, and a new datagram server needs a free one.
Bindable(c) ==
  /\ \A i, j \in Listening : i # j /\ c[i] # Absent /\ c[j] # Absent => c[i].addr # c[j].addr
  /\ \A i \in Staged(c) \cap Listening : ~Reuses(i, c) => ~Bound(c[i].addr)

\* e.close: the context, the virtual listener, the server and the datagram server.
ClosedEntry(e) == [e EXCEPT !.closed = TRUE]

\* What is closed, replaced and has no goroutine any more is garbage.
Replaced(e) == IF e.run = "ended" THEN NoEntry ELSE ClosedEntry(e)

\* Mutation: an entry that is replaced closes the datagram server it shared.
ClosesReused(i, c) == entries[i] # 0 /\ (c[i] = Absent \/ ~Keeps(i, c))

\* Does the old entry of a service still own its datagram server when it closes?
ClosesDatagram(i, c) == entries[i] # 0 /\ (c[i] = Absent \/ (~Keeps(i, c) /\ ~Reuses(i, c)))

\* What the commit takes out of the table, and the datagram servers closed with it.
Leaving(c) == {entries[i] : i \in {x \in ServiceIDs : entries[x] # 0 /\ ~Keeps(x, c)}}
Closing(c) == {entry[entries[i]].datagram : i \in {x \in Listening : ClosesDatagram(x, c)}}

\* numbers gives every staged service its entry.
Server(i, c, numbers) == IF Reuses(i, c) THEN entry[entries[i]].datagram ELSE numbers[i]
Started(i, c, numbers) ==
  [NoEntry EXCEPT !.id = i, !.config = c[i],
     !.datagram = IF i \in Listening THEN Server(i, c, numbers) ELSE 0,
     !.ready = i \in Listening,
     !.run = IF i \in Listening THEN "serving" ELSE "dialling"]

Commit(c, numbers) ==
  /\ generation < MaxCommits
  /\ Bindable(c)
  /\ LET staged == Staged(c)
         leaving == Leaving(c)
         closing == Closing(c)
         used == {c[i].addr : i \in {x \in Listening : c[x] # Absent}}
     IN /\ entries' = [i \in ServiceIDs |-> IF c[i] = Absent THEN 0 ELSE IF i \in staged THEN numbers[i] ELSE entries[i]]
        /\ entry' = [n \in EntryNumbers |->
             IF \E i \in staged : numbers[i] = n THEN Started(CHOOSE i \in staged : numbers[i] = n, c, numbers)
             ELSE IF n \in leaving THEN Replaced(entry[n]) ELSE entry[n]]
        /\ socket' = [a \in Addrs |->
             IF a \notin used THEN [open |-> FALSE, active |-> 0]
             ELSE [open |-> TRUE,
                   active |-> IF \E i \in staged \cap Listening : c[i].addr = a
                              THEN numbers[CHOOSE i \in staged \cap Listening : c[i].addr = a]
                              ELSE IF socket[a].active \in leaving THEN 0 ELSE socket[a].active]]
        /\ datagram' = [n \in EntryNumbers |->
             IF n \in closing THEN NoDatagram
             ELSE IF \E i \in staged \cap Listening : Server(i, c, numbers) = n
             THEN LET i == CHOOSE x \in staged \cap Listening : Server(x, c, numbers) = n
                  IN [addr |-> c[i].addr, open |-> TRUE, grants |-> c[i].version]
             ELSE datagram[n]]
  /\ generation' = generation + 1
  /\ lapsed' = FALSE
  /\ UNCHANGED firing

Commits ==
  \E lc \in Configs, rc \in ReverseConfigs :
    LET c == [i \in ServiceIDs |-> IF i \in Listening THEN lc[i] ELSE rc[i]]
    IN \E numbers \in [Staged(c) -> Unused] :
         /\ \A i, j \in Staged(c) : i # j => numbers[i] # numbers[j]
         /\ \A i \in Staged(c), n \in Unused : n < numbers[i] => \E j \in Staged(c) : numbers[j] = n
         /\ Commit(c, numbers)
-----------------------------------------------------------------------------
(* The expiry timer *)

\* Validity ends; the timer's goroutine starts and waits for the mutex.
Lapse ==
  /\ generation > 0 /\ ~lapsed
  /\ lapsed' = TRUE
  /\ firing' = firing \cup {generation}
  /\ UNCHANGED <<entries, entry, socket, datagram, generation>>

IsNewest(g) == g = generation

\* Everything current is closed and marked, unless there is a newer configuration.
\* A closed listener is no longer the active one of its socket.
Expire(g) ==
  /\ g \in firing
  /\ firing' = firing \ {g}
  /\ IF IsNewest(g)
     THEN /\ entry' = [n \in EntryNumbers |-> IF n \in Current THEN [entry[n] EXCEPT !.closed = TRUE, !.ready = FALSE, !.error = "expired"] ELSE entry[n]]
          /\ socket' = [a \in Addrs |-> IF socket[a].active \in Current THEN [socket[a] EXCEPT !.active = 0] ELSE socket[a]]
          /\ datagram' = [n \in EntryNumbers |-> IF \E m \in Current : entry[m].datagram = n THEN NoDatagram ELSE datagram[n]]
     ELSE UNCHANGED <<entry, socket, datagram>>
  /\ UNCHANGED <<entries, generation, lapsed>>
-----------------------------------------------------------------------------
(* The goroutines of an entry *)

\* The entry closes itself and is marked.
Fails(n, why) ==
  /\ entry' = [entry EXCEPT ![n] = [entry[n] EXCEPT !.closed = TRUE, !.ready = FALSE, !.error = why, !.run = "ended"]]
  /\ socket' = [a \in Addrs |-> IF socket[a].active = n THEN [socket[a] EXCEPT !.active = 0] ELSE socket[a]]
  /\ datagram' = IF entry[n].datagram # 0 THEN [datagram EXCEPT ![entry[n].datagram] = NoDatagram] ELSE datagram

\* Its last goroutine returns.
Ended(n) == IF n \in Current THEN [entry[n] EXCEPT !.run = "ended"] ELSE NoEntry

\* Serve returns: nothing more when the entry was closed, or else failed.
ServeEnds(n) ==
  /\ entry[n].run = "serving"
  /\ \/ entry[n].closed /\ entry' = [entry EXCEPT ![n] = Ended(n)] /\ UNCHANGED <<socket, datagram>>
     \/ ~entry[n].closed /\ n \in Current /\ Fails(n, "failed")
  /\ UNCHANGED <<entries, generation, lapsed, firing>>

\* ServeBound returns and failedDatagram finds the server in use and no error yet.
DatagramEnds(n) ==
  /\ n \in Current
  /\ entry[n].datagram # 0
  /\ datagram[entry[n].datagram].open
  /\ entry[n].error = ""
  /\ Fails(n, "datagram failed")
  /\ UNCHANGED <<entries, generation, lapsed, firing>>

\* OnReverseState.
ReverseState(n, ready, error, run) ==
  /\ entry' = [entry EXCEPT ![n] = [entry[n] EXCEPT !.ready = ready, !.error = error, !.run = run]]
  /\ UNCHANGED <<entries, socket, datagram, generation, lapsed, firing>>

\* RunReverse: the carrier comes up; its streams are served until it breaks or the
\* context ends. Both are reported, also when the context is over by then.
CarrierUp(n) == entry[n].run = "dialling" /\ ReverseState(n, TRUE, "", "carrying")

CarrierDown(n) == entry[n].run = "carrying" /\ ReverseState(n, FALSE, "", "backoff")

ReverseDialFails(n) == entry[n].run = "dialling" /\ ReverseState(n, FALSE, "unavailable", "backoff")

\* The next turn of the loop, or its end.
Again(n) ==
  /\ entry[n].run = "backoff"
  /\ entry' = [entry EXCEPT ![n] = IF entry[n].closed THEN Ended(n) ELSE [entry[n] EXCEPT !.run = "dialling"]]
  /\ UNCHANGED <<entries, socket, datagram, generation, lapsed, firing>>

ServicesNext ==
  \/ Commits
  \/ Lapse
  \/ \E g \in 1..MaxCommits : Expire(g)
  \/ \E n \in EntryNumbers : ServeEnds(n) \/ DatagramEnds(n) \/ CarrierUp(n) \/ CarrierDown(n) \/ ReverseDialFails(n) \/ Again(n)

ServicesSpec == ServicesInit /\ [][ServicesNext]_serviceVars
-----------------------------------------------------------------------------
\* What a listening service needs to be reached, and with the grants it has now.
Reachable(n) ==
  LET e == entry[n]
  IN /\ ~e.closed
     /\ socket[e.config.addr].open /\ socket[e.config.addr].active = n
     /\ datagram[e.datagram].open /\ datagram[e.datagram].addr = e.config.addr
     /\ datagram[e.datagram].grants = e.config.version

\* A listening service that would be kept by the next configuration is reachable, on
\* its own sockets and under its own grants, however the generations before it were
\* replaced, moved, expired or failed (Prepare, serviceListener.Close, failedDatagram).
KeptIsReachable ==
  \A i \in Listening : LiveService(entries[i]) => Reachable(entries[i])

\* Only what is over is closed: a service of a valid configuration is closed by a
\* failure of its own and not by the timer of a configuration it outlived.
ClosedIsOver ==
  \A i \in ServiceIDs :
    entries[i] # 0 /\ entry[entries[i]].error = "expired" => lapsed

\* Nothing outlives its place: a generation that is not current is closed, an open
\* socket belongs to a configured service, an open datagram server to a current one.
NoLeftovers ==
  /\ \A n \in Made : n \notin Current => entry[n].closed
  /\ \A a \in Addrs : socket[a].open => \E n \in Current : entry[n].config.addr = a
  /\ \A n \in EntryNumbers : datagram[n].open => \E m \in Current : entry[m].datagram = n /\ ~entry[m].closed

\* A managed service that the next configuration would keep is reachable under its
\* own grants; nothing valid is closed and nothing outlives its place (Prepare,
\* serviceListener.Close, failedDatagram, Expire).
ServicesReachable == KeptIsReachable /\ ClosedIsOver /\ NoLeftovers

\* A reverse carrier that the next configuration would keep is kept up: its loop is
\* there to reconnect ("RunReverse keeps an outbound authenticated carrier open and
\* reconnects after disconnect").
KeptReconnects ==
  \A i \in Reverse : LiveService(entries[i]) => ~entry[entries[i]].closed
=============================================================================
