---------------------------- MODULE ServicesProofs ----------------------------
(***************************************************************************)
(* Proofs about Services: however configurations follow each other, move    *)
(* and drop services while listeners, datagram servers and timers of older  *)
(* generations end, a service that the next configuration would keep is     *)
(* reachable on its own sockets under its own grants, and nothing outlives  *)
(* its place.  For any number of services, addresses and generations.       *)
(*                                                                         *)
(* What makes it inductive is whose everything is: an entry of the table    *)
(* carries its service, two services of the table share neither an address  *)
(* nor a datagram server, and a listener is closed only with an error that  *)
(* keeps it from being kept.                                                *)
(***************************************************************************)
EXTENDS Services, TLAPS

Over == {"expired", "failed", "datagram failed"}

Configured == [version : Versions, addr : Addrs \cup {"none"}]
EntryRecord == [id : ServiceIDs \cup {"none"}, config : Configured \cup {Absent}, datagram : 0..MaxEntries, closed : BOOLEAN,
                ready : BOOLEAN, error : Over \cup {"", "unavailable"},
                run : {"none", "serving", "dialling", "carrying", "backoff", "ended"}]

Types ==
  /\ entries \in [ServiceIDs -> 0..MaxEntries]
  /\ entry \in [EntryNumbers -> EntryRecord]
  /\ socket \in [Addrs -> [open : BOOLEAN, active : 0..MaxEntries]]
  /\ datagram \in [EntryNumbers -> [addr : Addrs \cup {"none"}, open : BOOLEAN, grants : Versions \cup {0}]]
  /\ generation \in Nat /\ firing \subseteq 0..generation /\ lapsed \in BOOLEAN

\* An entry of the table is the service's: a listener has an address and a datagram server.
Own(i) ==
  LET e == entry[entries[i]]
  IN /\ e.id = i /\ e.run # "none" /\ e.config # Absent
     /\ i \in Listening => /\ e.config.addr \in Addrs /\ e.datagram # 0 /\ e.run \in {"serving", "ended"}
                           /\ e.closed => e.error \in Over
     /\ i \in Reverse => e.datagram = 0 /\ e.run # "serving"

Apart ==
  \A i, j \in Listening : i # j /\ entries[i] # 0 /\ entries[j] # 0 =>
    /\ entry[entries[i]].config.addr # entry[entries[j]].config.addr
    /\ entry[entries[i]].datagram # entry[entries[j]].datagram

ServicesInv ==
  /\ Types
  /\ \A i \in ServiceIDs : entries[i] # 0 => Own(i)
  /\ Apart
  /\ generation \in firing => lapsed
  /\ ServicesReachable
-----------------------------------------------------------------------------
(* Who is where *)

LEMMA Numbers == /\ \A x \in 0..MaxEntries : x # 0 => x \in EntryNumbers
                 /\ EntryNumbers \subseteq 0..MaxEntries /\ 0 \in 0..MaxEntries /\ 0 \notin EntryNumbers
BY ServicesConstants DEF EntryNumbers

LEMMA Places ==
  ASSUME ServicesInv
  PROVE  /\ \A i \in ServiceIDs : entries[i] # 0 => entries[i] \in EntryNumbers /\ entries[i] \in Current /\ Own(i)
         /\ \A n \in Current : n \in EntryNumbers /\ n # 0 /\ \E i \in ServiceIDs : entries[i] = n
         /\ \A i, j \in ServiceIDs : entries[i] # 0 /\ entries[i] = entries[j] => i = j
<1>1. \A i \in ServiceIDs : entries[i] \in 0..MaxEntries
  BY DEF ServicesInv, Types
<1>2. \A i \in ServiceIDs : entries[i] # 0 => entries[i] \in EntryNumbers /\ entries[i] \in Current
  BY <1>1, ServicesConstants DEF EntryNumbers, Current
<1>3. \A n \in Current : n # 0 /\ \E i \in ServiceIDs : entries[i] = n
  BY DEF Current
<1>4. \A i \in ServiceIDs : entries[i] # 0 => Own(i)
  BY DEF ServicesInv
<1>5. \A i, j \in ServiceIDs : entries[i] # 0 /\ entries[i] = entries[j] => i = j
  BY <1>4 DEF Own
<1> QED
  BY <1>2, <1>3, <1>4, <1>5

LEMMA Shapes ==
  ASSUME ServicesInv, NEW n \in EntryNumbers
  PROVE  entry[n] \in EntryRecord /\ datagram[n] \in [addr : Addrs \cup {"none"}, open : BOOLEAN, grants : Versions \cup {0}]
BY DEF ServicesInv, Types

LEMMA Blanks ==
  /\ NoEntry \in EntryRecord /\ NoEntry.run = "none" /\ NoEntry.closed = FALSE /\ NoEntry.error = "" /\ NoEntry.datagram = 0
  /\ NoDatagram \in [addr : Addrs \cup {"none"}, open : BOOLEAN, grants : Versions \cup {0}] /\ NoDatagram.open = FALSE
BY ServicesConstants DEF NoEntry, NoDatagram, EntryRecord, Over

LEMMA InitServices == ASSUME ServicesInit PROVE ServicesInv
<1>1. Types
  <2>1. 0 \in 0..MaxEntries
    BY ServicesConstants
  <2>2. generation \in Nat /\ firing \subseteq 0..generation /\ lapsed \in BOOLEAN
    BY DEF ServicesInit
  <2>3. entries \in [ServiceIDs -> 0..MaxEntries] /\ socket \in [Addrs -> [open : BOOLEAN, active : 0..MaxEntries]]
    BY <2>1 DEF ServicesInit
  <2>4. /\ entry \in [EntryNumbers -> EntryRecord]
        /\ datagram \in [EntryNumbers -> [addr : Addrs \cup {"none"}, open : BOOLEAN, grants : Versions \cup {0}]]
    BY Blanks DEF ServicesInit
  <2> QED
    BY <2>2, <2>3, <2>4 DEF Types
<1>2. \A i \in ServiceIDs : entries[i] = 0
  BY DEF ServicesInit
<1>3. Listening \subseteq ServiceIDs
  BY DEF ServiceIDs
<1>4. Apart
  BY <1>2, <1>3 DEF Apart
<1>5. KeptIsReachable /\ ClosedIsOver
  BY <1>2, <1>3 DEF KeptIsReachable, ClosedIsOver, LiveService
<1>6. NoLeftovers
  <2>1. Made = {}
    BY Blanks DEF ServicesInit, Made
  <2>2. \A a \in Addrs : ~socket[a].open
    BY DEF ServicesInit
  <2>3. \A n \in EntryNumbers : ~datagram[n].open
    BY Blanks DEF ServicesInit
  <2> QED
    BY <2>1, <2>2, <2>3 DEF NoLeftovers
<1>7. generation \notin firing
  BY DEF ServicesInit
<1> QED
  BY <1>1, <1>2, <1>4, <1>5, <1>6, <1>7 DEF ServicesInv, ServicesReachable
-----------------------------------------------------------------------------
(* The table stays: goroutines and timers *)

\* Entry n may lose its goroutine or be marked; whose it is does not change.
Marked(n) ==
  LET e == entry[n]
      f == entry'[n]
  IN /\ f.id = e.id /\ f.config = e.config /\ f.datagram = e.datagram /\ (f.run = "none" <=> e.run = "none")
     /\ e.closed => f.closed
     /\ e.run \in {"serving", "ended"} => f.run \in {"serving", "ended"} /\ (f.closed => f.error \in Over \/ (f.error = e.error /\ e.closed))
     /\ e.run # "serving" => f.run # "serving"

LEMMA TableStays ==
  ASSUME ServicesInv, entries' = entries, \A n \in Current : Marked(n)
  PROVE  /\ \A i \in ServiceIDs : entries'[i] # 0 => Own(i)'
         /\ Apart'
<1>1. ASSUME NEW i \in ServiceIDs, entries'[i] # 0 PROVE Own(i)'
  <2>1. entries[i] \in Current /\ Own(i) /\ entries'[i] = entries[i]
    BY <1>1, Places
  <2> QED
    BY <2>1 DEF Own, Marked
<1>2. Apart'
  <2> SUFFICES ASSUME NEW i \in Listening, NEW j \in Listening, i # j, entries[i] # 0, entries[j] # 0
               PROVE  /\ entry'[entries[i]].config.addr # entry'[entries[j]].config.addr
                      /\ entry'[entries[i]].datagram # entry'[entries[j]].datagram
    BY DEF Apart
  <2>1. Marked(entries[i]) /\ Marked(entries[j])
    BY Places DEF ServiceIDs
  <2> QED
    BY <2>1 DEF Marked, ServicesInv, Apart
<1> QED
  BY <1>1, <1>2

\* ... and is no more and no less over than it was.
Calm(n) ==
  /\ entry'[n].closed = entry[n].closed
  /\ entry'[n].error = "expired" => entry[n].error = "expired"
  /\ entry[n].run \in {"serving", "ended"} => entry'[n].error = entry[n].error

\* A goroutine's step in an entry, of the table or of an older generation.
LEMMA EntrySteps ==
  ASSUME ServicesInv,
         entries' = entries, socket' = socket, datagram' = datagram, generation' = generation, lapsed' = lapsed,
         firing' \subseteq firing,
         entry' \in [EntryNumbers -> EntryRecord],
         \A n \in Current : Marked(n) /\ Calm(n),
         \A n \in EntryNumbers \ Current : entry'[n].run # "none" => entry[n].run # "none" /\ entry'[n].closed = entry[n].closed
  PROVE  ServicesInv'
<1>1. Types'
  BY DEF ServicesInv, Types
<1>2. (\A i \in ServiceIDs : entries'[i] # 0 => Own(i)') /\ Apart'
  BY TableStays
<1>3. KeptIsReachable'
  <2> SUFFICES ASSUME NEW i \in Listening, LiveService(entries[i])'
               PROVE  Reachable(entries[i])'
    BY DEF KeptIsReachable
  <2>0. i \in ServiceIDs /\ entries'[i] = entries[i]
    BY DEF ServiceIDs
  <2>1. entries[i] # 0 /\ entries[i] \in Current /\ Own(i) /\ entry'[entries[i]].error \notin Over
    BY <2>0, Places DEF LiveService, Over
  <2>2. entry'[entries[i]].error = entry[entries[i]].error
    BY <2>1 DEF Calm, Own
  <2>3. Reachable(entries[i])
    BY <2>1, <2>2 DEF ServicesInv, ServicesReachable, KeptIsReachable, LiveService, Over
  <2>4. Marked(entries[i]) /\ Calm(entries[i])
    BY <2>1
  <2> QED
    BY <2>0, <2>3, <2>4 DEF Marked, Calm, Reachable
<1>4. ClosedIsOver'
  <2> SUFFICES ASSUME NEW i \in ServiceIDs, entries[i] # 0, entry'[entries[i]].error = "expired" PROVE lapsed
    BY DEF ClosedIsOver
  <2>1. Calm(entries[i])
    BY Places
  <2> QED
    BY <2>1 DEF Calm, ServicesInv, ServicesReachable, ClosedIsOver
<1>5. NoLeftovers'
  <2>0. Current' = Current /\ NoLeftovers
    BY DEF Current, ServicesInv, ServicesReachable
  <2>1. ASSUME NEW n \in Made', n \notin Current PROVE entry'[n].closed
    BY <2>0, <2>1 DEF NoLeftovers, Made
  <2>2. ASSUME NEW a \in Addrs, socket[a].open PROVE \E n \in Current : entry'[n].config.addr = a
    BY <2>0, <2>2 DEF NoLeftovers, Marked
  <2>3. ASSUME NEW n \in EntryNumbers, datagram[n].open PROVE \E m \in Current : entry'[m].datagram = n /\ ~entry'[m].closed
    BY <2>0, <2>3 DEF NoLeftovers, Marked, Calm
  <2> QED
    BY <2>0, <2>1, <2>2, <2>3 DEF NoLeftovers
<1>6. generation' \in firing' => lapsed'
  BY DEF ServicesInv
<1> QED
  BY <1>1, <1>2, <1>3, <1>4, <1>5, <1>6 DEF ServicesInv, ServicesReachable

LEMMA LapseStep == ASSUME ServicesInv, Lapse PROVE ServicesInv'
<1> USE DEF Lapse
<1>1. Types'
  <2>1. firing' \subseteq 0..generation
    BY DEF ServicesInv, Types
  <2> QED
    BY <2>1 DEF ServicesInv, Types
<1>2. \A i \in ServiceIDs : Own(i)' <=> Own(i)
  BY DEF Own
<1>3. Apart' <=> Apart
  BY DEF Apart
<1>4. KeptIsReachable' <=> KeptIsReachable
  BY DEF KeptIsReachable, LiveService, Reachable
<1>5. NoLeftovers' <=> NoLeftovers
  BY DEF NoLeftovers, Made, Current
<1>6. ClosedIsOver'
  BY DEF ClosedIsOver
<1> QED
  BY <1>1, <1>2, <1>3, <1>4, <1>5, <1>6 DEF ServicesInv, ServicesReachable
-----------------------------------------------------------------------------
(* The timer *)

LEMMA ExpireNewest ==
  ASSUME ServicesInv, Expire(generation) PROVE ServicesInv'
<1> DEFINE M(n) == [entry[n] EXCEPT !.closed = TRUE, !.ready = FALSE, !.error = "expired"]
<1>0. /\ entries' = entries /\ generation' = generation /\ lapsed' = lapsed /\ firing' = firing \ {generation} /\ generation \in firing
      /\ entry' = [n \in EntryNumbers |-> IF n \in Current THEN M(n) ELSE entry[n]]
      /\ socket' = [a \in Addrs |-> IF socket[a].active \in Current THEN [socket[a] EXCEPT !.active = 0] ELSE socket[a]]
      /\ datagram' = [n \in EntryNumbers |-> IF \E m \in Current : entry[m].datagram = n THEN NoDatagram ELSE datagram[n]]
  BY DEF Expire, IsNewest
<1>1. ASSUME NEW n \in EntryNumbers PROVE M(n) \in EntryRecord
  <2>1. entry[n] \in EntryRecord
    BY Shapes
  <2> QED
    BY <2>1 DEF EntryRecord, Over
<1>2. \A n \in EntryNumbers : /\ M(n).id = entry[n].id /\ M(n).config = entry[n].config /\ M(n).datagram = entry[n].datagram
                              /\ M(n).run = entry[n].run /\ M(n).closed = TRUE /\ M(n).error = "expired"
  BY Shapes DEF EntryRecord
<1> HIDE DEF M
<1>3. \A n \in Current : n \in EntryNumbers /\ entry'[n] = M(n)
  BY <1>0, Places
<1>4. ASSUME NEW n \in Current PROVE Marked(n)
  <2>1. entry'[n] = M(n)
    BY <1>3
  <2>2. /\ M(n).id = entry[n].id /\ M(n).config = entry[n].config /\ M(n).datagram = entry[n].datagram
        /\ M(n).run = entry[n].run /\ M(n).closed = TRUE /\ M(n).error = "expired"
    BY <1>2, <1>3
  <2> QED
    BY <2>1, <2>2 DEF Marked, Over
<1>5. Types'
  <2>1. entry' \in [EntryNumbers -> EntryRecord]
    BY <1>0, <1>1, Shapes
  <2>2. socket' \in [Addrs -> [open : BOOLEAN, active : 0..MaxEntries]]
    BY <1>0, ServicesConstants DEF ServicesInv, Types
  <2>3. datagram' \in [EntryNumbers -> [addr : Addrs \cup {"none"}, open : BOOLEAN, grants : Versions \cup {0}]]
    BY <1>0, Blanks, Shapes
  <2> QED
    BY <1>0, <2>1, <2>2, <2>3 DEF ServicesInv, Types
<1>6. (\A i \in ServiceIDs : entries'[i] # 0 => Own(i)') /\ Apart'
  BY <1>0, <1>4, TableStays
<1>7. KeptIsReachable'
  <2>1. ASSUME NEW i \in Listening, entries[i] # 0 PROVE entry'[entries[i]].error = "expired"
    BY <2>1, <1>2, <1>3, Places DEF ServiceIDs
  <2> QED
    BY <1>0, <2>1 DEF KeptIsReachable, LiveService
<1>8. ClosedIsOver'
  BY <1>0 DEF ServicesInv, ClosedIsOver
<1>9. NoLeftovers'
  <2>0. Current' = Current /\ NoLeftovers
    BY <1>0 DEF Current, ServicesInv, ServicesReachable
  <2>1. ASSUME NEW n \in Made', n \notin Current PROVE entry'[n].closed
    BY <1>0, <2>0, <2>1 DEF NoLeftovers, Made
  <2>2. ASSUME NEW a \in Addrs, socket'[a].open PROVE \E n \in Current : entry'[n].config.addr = a
    <3>1. socket[a].open
      BY <1>0, <2>2 DEF ServicesInv, Types
    <3> QED
      BY <2>0, <3>1, <1>4 DEF NoLeftovers, Marked
  <2>3. ASSUME NEW n \in EntryNumbers PROVE ~datagram'[n].open
    BY <1>0, <2>0, Blanks DEF NoLeftovers
  <2> QED
    BY <2>0, <2>1, <2>2, <2>3 DEF NoLeftovers
<1>10. generation' \notin firing'
  BY <1>0
<1> QED
  BY <1>5, <1>6, <1>7, <1>8, <1>9, <1>10 DEF ServicesInv, ServicesReachable

LEMMA ExpireStep == ASSUME ServicesInv, NEW g, Expire(g) PROVE ServicesInv'
<1>1. CASE g = generation
  BY <1>1, ExpireNewest
<1>2. CASE g # generation
  <2>1. /\ entries' = entries /\ socket' = socket /\ datagram' = datagram /\ generation' = generation /\ lapsed' = lapsed
        /\ firing' \subseteq firing /\ entry' = entry
    BY <1>2 DEF Expire, IsNewest
  <2>2. \A n \in Current : Marked(n)
    BY <2>1 DEF Marked
  <2>3. \A n \in Current : Calm(n)
    BY <2>1 DEF Calm
  <2>4. entry' \in [EntryNumbers -> EntryRecord]
    BY <2>1 DEF ServicesInv, Types
  <2> QED
    BY <2>1, <2>2, <2>3, <2>4, EntrySteps
<1> QED
  BY <1>1, <1>2
-----------------------------------------------------------------------------
(* The goroutines *)

\* The listener of a current entry fails: only its own sockets go.
LEMMA FailsStep ==
  ASSUME ServicesInv, NEW i \in Listening, entries[i] # 0,
         NEW why \in {"failed", "datagram failed"}, Fails(entries[i], why),
         entries' = entries, generation' = generation, lapsed' = lapsed, firing' = firing
  PROVE  ServicesInv'
<1> DEFINE k == entries[i]
           d == entry[k].datagram
           f == [entry[k] EXCEPT !.closed = TRUE, !.ready = FALSE, !.error = why, !.run = "ended"]
<1>0. i \in ServiceIDs /\ k \in EntryNumbers /\ k \in Current /\ Own(i) /\ k # 0
  BY Places DEF ServiceIDs
<1>1. entry[k] \in EntryRecord /\ d # 0 /\ d \in EntryNumbers /\ entry[k].run # "none" /\ entry[k].run \in {"serving", "ended"}
  <2>1. entry[k] \in EntryRecord
    BY <1>0, Shapes
  <2>2. d # 0 /\ entry[k].run \in {"serving", "ended"}
    BY <1>0 DEF Own
  <2>3. d \in 0..MaxEntries
    BY <2>1 DEF EntryRecord
  <2> QED
    BY <2>1, <2>2, <2>3, Numbers
<1>2. f \in EntryRecord
  BY <1>1 DEF EntryRecord, Over
<1>3. /\ f.id = entry[k].id /\ f.config = entry[k].config /\ f.datagram = entry[k].datagram
      /\ f.run = "ended" /\ f.closed = TRUE /\ f.error = why
  BY <1>1 DEF EntryRecord
<1>4. /\ entry' = [entry EXCEPT ![k] = f]
      /\ socket' = [a \in Addrs |-> IF socket[a].active = k THEN [socket[a] EXCEPT !.active = 0] ELSE socket[a]]
      /\ datagram' = [datagram EXCEPT ![d] = NoDatagram]
  BY <1>1 DEF Fails
<1> HIDE DEF f, d
<1>5. entry'[k] = f /\ \A n \in EntryNumbers \ {k} : entry'[n] = entry[n]
  BY <1>0, <1>4 DEF ServicesInv, Types
<1>6. datagram'[d] = NoDatagram /\ \A n \in EntryNumbers \ {d} : datagram'[n] = datagram[n]
  BY <1>1, <1>4 DEF ServicesInv, Types
<1>7. \A n \in Current : Marked(n)
  <2>1. Marked(k)
    BY <1>1, <1>3, <1>5 DEF Marked, Over
  <2>2. ASSUME NEW n \in Current, n # k PROVE Marked(n)
    <3>1. entry'[n] = entry[n]
      BY <2>2, <1>5, Places
    <3> QED
      BY <3>1 DEF Marked
  <2> QED
    BY <2>1, <2>2
<1>8. Types'
  <2>1. entry' \in [EntryNumbers -> EntryRecord]
    BY <1>2, <1>4 DEF ServicesInv, Types
  <2>2. socket' \in [Addrs -> [open : BOOLEAN, active : 0..MaxEntries]]
    <3>1. \A a \in Addrs : socket[a] \in [open : BOOLEAN, active : 0..MaxEntries]
      BY DEF ServicesInv, Types
    <3>2. \A a \in Addrs : [socket[a] EXCEPT !.active = 0] \in [open : BOOLEAN, active : 0..MaxEntries]
      BY <3>1, Numbers
    <3> QED
      BY <1>4, <3>1, <3>2
  <2>3. datagram' \in [EntryNumbers -> [addr : Addrs \cup {"none"}, open : BOOLEAN, grants : Versions \cup {0}]]
    BY <1>4, Blanks DEF ServicesInv, Types
  <2> QED
    BY <2>1, <2>2, <2>3 DEF ServicesInv, Types
<1>9. (\A j \in ServiceIDs : entries'[j] # 0 => Own(j)') /\ Apart'
  BY <1>7, TableStays
<1>10. KeptIsReachable'
  <2> SUFFICES ASSUME NEW j \in Listening, LiveService(entries[j])'
               PROVE  Reachable(entries[j])'
    BY DEF KeptIsReachable
  <2> DEFINE m == entries[j]
  <2>0. j \in ServiceIDs /\ m # 0 /\ m \in Current /\ m \in EntryNumbers /\ Own(j) /\ entry'[m].error \notin Over
    BY Places DEF LiveService, Over, ServiceIDs
  <2>1. j # i /\ m # k
    BY <2>0, <1>0, <1>3, <1>5, Places DEF Over
  <2>2. entry'[m] = entry[m]
    BY <2>0, <2>1, <1>5
  <2>3. Reachable(m)
    BY <2>0, <2>2 DEF ServicesInv, ServicesReachable, KeptIsReachable, LiveService, Over
  <2>4. entry[m].datagram # d /\ entry[m].datagram \in EntryNumbers
    <3>1. entry[m].datagram # d
      BY <2>0, <2>1, <1>0 DEF ServicesInv, Apart, d
    <3>2. entry[m].datagram # 0 /\ entry[m].datagram \in 0..MaxEntries
      BY <2>0, Shapes DEF Own, EntryRecord
    <3> QED
      BY <3>1, <3>2, Numbers
  <2>5. datagram'[entry[m].datagram] = datagram[entry[m].datagram]
    BY <2>4, <1>6
  <2>6. socket'[entry[m].config.addr] = socket[entry[m].config.addr]
    <3>1. entry[m].config.addr \in Addrs
      BY <2>0 DEF Own
    <3> QED
      BY <3>1, <2>1, <2>3, <1>4 DEF Reachable
  <2> QED
    BY <2>2, <2>3, <2>5, <2>6 DEF Reachable
<1>11. ClosedIsOver'
  <2> SUFFICES ASSUME NEW j \in ServiceIDs, entries[j] # 0, entry'[entries[j]].error = "expired" PROVE lapsed
    BY DEF ClosedIsOver
  <2>1. entries[j] # k /\ entries[j] \in EntryNumbers
    BY <1>3, <1>5, Places
  <2> QED
    BY <2>1, <1>5 DEF ServicesInv, ServicesReachable, ClosedIsOver
<1>12. NoLeftovers'
  <2>0. Current' = Current /\ NoLeftovers
    BY DEF Current, ServicesInv, ServicesReachable
  <2>1. ASSUME NEW n \in Made', n \notin Current PROVE entry'[n].closed
    BY <1>0, <1>5, <2>0, <2>1 DEF NoLeftovers, Made
  <2>2. ASSUME NEW a \in Addrs, socket'[a].open PROVE \E n \in Current : entry'[n].config.addr = a
    <3>1. socket[a].open
      BY <1>4, <2>2 DEF ServicesInv, Types
    <3>2. PICK n \in Current : entry[n].config.addr = a
      BY <2>0, <3>1 DEF NoLeftovers
    <3>3. Marked(n)
      BY <1>7
    <3> QED
      BY <3>2, <3>3 DEF Marked
  <2>3. ASSUME NEW n \in EntryNumbers, datagram'[n].open PROVE \E m \in Current : entry'[m].datagram = n /\ ~entry'[m].closed
    <3>1. n # d /\ datagram[n].open
      BY <2>3, <1>6, Blanks
    <3>2. PICK m \in Current : entry[m].datagram = n /\ ~entry[m].closed
      BY <3>1, <2>0 DEF NoLeftovers
    <3>3. m # k /\ m \in EntryNumbers
      BY <3>1, <3>2, Places DEF d
    <3> QED
      BY <3>2, <3>3, <1>5
  <2> QED
    BY <2>0, <2>1, <2>2, <2>3 DEF NoLeftovers
<1>13. generation' \in firing' => lapsed'
  BY DEF ServicesInv
<1> QED
  BY <1>8, <1>9, <1>10, <1>11, <1>12, <1>13 DEF ServicesInv, ServicesReachable

\* A current entry that serves, or has a datagram server, is a listener's.
LEMMA ListenersEntry ==
  ASSUME ServicesInv, NEW n \in Current, entry[n].run = "serving" \/ entry[n].datagram # 0
  PROVE  \E i \in Listening : entries[i] = n /\ entries[i] # 0
<1>1. PICK i \in ServiceIDs : entries[i] = n /\ n # 0
  BY Places
<1>2. Own(i)
  BY <1>1, Places
<1>3. i \notin Reverse
  BY <1>1, <1>2 DEF Own
<1> QED
  BY <1>1, <1>3 DEF ServiceIDs

\* One entry changes to f, and stays what it was to the others.
StillItself(n, f) ==
  /\ entry[n].run # "none"
  /\ f.run # "none" => f.closed = entry[n].closed
  /\ n \in Current => /\ f.id = entry[n].id /\ f.config = entry[n].config /\ f.datagram = entry[n].datagram
                      /\ f.run # "none" /\ f.run # "serving"
                      /\ f.error = "expired" => entry[n].error = "expired"
                      /\ entry[n].run \in {"serving", "ended"} => f.run \in {"serving", "ended"} /\ f.error = entry[n].error

LEMMA OneEntry ==
  ASSUME ServicesInv, NEW n \in EntryNumbers, NEW f \in EntryRecord, entry' = [entry EXCEPT ![n] = f],
         entries' = entries, socket' = socket, datagram' = datagram, generation' = generation, lapsed' = lapsed, firing' = firing,
         StillItself(n, f)
  PROVE  ServicesInv'
<1>1. entry'[n] = f /\ \A m \in EntryNumbers \ {n} : entry'[m] = entry[m]
  BY DEF ServicesInv, Types
<1>2. entry' \in [EntryNumbers -> EntryRecord]
  BY DEF ServicesInv, Types
<1>3. ASSUME NEW m \in Current PROVE Marked(m) /\ Calm(m)
  <2>1. CASE m = n
    BY <1>1, <2>1 DEF StillItself, Marked, Calm
  <2>2. CASE m # n
    <3>1. entry'[m] = entry[m]
      BY <1>1, <2>2, Places
    <3> QED
      BY <3>1 DEF Marked, Calm
  <2> QED
    BY <2>1, <2>2
<1>4. ASSUME NEW m \in EntryNumbers \ Current, entry'[m].run # "none" PROVE entry[m].run # "none" /\ entry'[m].closed = entry[m].closed
  BY <1>1, <1>4 DEF StillItself
<1> QED
  BY <1>2, <1>3, <1>4, EntrySteps

LEMMA EndedStep ==
  ASSUME ServicesInv, NEW n \in EntryNumbers, entry[n].run \in {"serving", "backoff"}, entry' = [entry EXCEPT ![n] = Ended(n)],
         entries' = entries, socket' = socket, datagram' = datagram, generation' = generation, lapsed' = lapsed, firing' = firing
  PROVE  ServicesInv'
<1>0. entry[n] \in EntryRecord
  BY Shapes
<1>1. CASE n \in Current
  <2> DEFINE f == [entry[n] EXCEPT !.run = "ended"]
  <2>1. f \in EntryRecord
    BY <1>0 DEF EntryRecord
  <2>2. /\ f.id = entry[n].id /\ f.config = entry[n].config /\ f.datagram = entry[n].datagram /\ f.closed = entry[n].closed
        /\ f.error = entry[n].error /\ f.run = "ended"
    BY <1>0 DEF EntryRecord
  <2>3. entry' = [entry EXCEPT ![n] = f]
    BY <1>1 DEF Ended
  <2> HIDE DEF f
  <2>4. StillItself(n, f)
    BY <2>2 DEF StillItself
  <2> QED
    BY <2>1, <2>3, <2>4, OneEntry
<1>2. CASE n \notin Current
  <2>1. entry' = [entry EXCEPT ![n] = NoEntry]
    BY <1>2 DEF Ended
  <2> QED
    <3>1. StillItself(n, NoEntry) /\ NoEntry \in EntryRecord
      BY <1>2, Blanks DEF StillItself
    <3> QED
      BY <2>1, <3>1, OneEntry
<1> QED
  BY <1>1, <1>2

LEMMA ReverseStep ==
  ASSUME ServicesInv, NEW n \in EntryNumbers, entry[n].run \in {"dialling", "carrying"},
         NEW ready \in BOOLEAN, NEW error \in {"", "unavailable"}, NEW run \in {"carrying", "backoff"},
         ReverseState(n, ready, error, run)
  PROVE  ServicesInv'
<1> DEFINE f == [entry[n] EXCEPT !.ready = ready, !.error = error, !.run = run]
<1>0. entry[n] \in EntryRecord
  BY Shapes
<1>1. f \in EntryRecord
  BY <1>0 DEF EntryRecord
<1>2. /\ f.id = entry[n].id /\ f.config = entry[n].config /\ f.datagram = entry[n].datagram /\ f.closed = entry[n].closed
      /\ f.error = error /\ f.run = run
  BY <1>0 DEF EntryRecord
<1>3. /\ entry' = [entry EXCEPT ![n] = f] /\ entries' = entries /\ socket' = socket /\ datagram' = datagram
      /\ generation' = generation /\ lapsed' = lapsed /\ firing' = firing
  BY DEF ReverseState
<1> HIDE DEF f
<1>4. StillItself(n, f)
  BY <1>2 DEF StillItself
<1> QED
  BY <1>1, <1>3, <1>4, OneEntry

LEMMA AgainStep == ASSUME ServicesInv, NEW n \in EntryNumbers, Again(n) PROVE ServicesInv'
<1>1. CASE entry[n].closed
  BY <1>1, EndedStep DEF Again
<1>2. CASE ~entry[n].closed
  <2> DEFINE f == [entry[n] EXCEPT !.run = "dialling"]
  <2>0. entry[n] \in EntryRecord
    BY Shapes
  <2>1. f \in EntryRecord
    BY <2>0 DEF EntryRecord
  <2>2. /\ f.id = entry[n].id /\ f.config = entry[n].config /\ f.datagram = entry[n].datagram /\ f.closed = entry[n].closed
        /\ f.error = entry[n].error /\ f.run = "dialling"
    BY <2>0 DEF EntryRecord
  <2>3. /\ entry' = [entry EXCEPT ![n] = f] /\ entries' = entries /\ socket' = socket /\ datagram' = datagram
        /\ generation' = generation /\ lapsed' = lapsed /\ firing' = firing /\ entry[n].run = "backoff"
    BY <1>2 DEF Again
  <2> HIDE DEF f
  <2>4. StillItself(n, f)
    BY <2>2, <2>3 DEF StillItself
  <2> QED
    BY <2>1, <2>3, <2>4, OneEntry
<1> QED
  BY <1>1, <1>2

LEMMA GoroutineStep ==
  ASSUME ServicesInv, NEW n \in EntryNumbers,
         ServeEnds(n) \/ DatagramEnds(n) \/ CarrierUp(n) \/ CarrierDown(n) \/ ReverseDialFails(n) \/ Again(n)
  PROVE  ServicesInv'
<1>1. CASE ServeEnds(n)
  <2>0. /\ entry[n].run = "serving" /\ entries' = entries /\ generation' = generation /\ lapsed' = lapsed /\ firing' = firing
    BY <1>1 DEF ServeEnds
  <2>1. CASE entry[n].closed /\ entry' = [entry EXCEPT ![n] = Ended(n)] /\ UNCHANGED <<socket, datagram>>
    BY <2>0, <2>1, EndedStep
  <2>2. CASE n \in Current /\ Fails(n, "failed")
    BY <2>0, <2>2, ListenersEntry, FailsStep
  <2> QED
    BY <1>1, <2>1, <2>2 DEF ServeEnds
<1>2. CASE DatagramEnds(n)
  BY <1>2, ListenersEntry, FailsStep DEF DatagramEnds
<1>3. CASE CarrierUp(n)
  BY <1>3, ReverseStep DEF CarrierUp
<1>4. CASE CarrierDown(n)
  BY <1>4, ReverseStep DEF CarrierDown
<1>5. CASE ReverseDialFails(n)
  BY <1>5, ReverseStep DEF ReverseDialFails
<1>6. CASE Again(n)
  BY <1>6, AgainStep
<1> QED
  BY <1>1, <1>2, <1>3, <1>4, <1>5, <1>6
-----------------------------------------------------------------------------
(* A commit *)

\* What Prepare hands to commit: every listener has an address, every staged service
\* an entry of its own.
Prepared(c, numbers) ==
  /\ \A i \in ServiceIDs : c[i] # Absent => c[i] \in Configured
  /\ \A i \in Listening : c[i] # Absent => c[i].addr \in Addrs
  /\ numbers \in [Staged(c) -> Unused]
  /\ \A i, j \in Staged(c) : i # j => numbers[i] # numbers[j]

\* The services of the configuration whose entries stay.
Kept(c) == {i \in ServiceIDs : c[i] # Absent /\ i \notin Staged(c)}

LEMMA KeptKeeps ==
  ASSUME NEW c, NEW i \in Kept(c)
  PROVE  i \in ServiceIDs /\ c[i] # Absent /\ Keeps(i, c) /\ entries[i] # 0 /\ entry[entries[i]].config = c[i] /\ entry[entries[i]].error \notin Over
BY DEF Kept, Staged, Keeps, LiveService, Over

LEMMA NeverKeepsAbsent ==
  ASSUME ServicesInv, NEW c, NEW i \in ServiceIDs, Keeps(i, c)
  PROVE  c[i] # Absent /\ i \in Kept(c)
<1>1. entries[i] # 0 /\ entry[entries[i]].config = c[i]
  BY DEF Keeps, LiveService
<1>2. c[i] # Absent
  BY <1>1, Places DEF Own
<1> QED
  BY <1>2 DEF Kept, Staged

LEMMA UnusedFacts ==
  ASSUME ServicesInv, NEW n \in Unused
  PROVE  /\ n \in EntryNumbers /\ n # 0 /\ n \notin Current /\ entry[n].run = "none" /\ ~datagram[n].open
         /\ \A m \in EntryNumbers : entry[m].datagram # n
<1>1. /\ n \in EntryNumbers /\ entry[n].run = "none" /\ ~datagram[n].open
      /\ \A m \in EntryNumbers : entry[m].datagram # n
  BY DEF Unused
<1>2. n \notin Current
  BY <1>1, Places DEF Own
<1> QED
  BY <1>1, <1>2, Numbers

LEMMA StagedFacts ==
  ASSUME ServicesInv, NEW c, NEW numbers, Prepared(c, numbers), NEW i \in Staged(c)
  PROVE  /\ i \in ServiceIDs /\ c[i] # Absent /\ c[i] \in Configured /\ ~Keeps(i, c)
         /\ numbers[i] \in Unused /\ numbers[i] \in EntryNumbers /\ numbers[i] # 0
<1>1. i \in ServiceIDs /\ c[i] # Absent /\ ~Keeps(i, c)
  BY DEF Staged
<1>2. numbers[i] \in Unused /\ c[i] \in Configured
  BY <1>1 DEF Prepared
<1> QED
  BY <1>1, <1>2, UnusedFacts

\* The table and the entries after a commit.
TableAfter(c, numbers) ==
  /\ \A i \in ServiceIDs : c[i] = Absent => entries'[i] = 0
  /\ \A i \in Staged(c) : entries'[i] = numbers[i] /\ entry'[numbers[i]] = Started(i, c, numbers)
  /\ \A i \in Kept(c) : entries'[i] = entries[i] /\ entry'[entries[i]] = entry[entries[i]]
  /\ \A n \in EntryNumbers : (\A i \in Staged(c) : numbers[i] # n) => entry'[n] = IF n \in Leaving(c) THEN Replaced(entry[n]) ELSE entry[n]

LEMMA CommitTable ==
  ASSUME ServicesInv, NEW c, NEW numbers, Prepared(c, numbers), Commit(c, numbers)
  PROVE  TableAfter(c, numbers)
<1>0. /\ entries' = [i \in ServiceIDs |-> IF c[i] = Absent THEN 0 ELSE IF i \in Staged(c) THEN numbers[i] ELSE entries[i]]
      /\ entry' = [n \in EntryNumbers |->
             IF \E i \in Staged(c) : numbers[i] = n THEN Started(CHOOSE i \in Staged(c) : numbers[i] = n, c, numbers)
             ELSE IF n \in Leaving(c) THEN Replaced(entry[n]) ELSE entry[n]]
  BY DEF Commit
<1>1. ASSUME NEW i \in ServiceIDs, c[i] = Absent PROVE entries'[i] = 0
  BY <1>0, <1>1
<1>2. ASSUME NEW i \in Staged(c) PROVE entries'[i] = numbers[i] /\ entry'[numbers[i]] = Started(i, c, numbers)
  <2>1. i \in ServiceIDs /\ c[i] # Absent /\ numbers[i] \in EntryNumbers
    BY StagedFacts
  <2>2. (CHOOSE x \in Staged(c) : numbers[x] = numbers[i]) = i
    BY DEF Prepared
  <2>3. entry'[numbers[i]] = Started(CHOOSE x \in Staged(c) : numbers[x] = numbers[i], c, numbers)
    BY <1>0, <2>1
  <2> QED
    BY <1>0, <2>1, <2>2, <2>3
<1>3. ASSUME NEW n \in EntryNumbers, \A i \in Staged(c) : numbers[i] # n
      PROVE entry'[n] = IF n \in Leaving(c) THEN Replaced(entry[n]) ELSE entry[n]
  BY <1>0, <1>3
<1>4. ASSUME NEW i \in Kept(c) PROVE entries'[i] = entries[i] /\ entry'[entries[i]] = entry[entries[i]]
  <2>1. i \in ServiceIDs /\ c[i] # Absent /\ i \notin Staged(c) /\ Keeps(i, c) /\ entries[i] # 0
    BY KeptKeeps DEF Kept
  <2>2. entries[i] \in EntryNumbers /\ entries[i] \in Current
    BY <2>1, Places
  <2>3. entries[i] \notin Leaving(c)
    BY <2>1, Places DEF Leaving
  <2>4. \A j \in Staged(c) : numbers[j] # entries[i]
    BY <2>2, StagedFacts, UnusedFacts
  <2>5. entry'[entries[i]] = entry[entries[i]]
    BY <2>2, <2>3, <2>4, <1>3
  <2> QED
    BY <1>0, <2>1, <2>5
<1> QED
  BY <1>1, <1>2, <1>3, <1>4 DEF TableAfter

\* A listener of the table and its datagram server.
LEMMA ListenerServer ==
  ASSUME ServicesInv, NEW i \in Listening, entries[i] # 0
  PROVE  /\ i \in ServiceIDs /\ entries[i] \in EntryNumbers /\ entries[i] \in Current /\ entry[entries[i]].datagram \in EntryNumbers
         /\ \A j \in Listening : j # i /\ entries[j] # 0 => entry[entries[j]].datagram # entry[entries[i]].datagram
<1>1. i \in ServiceIDs /\ entries[i] \in EntryNumbers /\ entries[i] \in Current /\ Own(i)
  BY Places DEF ServiceIDs
<1>2. entry[entries[i]].datagram \in 0..MaxEntries
  BY <1>1, Shapes DEF EntryRecord
<1>3. entry[entries[i]].datagram \in EntryNumbers
  BY <1>1, <1>2, Numbers DEF Own
<1> QED
  BY <1>1, <1>3 DEF ServicesInv, Apart

\* The datagram servers of the new table are no others' and are not closed.
ServersAre(c, numbers) ==
  /\ \A i \in Staged(c) \cap Listening :
       /\ Server(i, c, numbers) \in EntryNumbers /\ Server(i, c, numbers) \notin Closing(c)
       /\ \A j \in Staged(c) \cap Listening : j # i => Server(j, c, numbers) # Server(i, c, numbers)
       /\ \A j \in Kept(c) \cap Listening : Server(i, c, numbers) # entry[entries[j]].datagram
  /\ \A j \in Kept(c) \cap Listening : entry[entries[j]].datagram \notin Closing(c)

LEMMA ServersApart ==
  ASSUME ServicesInv, NEW c, NEW numbers, Prepared(c, numbers)
  PROVE  ServersAre(c, numbers)
<1>1. ASSUME NEW i \in Staged(c) \cap Listening, Reuses(i, c)
      PROVE  Server(i, c, numbers) = entry[entries[i]].datagram /\ entries[i] # 0
  BY <1>1 DEF Server, Reuses, LiveService
<1>2. ASSUME NEW i \in Staged(c) \cap Listening, ~Reuses(i, c)
      PROVE  Server(i, c, numbers) = numbers[i] /\ numbers[i] \in EntryNumbers /\ \A m \in EntryNumbers : entry[m].datagram # numbers[i]
  <2>1. numbers[i] \in Unused
    BY StagedFacts
  <2> QED
    BY <1>2, <2>1, UnusedFacts DEF Server
<1>3. ASSUME NEW i \in Staged(c) \cap Listening PROVE Server(i, c, numbers) \in EntryNumbers
  BY <1>1, <1>2, ListenerServer
<1>4. \A x \in Listening : ClosesDatagram(x, c) => entries[x] # 0
  BY DEF ClosesDatagram
<1>5. ASSUME NEW i \in Staged(c) \cap Listening PROVE Server(i, c, numbers) \notin Closing(c)
  <2> SUFFICES ASSUME NEW x \in Listening, ClosesDatagram(x, c), Server(i, c, numbers) = entry[entries[x]].datagram PROVE FALSE
    BY DEF Closing
  <2>1. entries[x] # 0 /\ entries[x] \in EntryNumbers
    BY <1>4, ListenerServer
  <2>2. Reuses(i, c)
    BY <2>1, <1>2
  <2>3. x = i
    BY <2>1, <2>2, <1>1, ListenerServer
  <2>4. c[i] # Absent
    BY StagedFacts
  <2> QED
    BY <2>2, <2>3, <2>4 DEF ClosesDatagram
<1>6. ASSUME NEW i \in Staged(c) \cap Listening, NEW j \in Staged(c) \cap Listening, j # i
      PROVE  Server(j, c, numbers) # Server(i, c, numbers)
  <2>1. CASE Reuses(i, c) /\ Reuses(j, c)
    BY <1>6, <2>1, <1>1, ListenerServer
  <2>2. CASE Reuses(i, c) /\ ~Reuses(j, c)
    BY <2>2, <1>1, <1>2, ListenerServer
  <2>3. CASE ~Reuses(i, c) /\ Reuses(j, c)
    BY <2>3, <1>1, <1>2, ListenerServer
  <2>4. CASE ~Reuses(i, c) /\ ~Reuses(j, c)
    BY <1>6, <2>4, <1>2 DEF Prepared
  <2> QED
    BY <2>1, <2>2, <2>3, <2>4
<1>7. \A j \in Kept(c) \cap Listening : entries[j] # 0 /\ entries[j] \in EntryNumbers /\ Keeps(j, c) /\ c[j] # Absent /\ j \notin Staged(c)
  BY KeptKeeps, ListenerServer DEF Kept
<1>8. ASSUME NEW i \in Staged(c) \cap Listening, NEW j \in Kept(c) \cap Listening
      PROVE  Server(i, c, numbers) # entry[entries[j]].datagram
  <2>1. CASE Reuses(i, c)
    BY <2>1, <1>1, <1>7, ListenerServer
  <2>2. CASE ~Reuses(i, c)
    BY <2>2, <1>2, <1>7
  <2> QED
    BY <2>1, <2>2
<1>9. ASSUME NEW j \in Kept(c) \cap Listening PROVE entry[entries[j]].datagram \notin Closing(c)
  <2> SUFFICES ASSUME NEW x \in Listening, ClosesDatagram(x, c), entry[entries[j]].datagram = entry[entries[x]].datagram PROVE FALSE
    BY DEF Closing
  <2>1. x = j
    BY <1>4, <1>7, ListenerServer
  <2> QED
    BY <2>1, <1>7 DEF ClosesDatagram
<1> QED
  BY <1>3, <1>5, <1>6, <1>8, <1>9 DEF ServersAre

\* The datagram servers after a commit: those of the table, and no others open.
DatagramsAfter(c, numbers) ==
  /\ \A i \in Staged(c) \cap Listening :
       datagram'[Server(i, c, numbers)] = [addr |-> c[i].addr, open |-> TRUE, grants |-> c[i].version]
  /\ \A j \in Kept(c) \cap Listening : datagram'[entry[entries[j]].datagram] = datagram[entry[entries[j]].datagram]
  /\ \A n \in EntryNumbers : datagram'[n].open =>
       \/ \E i \in Staged(c) \cap Listening : Server(i, c, numbers) = n
       \/ \E j \in Kept(c) \cap Listening : entry[entries[j]].datagram = n /\ ~entry[entries[j]].closed
  /\ datagram' \in [EntryNumbers -> [addr : Addrs \cup {"none"}, open : BOOLEAN, grants : Versions \cup {0}]]

LEMMA CommitDatagrams ==
  ASSUME ServicesInv, NEW c, NEW numbers, Prepared(c, numbers), Commit(c, numbers)
  PROVE  DatagramsAfter(c, numbers)
<1>b. ServersAre(c, numbers)
  BY ServersApart
<1> DEFINE S == Staged(c) \cap Listening
           V(i) == [addr |-> c[i].addr, open |-> TRUE, grants |-> c[i].version]
           Old == [addr : Addrs \cup {"none"}, open : BOOLEAN, grants : Versions \cup {0}]
<1>0. datagram' = [n \in EntryNumbers |->
         IF n \in Closing(c) THEN NoDatagram
         ELSE IF \E i \in S : Server(i, c, numbers) = n THEN V(CHOOSE x \in S : Server(x, c, numbers) = n)
         ELSE datagram[n]]
  BY DEF Commit
<1>1. ASSUME NEW i \in S PROVE V(i) \in Old
  <2>1. i \in Listening /\ c[i] # Absent /\ c[i] \in Configured
    BY StagedFacts
  <2>2. c[i].addr \in Addrs
    BY <2>1 DEF Prepared
  <2>3. c[i].version \in Versions
    BY <2>1 DEF Configured
  <2> QED
    BY <2>2, <2>3
<1> HIDE DEF V
<1>2. ASSUME NEW i \in S PROVE datagram'[Server(i, c, numbers)] = V(i)
  <2>1. Server(i, c, numbers) \in EntryNumbers /\ Server(i, c, numbers) \notin Closing(c)
    BY <1>b DEF ServersAre
  <2>2. (CHOOSE x \in S : Server(x, c, numbers) = Server(i, c, numbers)) = i
    <3>1. \A x \in S : Server(x, c, numbers) = Server(i, c, numbers) => x = i
      BY <1>b DEF ServersAre
    <3> QED
      BY <3>1
  <2> QED
    BY <1>0, <2>1, <2>2
<1>3. ASSUME NEW j \in Kept(c) \cap Listening PROVE datagram'[entry[entries[j]].datagram] = datagram[entry[entries[j]].datagram]
  <2>1. entry[entries[j]].datagram \in EntryNumbers
    BY KeptKeeps, ListenerServer
  <2>2. entry[entries[j]].datagram \notin Closing(c) /\ ~\E i \in S : Server(i, c, numbers) = entry[entries[j]].datagram
    BY <1>b DEF ServersAre
  <2> QED
    BY <1>0, <2>1, <2>2
<1>4. ASSUME NEW n \in EntryNumbers, datagram'[n].open, ~\E i \in S : Server(i, c, numbers) = n
      PROVE  \E j \in Kept(c) \cap Listening : entry[entries[j]].datagram = n /\ ~entry[entries[j]].closed
  <2>1. n \notin Closing(c) /\ datagram[n].open
    BY <1>0, <1>4, Blanks
  <2>2. PICK m \in Current : entry[m].datagram = n /\ ~entry[m].closed
    BY <2>1 DEF ServicesInv, ServicesReachable, NoLeftovers
  <2>3. PICK i \in Listening : entries[i] = m /\ entries[i] # 0
    BY <2>2, ListenersEntry, Numbers
  <2>4. ~ClosesDatagram(i, c)
    BY <2>1, <2>2, <2>3 DEF Closing
  <2>5. c[i] # Absent /\ (Keeps(i, c) \/ Reuses(i, c)) /\ i \in ServiceIDs
    BY <2>3, <2>4 DEF ClosesDatagram, ServiceIDs
  <2>6. Keeps(i, c)
    <3> SUFFICES ASSUME ~Keeps(i, c), Reuses(i, c) PROVE FALSE
      BY <2>5
    <3>1. i \in S
      BY <2>5 DEF Staged
    <3>2. Server(i, c, numbers) = n
      BY <2>2, <2>3 DEF Server
    <3> QED
      BY <1>4, <3>1, <3>2
  <2>7. i \in Kept(c)
    BY <2>5, <2>6, NeverKeepsAbsent
  <2> QED
    BY <2>2, <2>3, <2>7
<1>5. datagram' \in [EntryNumbers -> Old]
  <2>1. ASSUME NEW n \in EntryNumbers, \E i \in S : Server(i, c, numbers) = n
        PROVE  V(CHOOSE x \in S : Server(x, c, numbers) = n) \in Old
    BY <2>1, <1>1
  <2>2. \A n \in EntryNumbers : datagram[n] \in Old
    BY Shapes
  <2> HIDE DEF Old
  <2>3. NoDatagram \in Old
    BY Blanks DEF Old
  <2> QED
    BY <1>0, <2>1, <2>2, <2>3
<1> QED
  BY <1>2, <1>3, <1>4, <1>5 DEF V, DatagramsAfter

\* The sockets after a commit: each listener of the table is the active one of its own.
SocketsAfter(c, numbers) ==
  /\ \A i \in Staged(c) \cap Listening : socket'[c[i].addr].open /\ socket'[c[i].addr].active = numbers[i]
  /\ \A j \in Kept(c) \cap Listening : socket'[c[j].addr].open /\ socket'[c[j].addr].active = entries[j]
  /\ \A a \in Addrs : socket'[a].open => \E i \in Listening : c[i] # Absent /\ c[i].addr = a
  /\ socket' \in [Addrs -> [open : BOOLEAN, active : 0..MaxEntries]]

LEMMA CommitSockets ==
  ASSUME ServicesInv, NEW c, NEW numbers, Prepared(c, numbers), Commit(c, numbers)
  PROVE  SocketsAfter(c, numbers)
<1> DEFINE S == Staged(c) \cap Listening
           used == {c[i].addr : i \in {x \in Listening : c[x] # Absent}}
           Active(a) == IF \E i \in S : c[i].addr = a THEN numbers[CHOOSE i \in S : c[i].addr = a]
                        ELSE IF socket[a].active \in Leaving(c) THEN 0 ELSE socket[a].active
<1>0. /\ socket' = [a \in Addrs |-> IF a \notin used THEN [open |-> FALSE, active |-> 0] ELSE [open |-> TRUE, active |-> Active(a)]]
      /\ \A i, j \in Listening : i # j /\ c[i] # Absent /\ c[j] # Absent => c[i].addr # c[j].addr
  BY DEF Commit, Bindable
<1>1. ASSUME NEW a \in Addrs PROVE Active(a) \in 0..MaxEntries
  <2>1. CASE \E i \in S : c[i].addr = a
    <3>1. (CHOOSE i \in S : c[i].addr = a) \in S
      BY <2>1
    <3>2. numbers[CHOOSE i \in S : c[i].addr = a] \in EntryNumbers
      BY <3>1, StagedFacts
    <3> QED
      BY <2>1, <3>2, Numbers
  <2>2. CASE ~\E i \in S : c[i].addr = a
    <3>1. socket[a].active \in 0..MaxEntries
      BY DEF ServicesInv, Types
    <3> QED
      BY <2>2, <3>1, Numbers
  <2> QED
    BY <2>1, <2>2
<1>2. ASSUME NEW i \in S PROVE c[i].addr \in Addrs /\ c[i].addr \in used /\ Active(c[i].addr) = numbers[i]
  <2>1. i \in Listening /\ c[i] # Absent
    BY StagedFacts
  <2>2. \A x \in S : c[x].addr = c[i].addr => x = i
    BY <2>1, <1>0, StagedFacts
  <2>3. (CHOOSE x \in S : c[x].addr = c[i].addr) = i
    BY <2>2
  <2> QED
    BY <2>1, <2>3 DEF Prepared
<1>3. ASSUME NEW j \in Kept(c) \cap Listening PROVE c[j].addr \in Addrs /\ c[j].addr \in used /\ Active(c[j].addr) = entries[j]
  <2>1. /\ j \in ServiceIDs /\ c[j] # Absent /\ Keeps(j, c) /\ entries[j] # 0 /\ entry[entries[j]].config = c[j] /\ j \notin Staged(c)
    BY KeptKeeps DEF Kept
  <2>2. ~\E x \in S : c[x].addr = c[j].addr
    BY <2>1, <1>0, StagedFacts
  <2>3. Reachable(entries[j])
    BY <2>1 DEF ServicesInv, ServicesReachable, KeptIsReachable, Keeps
  <2>4. socket[c[j].addr].active = entries[j]
    BY <2>1, <2>3 DEF Reachable
  <2>5. entries[j] \notin Leaving(c)
    BY <2>1, Places DEF Leaving
  <2> QED
    BY <2>1, <2>2, <2>4, <2>5 DEF Prepared
<1> HIDE DEF Active, used
<1>4. ASSUME NEW i \in S PROVE socket'[c[i].addr].open /\ socket'[c[i].addr].active = numbers[i]
  BY <1>0, <1>2
<1>5. ASSUME NEW j \in Kept(c) \cap Listening PROVE socket'[c[j].addr].open /\ socket'[c[j].addr].active = entries[j]
  BY <1>0, <1>3
<1>6. ASSUME NEW a \in Addrs, socket'[a].open PROVE \E i \in Listening : c[i] # Absent /\ c[i].addr = a
  <2>1. a \in used
    BY <1>0, <1>6
  <2> QED
    BY <2>1 DEF used
<1>7. socket' \in [Addrs -> [open : BOOLEAN, active : 0..MaxEntries]]
  BY <1>0, <1>1, Numbers
<1> QED
  BY <1>4, <1>5, <1>6, <1>7 DEF SocketsAfter

Fresh(i, k, d, r, w) == [id |-> i, config |-> k, datagram |-> d, closed |-> FALSE, ready |-> r, error |-> "", run |-> w]

IsFresh(e, i, k, d, w) ==
  e \in EntryRecord /\ e.id = i /\ e.config = k /\ e.datagram = d /\ ~e.closed /\ e.error = "" /\ e.run = w

LEMMA Assembled ==
  ASSUME NEW i \in ServiceIDs, NEW k \in Configured, NEW d \in 0..MaxEntries, NEW r \in BOOLEAN, NEW w \in {"serving", "dialling"}
  PROVE  IsFresh(Fresh(i, k, d, r, w), i, k, d, w)
<1>1. Fresh(i, k, d, r, w) \in EntryRecord
  BY DEF EntryRecord, Fresh
<1> QED
  BY <1>1 DEF Fresh, IsFresh

StartedWell(i, c, numbers) ==
  LET e == Started(i, c, numbers)
  IN /\ e \in EntryRecord /\ e.id = i /\ e.config = c[i] /\ ~e.closed /\ e.error = ""
     /\ i \in Listening => e.datagram = Server(i, c, numbers) /\ e.run = "serving"
     /\ i \in Reverse => e.datagram = 0 /\ e.run = "dialling"
     /\ e.run # "none"

LEMMA StartedFacts ==
  ASSUME ServicesInv, NEW c, NEW numbers, Prepared(c, numbers), NEW i \in Staged(c)
  PROVE  StartedWell(i, c, numbers)
<1>b. ServersAre(c, numbers)
  BY ServersApart
<1> DEFINE d == IF i \in Listening THEN Server(i, c, numbers) ELSE 0
           w == IF i \in Listening THEN "serving" ELSE "dialling"
           ready == i \in Listening
<1>1. PICK r \in BOOLEAN : r = ready
  <2>1. ready \in BOOLEAN
    OBVIOUS
  <2> HIDE DEF ready
  <2> QED
    BY <2>1, Zenon
<1>2. Started(i, c, numbers) = [NoEntry EXCEPT !.id = i, !.config = c[i], !.datagram = d, !.ready = r, !.run = w]
  BY <1>1, Zenon DEF Started
<1>3. i \in ServiceIDs /\ c[i] \in Configured
  BY StagedFacts
<1>4. d \in 0..MaxEntries
  BY <1>b, Numbers DEF ServersAre
<1>5. w \in {"serving", "dialling"}
  OBVIOUS
<1>6. i \in Reverse => i \notin Listening
  BY ServicesConstants
<1>7. /\ i \in Listening => d = Server(i, c, numbers) /\ w = "serving"
      /\ i \in Reverse => d = 0 /\ w = "dialling"
  BY <1>6
<1> HIDE DEF d, w, ready
<1>8. Started(i, c, numbers) = Fresh(i, c[i], d, r, w)
  BY <1>2 DEF NoEntry, Fresh
<1>9. IsFresh(Started(i, c, numbers), i, c[i], d, w)
  BY <1>3, <1>4, <1>5, <1>8, Assembled
<1> QED
  BY <1>5, <1>7, <1>9 DEF StartedWell, IsFresh

\* The services of the new table, by where their entries come from.
LEMMA NewTable ==
  ASSUME ServicesInv, NEW c, NEW numbers, Prepared(c, numbers), Commit(c, numbers), NEW i \in ServiceIDs, entries'[i] # 0
  PROVE  i \in Staged(c) \/ i \in Kept(c)
<1>1. TableAfter(c, numbers)
  BY CommitTable
<1> QED
  BY <1>1 DEF TableAfter, Kept

CurrentAfter(c, numbers) ==
  /\ \A i \in Staged(c) : numbers[i] \in Current' /\ entries'[i] # 0
  /\ \A i \in Kept(c) : entries[i] \in Current' /\ entries'[i] # 0

LEMMA NewCurrent ==
  ASSUME ServicesInv, NEW c, NEW numbers, Prepared(c, numbers), Commit(c, numbers)
  PROVE  CurrentAfter(c, numbers)
<1>a. TableAfter(c, numbers)
  BY CommitTable
<1>1. ASSUME NEW i \in Staged(c) PROVE i \in ServiceIDs /\ entries'[i] = numbers[i] /\ numbers[i] # 0
  <2>1. i \in ServiceIDs /\ numbers[i] # 0
    BY StagedFacts
  <2> QED
    BY <2>1, <1>a DEF TableAfter
<1>2. ASSUME NEW i \in Kept(c) PROVE i \in ServiceIDs /\ entries'[i] = entries[i] /\ entries[i] # 0
  BY KeptKeeps, <1>a DEF TableAfter
<1> QED
  BY <1>1, <1>2 DEF Current, CurrentAfter

LEMMA CommitTypes ==
  ASSUME ServicesInv, NEW c, NEW numbers, Prepared(c, numbers), Commit(c, numbers)
  PROVE  Types'
<1>a. TableAfter(c, numbers)
  BY CommitTable
<1>d. DatagramsAfter(c, numbers)
  BY CommitDatagrams
<1>s. SocketsAfter(c, numbers)
  BY CommitSockets
<1>0. /\ entries' = [i \in ServiceIDs |-> IF c[i] = Absent THEN 0 ELSE IF i \in Staged(c) THEN numbers[i] ELSE entries[i]]
      /\ DOMAIN entry' = EntryNumbers /\ entry' = [n \in EntryNumbers |-> entry'[n]]
  BY DEF Commit
<1>1. entries' \in [ServiceIDs -> 0..MaxEntries]
  <2>1. \A i \in Staged(c) : numbers[i] \in 0..MaxEntries
    BY StagedFacts, Numbers
  <2>2. \A i \in ServiceIDs : entries[i] \in 0..MaxEntries
    BY DEF ServicesInv, Types
  <2> QED
    BY <1>0, <2>1, <2>2, Numbers
<1>2. ASSUME NEW n \in EntryNumbers PROVE entry'[n] \in EntryRecord
  <2>1. CASE \E i \in Staged(c) : numbers[i] = n
    <3>1. PICK i \in Staged(c) : numbers[i] = n
      BY <2>1
    <3>2. entry'[n] = Started(i, c, numbers)
      BY <3>1, <1>a DEF TableAfter
    <3>3. StartedWell(i, c, numbers)
      BY StartedFacts
    <3> QED
      BY <3>2, <3>3 DEF StartedWell
  <2>2. CASE \A i \in Staged(c) : numbers[i] # n
    <3>1. entry'[n] = IF n \in Leaving(c) THEN Replaced(entry[n]) ELSE entry[n]
      BY <2>2, <1>a DEF TableAfter
    <3>2. entry[n] \in EntryRecord
      BY Shapes
    <3>3. ClosedEntry(entry[n]) \in EntryRecord
      BY <3>2 DEF ClosedEntry, EntryRecord
    <3>4. Replaced(entry[n]) \in EntryRecord
      BY <3>3, Blanks DEF Replaced
    <3> QED
      BY <3>1, <3>2, <3>4
  <2> QED
    BY <2>1, <2>2
<1>3. entry' \in [EntryNumbers -> EntryRecord]
  BY <1>0, <1>2
<1>4. generation' \in Nat /\ firing' \subseteq 0..generation' /\ lapsed' \in BOOLEAN
  <2>1. generation \in Nat /\ firing \subseteq 0..generation
    BY DEF ServicesInv, Types
  <2>2. generation' = generation + 1 /\ firing' = firing /\ lapsed' \in BOOLEAN
    BY DEF Commit
  <2> QED
    <3>1. \A x \in 0..generation : x \in 0..(generation + 1)
      BY <2>1
    <3> QED
      BY <2>1, <2>2, <3>1
<1> QED
  BY <1>1, <1>3, <1>4, <1>s, <1>d DEF Types, DatagramsAfter, SocketsAfter

LEMMA CommitOwn ==
  ASSUME ServicesInv, NEW c, NEW numbers, Prepared(c, numbers), Commit(c, numbers), NEW i \in ServiceIDs, entries'[i] # 0
  PROVE  Own(i)'
<1>a. TableAfter(c, numbers)
  BY CommitTable
<1>b. ServersAre(c, numbers)
  BY ServersApart
<1>1. CASE i \in Staged(c)
  <2> DEFINE e == Started(i, c, numbers)
  <2>1. entries'[i] = numbers[i] /\ entry'[entries'[i]] = e
    BY <1>1, <1>a DEF TableAfter
  <2>2. c[i] # Absent /\ (i \in Listening => c[i].addr \in Addrs)
    BY <1>1, StagedFacts DEF Prepared
  <2>3. i \in Listening => Server(i, c, numbers) # 0
    BY <1>1, <1>b, Numbers DEF ServersAre
  <2>4. /\ e.id = i /\ e.config = c[i] /\ ~e.closed
        /\ i \in Listening => e.datagram = Server(i, c, numbers) /\ e.run = "serving"
        /\ i \in Reverse => e.datagram = 0 /\ e.run = "dialling"
        /\ e.run # "none"
    <3>1. StartedWell(i, c, numbers)
      BY <1>1, StartedFacts
    <3> QED
      BY <1>1, <3>1 DEF StartedWell
  <2> HIDE DEF e
  <2> QED
    BY <2>1, <2>2, <2>3, <2>4 DEF Own
<1>2. CASE i \in Kept(c)
  <2>1. entries'[i] = entries[i] /\ entry'[entries'[i]] = entry[entries[i]]
    BY <1>2, <1>a DEF TableAfter
  <2>2. Own(i)
    BY <1>2, KeptKeeps, Places
  <2> QED
    BY <2>1, <2>2 DEF Own
<1> QED
  BY <1>1, <1>2, NewTable

\* Where a listener of the new table is: its address is the configuration's.
ListenerAfter(i, c, numbers) ==
  LET e == entry'[entries'[i]]
  IN /\ c[i] # Absent /\ e.config = c[i]
     /\ i \in Staged(c) => e.datagram = Server(i, c, numbers)
     /\ i \notin Staged(c) => i \in Kept(c) /\ e.datagram = entry[entries[i]].datagram

LEMMA NewListener ==
  ASSUME ServicesInv, NEW c, NEW numbers, Prepared(c, numbers), Commit(c, numbers), NEW i \in Listening, entries'[i] # 0
  PROVE  ListenerAfter(i, c, numbers)
<1>a. TableAfter(c, numbers)
  BY CommitTable
<1>0. i \in ServiceIDs
  BY DEF ServiceIDs
<1>1. CASE i \in Staged(c)
  <2>1. entry'[entries'[i]] = Started(i, c, numbers) /\ c[i] # Absent
    BY <1>1, <1>a, StagedFacts DEF TableAfter
  <2>2. Started(i, c, numbers).config = c[i] /\ Started(i, c, numbers).datagram = Server(i, c, numbers)
    <3>1. StartedWell(i, c, numbers)
      BY <1>1, StartedFacts
    <3> QED
      BY <1>1, <3>1 DEF StartedWell
  <2> QED
    BY <1>1, <2>1, <2>2 DEF ListenerAfter
<1>2. CASE i \notin Staged(c)
  <2>1. i \in Kept(c)
    BY <1>0, <1>2, NewTable
  <2>2. c[i] # Absent /\ entry[entries[i]].config = c[i]
    BY <2>1, KeptKeeps
  <2>3. entry'[entries'[i]] = entry[entries[i]]
    BY <2>1, <1>a DEF TableAfter
  <2> QED
    BY <1>2, <2>1, <2>2, <2>3 DEF ListenerAfter
<1> QED
  BY <1>1, <1>2

LEMMA CommitApart ==
  ASSUME ServicesInv, NEW c, NEW numbers, Prepared(c, numbers), Commit(c, numbers)
  PROVE  Apart'
<1>b. ServersAre(c, numbers)
  BY ServersApart
<1> SUFFICES ASSUME NEW i \in Listening, NEW j \in Listening, i # j, entries'[i] # 0, entries'[j] # 0
             PROVE  /\ entry'[entries'[i]].config.addr # entry'[entries'[j]].config.addr
                    /\ entry'[entries'[i]].datagram # entry'[entries'[j]].datagram
  BY DEF Apart
<1>l. ListenerAfter(i, c, numbers) /\ ListenerAfter(j, c, numbers)
  BY NewListener
<1>1. entry'[entries'[i]].config.addr # entry'[entries'[j]].config.addr
  <2>1. \A x, y \in Listening : x # y /\ c[x] # Absent /\ c[y] # Absent => c[x].addr # c[y].addr
    BY DEF Commit, Bindable
  <2>2. c[i] # Absent /\ entry'[entries'[i]].config = c[i]
    BY <1>l DEF ListenerAfter
  <2>3. c[j] # Absent /\ entry'[entries'[j]].config = c[j]
    BY <1>l DEF ListenerAfter
  <2> QED
    BY <2>1, <2>2, <2>3
<1>2. entry'[entries'[i]].datagram # entry'[entries'[j]].datagram
  <2>1. CASE i \in Staged(c) /\ j \in Staged(c)
    BY <2>1, <1>l, <1>b DEF ServersAre, ListenerAfter
  <2>2. CASE i \in Staged(c) /\ j \notin Staged(c)
    BY <2>2, <1>l, <1>b DEF ServersAre, ListenerAfter
  <2>3. CASE i \notin Staged(c) /\ j \in Staged(c)
    BY <2>3, <1>l, <1>b DEF ServersAre, ListenerAfter
  <2>4. CASE i \notin Staged(c) /\ j \notin Staged(c)
    <3>1. i \in Kept(c) /\ j \in Kept(c)
      BY <2>4, <1>l DEF ListenerAfter
    <3>2. entry[entries[i]].datagram # entry[entries[j]].datagram
      BY <3>1, KeptKeeps, ListenerServer
    <3> QED
      BY <2>4, <3>2, <1>l DEF ListenerAfter
  <2> QED
    BY <2>1, <2>2, <2>3, <2>4
<1> QED
  BY <1>1, <1>2

LEMMA CommitReachable ==
  ASSUME ServicesInv, NEW c, NEW numbers, Prepared(c, numbers), Commit(c, numbers), NEW i \in Listening, entries'[i] # 0
  PROVE  Reachable(entries[i])'
<1>a. TableAfter(c, numbers)
  BY CommitTable
<1>d. DatagramsAfter(c, numbers)
  BY CommitDatagrams
<1>s. SocketsAfter(c, numbers)
  BY CommitSockets
<1>0. i \in ServiceIDs
  BY DEF ServiceIDs
<1>1. CASE i \in Staged(c)
  <2>1. entries'[i] = numbers[i] /\ entry'[numbers[i]] = Started(i, c, numbers)
    BY <1>1, <1>a DEF TableAfter
  <2>2. StartedWell(i, c, numbers)
    BY <1>1, StartedFacts
  <2>3. ~entry'[numbers[i]].closed /\ entry'[numbers[i]].config = c[i] /\ entry'[numbers[i]].datagram = Server(i, c, numbers)
    BY <2>1, <2>2 DEF StartedWell
  <2>4. socket'[c[i].addr].open /\ socket'[c[i].addr].active = numbers[i]
    BY <1>1, <1>s DEF SocketsAfter
  <2>5. datagram'[Server(i, c, numbers)] = [addr |-> c[i].addr, open |-> TRUE, grants |-> c[i].version]
    BY <1>1, <1>d DEF DatagramsAfter
  <2>6. LET d == [addr |-> c[i].addr, open |-> TRUE, grants |-> c[i].version]
        IN d.open /\ d.addr = c[i].addr /\ d.grants = c[i].version
    OBVIOUS
  <2> QED
    BY <2>1, <2>3, <2>4, <2>5, <2>6 DEF Reachable
<1>2. CASE i \in Kept(c)
  <2>1. entries'[i] = entries[i] /\ entry'[entries[i]] = entry[entries[i]]
    BY <1>2, <1>a DEF TableAfter
  <2>2. Keeps(i, c) /\ entry[entries[i]].config = c[i]
    BY <1>2, KeptKeeps
  <2>3. Reachable(entries[i])
    BY <2>2 DEF ServicesInv, ServicesReachable, KeptIsReachable, Keeps
  <2>4. socket'[c[i].addr].open /\ socket'[c[i].addr].active = entries[i]
    BY <1>2, <1>s DEF SocketsAfter
  <2>5. datagram'[entry[entries[i]].datagram] = datagram[entry[entries[i]].datagram]
    BY <1>2, <1>d DEF DatagramsAfter
  <2>6. LET d == datagram[entry[entries[i]].datagram]
        IN ~entry[entries[i]].closed /\ d.open /\ d.addr = c[i].addr /\ d.grants = c[i].version
    BY <2>2, <2>3 DEF Reachable
  <2>7. LET d == datagram'[entry'[entries'[i]].datagram]
        IN ~entry'[entries'[i]].closed /\ d.open /\ d.addr = c[i].addr /\ d.grants = c[i].version
    BY <2>1, <2>5, <2>6
  <2>8. entry'[entries'[i]].config = c[i]
    BY <2>1, <2>2
  <2> QED
    BY <2>1, <2>4, <2>7, <2>8 DEF Reachable
<1> QED
  BY <1>0, <1>1, <1>2, NewTable

LEMMA CommitNotExpired ==
  ASSUME ServicesInv, NEW c, NEW numbers, Prepared(c, numbers), Commit(c, numbers), NEW i \in ServiceIDs, entries'[i] # 0
  PROVE  entry'[entries'[i]].error # "expired"
<1>a. TableAfter(c, numbers)
  BY CommitTable
<1>1. CASE i \in Staged(c)
  <2>1. entries'[i] = numbers[i] /\ entry'[numbers[i]] = Started(i, c, numbers)
    BY <1>1, <1>a DEF TableAfter
  <2>2. StartedWell(i, c, numbers)
    BY <1>1, StartedFacts
  <2> QED
    BY <2>1, <2>2 DEF StartedWell
<1>2. CASE i \in Kept(c)
  <2>1. entries'[i] = entries[i] /\ entry'[entries[i]] = entry[entries[i]]
    BY <1>2, <1>a DEF TableAfter
  <2>2. entry[entries[i]].error \notin Over
    BY <1>2, KeptKeeps
  <2> QED
    BY <2>1, <2>2 DEF Over
<1> QED
  BY <1>1, <1>2, NewTable

\* An entry that is not in the new table is closed, or gone with its goroutine.
LEMMA CommitClosesOld ==
  ASSUME ServicesInv, NEW c, NEW numbers, Prepared(c, numbers), Commit(c, numbers),
         NEW n \in EntryNumbers, entry'[n].run # "none", n \notin Current'
  PROVE  entry'[n].closed
<1>a. TableAfter(c, numbers)
  BY CommitTable
<1>n. CurrentAfter(c, numbers)
  BY NewCurrent
<1>1. \A i \in Staged(c) : numbers[i] # n
  BY <1>n DEF CurrentAfter
<1>2. entry'[n] = IF n \in Leaving(c) THEN Replaced(entry[n]) ELSE entry[n]
  BY <1>1, <1>a DEF TableAfter
<1>3. CASE n \in Leaving(c)
  <2>1. entry[n] \in EntryRecord
    BY Shapes
  <2>2. entry'[n] = ClosedEntry(entry[n])
    BY <1>2, <1>3, Blanks DEF Replaced
  <2> QED
    BY <2>1, <2>2 DEF ClosedEntry, EntryRecord
<1>4. CASE n \notin Leaving(c)
  <2>1. entry'[n] = entry[n]
    BY <1>2, <1>4
  <2>2. n \notin Current
    <3> SUFFICES ASSUME n \in Current PROVE FALSE
      OBVIOUS
    <3>1. PICK i \in ServiceIDs : entries[i] = n /\ n # 0
      BY Places
    <3>2. Keeps(i, c)
      BY <1>4, <3>1 DEF Leaving
    <3>3. i \in Kept(c)
      BY <3>2, NeverKeepsAbsent
    <3> QED
      BY <3>1, <3>3, <1>n DEF CurrentAfter
  <2>3. n \in Made
    BY <2>1 DEF Made
  <2> QED
    BY <2>1, <2>2, <2>3 DEF ServicesInv, ServicesReachable, NoLeftovers
<1> QED
  BY <1>3, <1>4

LEMMA CommitNoLeftovers ==
  ASSUME ServicesInv, NEW c, NEW numbers, Prepared(c, numbers), Commit(c, numbers)
  PROVE  NoLeftovers'
<1>a. TableAfter(c, numbers)
  BY CommitTable
<1>d. DatagramsAfter(c, numbers)
  BY CommitDatagrams
<1>s. SocketsAfter(c, numbers)
  BY CommitSockets
<1>n. CurrentAfter(c, numbers)
  BY NewCurrent
<1>1. ASSUME NEW n \in Made', n \notin Current' PROVE entry'[n].closed
  BY <1>1, CommitClosesOld DEF Made
<1>2. ASSUME NEW a \in Addrs, socket'[a].open PROVE \E n \in Current' : entry'[n].config.addr = a
  <2>1. PICK i \in Listening : c[i] # Absent /\ c[i].addr = a
    BY <1>2, <1>s DEF SocketsAfter
  <2>2. i \in Staged(c) \/ i \in Kept(c)
    BY <2>1 DEF Kept, ServiceIDs
  <2>3. entries'[i] # 0 /\ entries'[i] \in Current'
    BY <2>2, <1>n, <1>a DEF TableAfter, CurrentAfter
  <2>4. entry'[entries'[i]].config = c[i]
    <3>1. ListenerAfter(i, c, numbers)
      BY <2>3, NewListener
    <3> QED
      BY <3>1 DEF ListenerAfter
  <2> QED
    BY <2>1, <2>3, <2>4
<1>3. ASSUME NEW n \in EntryNumbers, datagram'[n].open PROVE \E m \in Current' : entry'[m].datagram = n /\ ~entry'[m].closed
  <2>1. CASE \E i \in Staged(c) \cap Listening : Server(i, c, numbers) = n
    <3>1. PICK i \in Staged(c) \cap Listening : Server(i, c, numbers) = n
      BY <2>1
    <3>2. numbers[i] \in Current' /\ entry'[numbers[i]] = Started(i, c, numbers)
      BY <1>n, <1>a DEF TableAfter, CurrentAfter
    <3>3. StartedWell(i, c, numbers)
      BY StartedFacts
    <3> QED
      BY <3>1, <3>2, <3>3 DEF StartedWell
  <2>2. CASE \E j \in Kept(c) \cap Listening : entry[entries[j]].datagram = n /\ ~entry[entries[j]].closed
    <3>1. PICK j \in Kept(c) \cap Listening : entry[entries[j]].datagram = n /\ ~entry[entries[j]].closed
      BY <2>2
    <3>2. entries[j] \in Current' /\ entry'[entries[j]] = entry[entries[j]]
      BY <1>n, <1>a DEF TableAfter, CurrentAfter
    <3> QED
      BY <3>1, <3>2
  <2> QED
    BY <1>3, <2>1, <2>2, <1>d DEF DatagramsAfter
<1> QED
  BY <1>1, <1>2, <1>3 DEF NoLeftovers

LEMMA CommitStep ==
  ASSUME ServicesInv, NEW c, NEW numbers, Prepared(c, numbers), Commit(c, numbers)
  PROVE  ServicesInv'
<1>1. \A i \in ServiceIDs : entries'[i] # 0 => Own(i)'
  BY CommitOwn
<1>2. KeptIsReachable'
  BY CommitReachable DEF KeptIsReachable, LiveService
<1>3. ClosedIsOver'
  BY CommitNotExpired DEF ClosedIsOver
<1>4. generation' \notin firing'
  <2>1. generation \in Nat /\ firing \subseteq 0..generation
    BY DEF ServicesInv, Types
  <2>2. generation' = generation + 1 /\ firing' = firing
    BY DEF Commit
  <2> QED
    BY <2>1, <2>2
<1> QED
  BY <1>1, <1>2, <1>3, <1>4, CommitTypes, CommitApart, CommitNoLeftovers DEF ServicesInv, ServicesReachable

LEMMA CommitsStep == ASSUME ServicesInv, Commits PROVE ServicesInv'
<1>1. PICK lc \in Configs, rc \in ReverseConfigs :
        LET c == [i \in ServiceIDs |-> IF i \in Listening THEN lc[i] ELSE rc[i]]
        IN \E numbers \in [Staged(c) -> Unused] :
             /\ \A i, j \in Staged(c) : i # j => numbers[i] # numbers[j]
             /\ Commit(c, numbers)
  BY DEF Commits
<1> DEFINE c == [i \in ServiceIDs |-> IF i \in Listening THEN lc[i] ELSE rc[i]]
<1>2. PICK numbers \in [Staged(c) -> Unused] : (\A i, j \in Staged(c) : i # j => numbers[i] # numbers[j]) /\ Commit(c, numbers)
  BY <1>1
<1>3. ASSUME NEW i \in Listening, c[i] # Absent PROVE c[i] \in Configured /\ c[i].addr \in Addrs
  <2>1. lc[i] \in {Absent} \cup [version : Versions, addr : Addrs] /\ c[i] = lc[i]
    BY DEF Configs, ServiceIDs
  <2> QED
    BY <1>3, <2>1 DEF Configured
<1>4. ASSUME NEW i \in Reverse, c[i] # Absent PROVE c[i] \in Configured
  <2>1. rc[i] \in {Absent} \cup [version : Versions, addr : {"none"}] /\ c[i] = rc[i]
    BY ServicesConstants DEF ReverseConfigs, ServiceIDs
  <2> QED
    BY <1>4, <2>1 DEF Configured
<1> HIDE DEF c
<1>5. Prepared(c, numbers)
  BY <1>2, <1>3, <1>4 DEF Prepared, ServiceIDs
<1> QED
  BY <1>2, <1>5, CommitStep
-----------------------------------------------------------------------------
LEMMA ServicesInvStep == ASSUME ServicesInv, [ServicesNext]_serviceVars PROVE ServicesInv'
<1>1. CASE Commits
  BY <1>1, CommitsStep
<1>2. CASE Lapse
  BY <1>2, LapseStep
<1>3. CASE \E g \in 1..MaxCommits : Expire(g)
  BY <1>3, ExpireStep
<1>4. CASE \E n \in EntryNumbers : ServeEnds(n) \/ DatagramEnds(n) \/ CarrierUp(n) \/ CarrierDown(n) \/ ReverseDialFails(n) \/ Again(n)
  BY <1>4, GoroutineStep
<1>5. CASE UNCHANGED serviceVars
  <2>1. /\ entries' = entries /\ socket' = socket /\ datagram' = datagram /\ generation' = generation /\ lapsed' = lapsed
        /\ firing' = firing /\ entry' = entry
    BY <1>5 DEF serviceVars
  <2>2. \A n \in Current : Marked(n)
    BY <2>1 DEF Marked
  <2>3. \A n \in Current : Calm(n)
    BY <2>1 DEF Calm
  <2>4. entry' \in [EntryNumbers -> EntryRecord]
    BY <2>1 DEF ServicesInv, Types
  <2> QED
    BY <2>1, <2>2, <2>3, <2>4, EntrySteps
<1> QED
  BY <1>1, <1>2, <1>3, <1>4, <1>5 DEF ServicesNext

\* For any services, addresses and configurations: a managed service that the next
\* configuration would keep listens on its own sockets under its own grants, nothing of
\* a valid configuration is expired, and closed generations leave no socket and no
\* datagram server behind (Prepare, serviceListener.Close, failedDatagram, Expire).
THEOREM ServicesStayReachable == ServicesSpec => []ServicesReachable
<1>1. ServicesInit => ServicesInv
  BY InitServices
<1>2. ServicesInv /\ [ServicesNext]_serviceVars => ServicesInv'
  BY ServicesInvStep
<1>3. ServicesInv => ServicesReachable
  BY DEF ServicesInv
<1> QED
  BY <1>1, <1>2, <1>3, PTL DEF ServicesSpec
=============================================================================
