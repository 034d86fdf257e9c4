---------------------------- MODULE DatagramPool ----------------------------
(***************************************************************************)
(* The Agent's side of UDP over QUIC (internal/tunnel/datagram.go,          *)
(* DatagramPool): connections shared by endpoint and token. The first to    *)
(* ask dials, outside the mutex, and the others wait for its entry; links   *)
(* die by themselves, and the pool is closed while dials are in progress.   *)
(***************************************************************************)
EXTENDS Naturals, FiniteSets

CONSTANTS
  Callers,     \* sessions that dial
  Keys,        \* endpoint, server name, token and preference
  MaxPooled,   \* entries (64)
  MaxDials     \* bound: entries made

VARIABLES
  poolClosed,  \* DatagramPool.closed
  pooled,      \* Keys -> entry, 0 when none
  dialled,     \* 1..MaxDials -> datagramPoolEntry
  caller       \* Callers -> where DialPolicy is, its entry, and whether it owns it

poolVars == <<poolClosed, pooled, dialled, caller>>

Entries == 1..MaxDials
NoPooled == [key |-> 0, ready |-> FALSE, link |-> "none", err |-> FALSE]
NoCaller == [pc |-> "idle", at |-> 0]

PoolInit ==
  /\ poolClosed = FALSE
  /\ pooled = [k \in Keys |-> 0]
  /\ dialled = [e \in Entries |-> NoPooled]
  /\ caller = [c \in Callers |-> NoCaller]

Down(e) == e # 0 /\ dialled[e].link = "down"

\* Entries whose link is gone are dropped first.
Purged == [k \in Keys |-> IF Down(pooled[k]) THEN 0 ELSE pooled[k]]

\* DialPolicy up to the dial, in the mutex: an entry to share, a new one, or no room.
Ask(c, k) ==
  /\ caller[c].pc = "idle"
  /\ LET p == IF poolClosed THEN pooled ELSE Purged
         room == Cardinality({x \in Keys : p[x] # 0}) < MaxPooled
         free == {e \in Entries : dialled[e] = NoPooled}
     IN \/ poolClosed /\ UNCHANGED <<pooled, dialled, caller>>
        \/ /\ ~poolClosed /\ p[k] # 0
           /\ pooled' = p
           /\ caller' = [caller EXCEPT ![c] = [pc |-> "waiting", at |-> p[k]]]
           /\ UNCHANGED dialled
        \/ /\ ~poolClosed /\ p[k] = 0 /\ room /\ free # {}
           /\ LET e == CHOOSE x \in free : \A y \in free : x <= y
              IN /\ pooled' = [p EXCEPT ![k] = e]
                 /\ dialled' = [dialled EXCEPT ![e].key = k]
                 /\ caller' = [caller EXCEPT ![c] = [pc |-> "dialling", at |-> e]]
        \/ ~poolClosed /\ p[k] = 0 /\ ~room /\ pooled' = p /\ UNCHANGED <<dialled, caller>>
  /\ UNCHANGED poolClosed

\* A link that comes up in a closed pool is closed at once.
Link == IF poolClosed THEN "down" ELSE "up"

\* The dial ends, in the mutex; whoever waits is told in either case.
DialEnds(c) ==
  /\ caller[c].pc = "dialling"
  /\ LET e == caller[c].at
         k == dialled[e].key
     IN \/ /\ dialled' = [dialled EXCEPT ![e].ready = TRUE, ![e].link = Link, ![e].err = poolClosed]
           /\ UNCHANGED pooled
        \/ /\ dialled' = [dialled EXCEPT ![e].ready = TRUE, ![e].err = TRUE]
           /\ pooled' = [pooled EXCEPT ![k] = 0]
  /\ caller' = [caller EXCEPT ![c].pc = "waiting"]
  /\ UNCHANGED poolClosed

\* The entry is ready: its error, or a flow of the link when that is still up. A
\* caller that does not own the entry may be cancelled before.
Opens(c) ==
  /\ caller[c].pc = "waiting"
  /\ LET e == caller[c].at
     IN \/ dialled[e].ready /\ ~dialled[e].err /\ dialled[e].link = "up" /\ caller' = [caller EXCEPT ![c].pc = "session"]
        \/ caller' = [caller EXCEPT ![c] = NoCaller]
  /\ UNCHANGED <<poolClosed, pooled, dialled>>

SessionEnds(c) ==
  /\ caller[c].pc = "session"
  /\ caller' = [caller EXCEPT ![c] = NoCaller]
  /\ UNCHANGED <<poolClosed, pooled, dialled>>

LinkDies(e) ==
  /\ dialled[e].link = "up"
  /\ dialled' = [dialled EXCEPT ![e].link = "down"]
  /\ UNCHANGED <<poolClosed, pooled, caller>>

\* DatagramPool.Close.
ClosePool ==
  /\ ~poolClosed
  /\ poolClosed' = TRUE
  /\ dialled' = [e \in Entries |-> IF dialled[e].link = "up" /\ pooled[dialled[e].key] = e THEN [dialled[e] EXCEPT !.link = "down"] ELSE dialled[e]]
  /\ UNCHANGED <<pooled, caller>>

PoolNext ==
  \/ \E c \in Callers : (\E k \in Keys : Ask(c, k)) \/ DialEnds(c) \/ Opens(c) \/ SessionEnds(c)
  \/ \E e \in Entries : LinkDies(e)
  \/ ClosePool

PoolSpec == PoolInit /\ [][PoolNext]_poolVars
-----------------------------------------------------------------------------
UpAt(k) == {e \in Entries : dialled[e].key = k /\ dialled[e].link = "up"}

\* Connections are shared and not lost: a key has at most one that is up or being
\* dialled, and it is the one in the pool, so that Close finds it; after Close none
\* is up, also one whose dial ends later; and who waits for an entry will be told,
\* because it is ready or its owner still dials (DialPolicy, Close).
LinksShared ==
  /\ \A k \in Keys : \A e \in Entries :
       dialled[e].key = k /\ (dialled[e].link = "up" \/ (dialled[e].link = "none" /\ ~dialled[e].ready)) => pooled[k] = e
  /\ Cardinality({k \in Keys : pooled[k] # 0}) <= MaxPooled
  /\ poolClosed => \A k \in Keys : UpAt(k) = {}
  /\ \A c \in Callers :
       caller[c].pc = "waiting" /\ ~dialled[caller[c].at].ready =>
         \E o \in Callers : caller[o].pc = "dialling" /\ caller[o].at = caller[c].at
=============================================================================
