------------------------------ MODULE MeterWait ------------------------------
(***************************************************************************)
(* A connection that waits for traffic allowance                            *)
(* (internal/agent/continuity.go). It reads the rule its listener serves    *)
(* now, asks the store, and sleeps until the store or the configuration     *)
(* changes. The two are guarded by different mutexes and changed by         *)
(* different goroutines, Apply first in the store and later in the          *)
(* listener, so a change may fall between any two of its steps.             *)
(*                                                                         *)
(* A channel that is closed and replaced at every change is a number that   *)
(* grows: a channel held is closed when the number has moved on.            *)
(***************************************************************************)
EXTENDS Naturals

CONSTANTS
  Waiters,     \* connections, in awaitAvailable or chargeCurrent
  Leases,      \* allocations, numbered in the order the panel gives them: 1..n
  Allowance,   \* bytes of an allocation
  MaxNews      \* bound: drains and renewals

ASSUME AllowanceIsNat == Allowance \in Nat /\ Leases \subseteq Nat /\ 1 \in Leases

VARIABLES
  left,      \* Leases -> what the store may still spend of it
  known,     \* the newest allocation the store holds
  full,      \* the spool of pending records is full
  broken,    \* the durable store failed
  progress,  \* Store.changed: times it was closed
  serving,   \* the allocation of binding.rule
  revision,  \* binding.changed: times it was closed
  revoked,   \* the context of the listener is over, or it is closed
  news,      \* drains and renewals so far
  wait       \* Waiters -> the locals of the loop

meterVars == <<left, known, full, broken, progress, serving, revision, revoked, news, wait>>
storeVars == <<left, known, full, broken, progress>>
ruleVars == <<serving, revision, revoked>>

Kinds == {"await", "charge"}
NoWait == [pc |-> "idle", kind |-> "await", progress |-> 0, lease |-> 1, revision |-> 0]

MeterInit ==
  /\ left = [l \in Leases |-> IF l = 1 THEN Allowance ELSE 0]
  /\ known = 1
  /\ full = FALSE /\ broken = FALSE /\ progress = 0
  /\ serving = 1 /\ revision = 0 /\ revoked = FALSE
  /\ news = 0
  /\ wait = [w \in Waiters |-> NoWait]
-----------------------------------------------------------------------------
\* A connection is admitted, or has a byte to charge.
Enter(w, k) ==
  /\ wait[w].pc = "idle"
  /\ wait' = [wait EXCEPT ![w] = [NoWait EXCEPT !.pc = "loop", !.kind = k]]
  /\ UNCHANGED <<storeVars, ruleVars, news>>

\* Store.changes is read first.
Capture(w) ==
  /\ wait[w].pc = "loop"
  /\ wait' = [wait EXCEPT ![w].pc = "captured", ![w].progress = progress]
  /\ UNCHANGED <<storeVars, ruleVars, news>>

\* liveRule: the rule and the channel of one moment, or the end.
LiveRule(w) ==
  /\ wait[w].pc = "captured"
  /\ wait' = [wait EXCEPT ![w] = IF revoked THEN NoWait ELSE [@ EXCEPT !.pc = "ruled", !.lease = serving, !.revision = revision]]
  /\ UNCHANGED <<storeVars, ruleVars, news>>

Spendable(l) == left[l] > 0 /\ ~full

\* Mutation: the configuration's channel is read again when the answer is known.
RereadRevision(w) ==
  /\ wait[w].pc = "ruled"
  /\ wait[w].kind = "await"
  /\ wait' = [wait EXCEPT ![w] = IF broken \/ Spendable(wait[w].lease) THEN NoWait ELSE [@ EXCEPT !.pc = "waiting", !.revision = revision]]
  /\ UNCHANGED <<storeVars, ruleVars, news>>

\* Store.Available: go on, fail for good, or wait.
Available(w) ==
  /\ wait[w].pc = "ruled"
  /\ wait[w].kind = "await"
  /\ wait' = [wait EXCEPT ![w] = IF broken \/ Spendable(wait[w].lease) THEN NoWait ELSE [@ EXCEPT !.pc = "waiting"]]
  /\ UNCHANGED <<storeVars, ruleVars, news>>

\* TryCreditCharge: the byte is charged to the rule just read, or nothing is.
Charge(w) ==
  /\ wait[w].pc = "ruled"
  /\ wait[w].kind = "charge"
  /\ LET l == wait[w].lease
         ok == ~broken /\ Spendable(l)
     IN /\ left' = IF ok THEN [left EXCEPT ![l] = @ - 1] ELSE left
        /\ wait' = [wait EXCEPT ![w] = IF broken \/ ok THEN NoWait ELSE [@ EXCEPT !.pc = "waiting"]]
  /\ UNCHANGED <<known, full, broken, progress, ruleVars, news>>

Woken(w) == wait[w].progress # progress \/ wait[w].revision # revision \/ revoked

\* waitMeter and waitCreditMeter; a charge also tries again every 100 ms.
Wake(w) ==
  /\ Woken(w) \/ wait[w].kind = "charge"
  /\ wait[w].pc = "waiting"
  /\ wait' = [wait EXCEPT ![w].pc = "loop"]
  /\ UNCHANGED <<storeVars, ruleVars, news>>

\* renewalWait is over: the connection ends.
GiveUp(w) ==
  /\ wait[w].pc = "waiting"
  /\ wait' = [wait EXCEPT ![w] = NoWait]
  /\ UNCHANGED <<storeVars, ruleVars, news>>
-----------------------------------------------------------------------------
(* The store and the listener *)

\* Records of other connections fill the spool; nobody is told.
SpoolFills ==
  /\ ~full
  /\ full' = TRUE
  /\ UNCHANGED <<left, known, broken, progress, ruleVars, news, wait>>

\* The panel confirms records.
Confirm ==
  /\ full /\ news < MaxNews
  /\ full' = FALSE
  /\ progress' = progress + 1
  /\ news' = news + 1
  /\ UNCHANGED <<left, known, broken, ruleVars, wait>>

\* The allocation in use is retired, and the panel asked for another.
Retire ==
  /\ ~broken
  /\ left[known] > 0
  /\ left' = [left EXCEPT ![known] = 0]
  /\ progress' = progress + 1
  /\ UNCHANGED <<known, full, broken, ruleVars, news, wait>>

\* Apply, first half: the store takes the configuration with the next allocation.
SetConfig ==
  /\ ~revoked /\ ~broken
  /\ known = serving /\ known + 1 \in Leases /\ news < MaxNews
  /\ known' = known + 1
  /\ left' = [left EXCEPT ![known + 1] = Allowance]
  /\ progress' = progress + 1
  /\ news' = news + 1
  /\ UNCHANGED <<full, broken, ruleVars, wait>>

\* Apply, second half: the listener serves it.
SwapRule ==
  /\ ~revoked
  /\ known # serving
  /\ serving' = known
  /\ revision' = revision + 1
  /\ UNCHANGED <<storeVars, revoked, news, wait>>

\* The rule is changed, stopped or removed.
Revoke ==
  /\ ~revoked
  /\ revoked' = TRUE
  /\ UNCHANGED <<storeVars, serving, revision, news, wait>>

StoreFails ==
  /\ ~broken
  /\ broken' = TRUE
  /\ progress' = progress + 1
  /\ UNCHANGED <<left, known, full, ruleVars, news, wait>>

MeterNext ==
  \/ \E w \in Waiters :
       \/ \E k \in Kinds : Enter(w, k)
       \/ Capture(w) \/ LiveRule(w) \/ Available(w) \/ Charge(w) \/ Wake(w) \/ GiveUp(w)
  \/ SpoolFills \/ Confirm \/ Retire \/ SetConfig \/ SwapRule \/ Revoke \/ StoreFails

MeterSpec == MeterInit /\ [][MeterNext]_meterVars
-----------------------------------------------------------------------------
WaitRecord == [pc : {"idle", "loop", "captured", "ruled", "waiting"}, kind : Kinds, progress : Nat, lease : Leases, revision : Nat]

\* Store, listener and waiters have their types; what a waiter holds is not newer
\* than what it was read from.
MeterTypeOK ==
  /\ left \in [Leases -> Nat]
  /\ known \in Leases /\ serving \in Leases
  /\ full \in BOOLEAN /\ broken \in BOOLEAN /\ revoked \in BOOLEAN
  /\ progress \in Nat /\ revision \in Nat /\ news \in Nat
  /\ wait \in [Waiters -> WaitRecord]
  /\ \A w \in Waiters : wait[w].progress <= progress /\ wait[w].revision <= revision

\* No connection sleeps through the news it waits for: one that waits while the rule
\* in force could be served, or after the store failed, has been woken already
\* (awaitAvailable, chargeCurrent).
NoLostWakeup ==
  \A w \in Waiters :
    wait[w].pc = "waiting" /\ (broken \/ revoked \/ Spendable(serving)) => Woken(w)
=============================================================================
