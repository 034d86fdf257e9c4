--------------------------- MODULE MeterWaitProofs ---------------------------
(***************************************************************************)
(* No number of connections, allocations or renewals makes a connection    *)
(* sleep through the news it waits for.  NoLostWakeup is about a           *)
(* connection that has gone to sleep; it is made inductive by what holds   *)
(* of one that has read its rule and not yet asked the store: the rule is  *)
(* still the one in force, or the channel it holds has been closed.        *)
(***************************************************************************)
EXTENDS MeterWait, TLAPS

RuleIsCurrent ==
  \A w \in Waiters :
    wait[w].pc = "ruled" /\ wait[w].revision = revision => wait[w].lease = serving

WaitInv == MeterTypeOK /\ RuleIsCurrent /\ NoLostWakeup
-----------------------------------------------------------------------------
\* Store, listener and waiters keep their types, and the numbers a waiter holds
\* never run ahead of the channels they stand for (awaitAvailable, Store.changes).
LEMMA MeterTypeStep == MeterTypeOK /\ [MeterNext]_meterVars => MeterTypeOK'
<1> SUFFICES ASSUME MeterTypeOK, [MeterNext]_meterVars PROVE MeterTypeOK'
  OBVIOUS
<1> DEFINE Moves(w, x) == wait' = [wait EXCEPT ![w] = x]
           Holds(x) == x.progress <= progress /\ x.revision <= revision
<1>a. ASSUME NEW w \in Waiters, NEW x \in WaitRecord, Holds(x), Moves(w, x), left' \in [Leases -> Nat],
             UNCHANGED <<known, full, broken, progress, ruleVars, news>>
      PROVE MeterTypeOK'
  BY <1>a DEF MeterTypeOK, ruleVars
<1>b. NoWait \in WaitRecord /\ Holds(NoWait)
  BY AllowanceIsNat DEF NoWait, WaitRecord, Kinds, MeterTypeOK
<1>c. \A w \in Waiters : wait[w] \in WaitRecord /\ Holds(wait[w])
  BY DEF MeterTypeOK
<1>d. left \in [Leases -> Nat] /\ progress \in Nat /\ revision \in Nat /\ serving \in Leases
  BY DEF MeterTypeOK
<1> HIDE DEF Moves
<1>1. ASSUME NEW w \in Waiters, NEW k \in Kinds, Enter(w, k) PROVE MeterTypeOK'
  <2> DEFINE x == [NoWait EXCEPT !.pc = "loop", !.kind = k]
  <2>1. x \in WaitRecord /\ Holds(x)
    BY <1>b DEF WaitRecord, NoWait
  <2>2. Moves(w, x)
    BY <1>1 DEF Enter, Moves
  <2> QED BY <1>1, <1>a, <1>d, <2>1, <2>2 DEF Enter, storeVars
<1>2. ASSUME NEW w \in Waiters, Capture(w) PROVE MeterTypeOK'
  <2> DEFINE x == [wait[w] EXCEPT !.pc = "captured", !.progress = progress]
  <2>1. x \in WaitRecord /\ Holds(x)
    <3>1. wait[w] \in WaitRecord /\ Holds(wait[w]) /\ progress \in Nat
      BY <1>c, <1>d
    <3>2. x \in WaitRecord
      BY <3>1 DEF WaitRecord
    <3>3. x.progress = progress /\ x.revision = wait[w].revision
      BY <3>1 DEF WaitRecord
    <3> QED BY <3>1, <3>2, <3>3
  <2>2. Moves(w, x)
    BY <1>2 DEF Capture, Moves, MeterTypeOK
  <2> QED BY <1>2, <1>a, <1>d, <2>1, <2>2 DEF Capture, storeVars
<1>3. ASSUME NEW w \in Waiters, LiveRule(w) PROVE MeterTypeOK'
  <2> DEFINE x == IF revoked THEN NoWait ELSE [wait[w] EXCEPT !.pc = "ruled", !.lease = serving, !.revision = revision]
  <2>1. x \in WaitRecord /\ Holds(x)
    <3>1. wait[w] \in WaitRecord /\ Holds(wait[w]) /\ serving \in Leases /\ revision \in Nat
      BY <1>c, <1>d
    <3> DEFINE y == [wait[w] EXCEPT !.pc = "ruled", !.lease = serving, !.revision = revision]
    <3>2. y \in WaitRecord
      BY <3>1 DEF WaitRecord
    <3>3. y.progress = wait[w].progress /\ y.revision = revision
      BY <3>1 DEF WaitRecord
    <3>4. Holds(y)
      BY <3>1, <3>3
    <3> HIDE DEF y
    <3>5. x = NoWait \/ x = y
      BY DEF y
    <3> QED BY <1>b, <3>2, <3>4, <3>5
  <2>2. Moves(w, x)
    BY <1>3 DEF LiveRule, Moves, MeterTypeOK
  <2> QED BY <1>3, <1>a, <1>d, <2>1, <2>2 DEF LiveRule, storeVars
<1>4. ASSUME NEW w \in Waiters, Available(w) \/ Charge(w) PROVE MeterTypeOK'
  <2>1. PICK x \in {NoWait, [wait[w] EXCEPT !.pc = "waiting"]} : Moves(w, x)
    BY <1>4 DEF Available, Charge, Moves, MeterTypeOK
  <2>2. x \in WaitRecord /\ Holds(x)
    BY <1>b, <1>c, <2>1 DEF WaitRecord
  <2>3. left' \in [Leases -> Nat]
    BY <1>4, <1>c, <1>d DEF Available, Charge, Spendable, storeVars, WaitRecord
  <2> QED BY <1>4, <1>a, <2>1, <2>2, <2>3 DEF Available, Charge, storeVars
<1>5. ASSUME NEW w \in Waiters, Wake(w) \/ GiveUp(w) PROVE MeterTypeOK'
  <2>1. PICK x \in {NoWait, [wait[w] EXCEPT !.pc = "loop"]} : Moves(w, x)
    BY <1>5 DEF Wake, GiveUp, Moves, MeterTypeOK
  <2>2. x \in WaitRecord /\ Holds(x)
    BY <1>b, <1>c, <2>1 DEF WaitRecord
  <2> QED BY <1>5, <1>a, <1>d, <2>1, <2>2 DEF Wake, GiveUp, storeVars
<1>6. CASE SpoolFills \/ Revoke
  BY <1>6 DEF SpoolFills, Revoke, MeterTypeOK, storeVars, ruleVars
<1>7. CASE Confirm \/ Retire \/ SetConfig \/ StoreFails \/ SwapRule
  <2>1. \A n \in Nat : n <= progress => n <= progress'
    BY <1>7, <1>d DEF Confirm, Retire, SetConfig, StoreFails, SwapRule, storeVars
  <2>2. \A n \in Nat : n <= revision => n <= revision'
    BY <1>7, <1>d DEF Confirm, Retire, SetConfig, StoreFails, SwapRule, ruleVars
  <2>3. wait' = wait /\ progress' \in Nat /\ revision' \in Nat /\ news' \in Nat
    BY <1>7, <1>d DEF Confirm, Retire, SetConfig, StoreFails, SwapRule, storeVars, ruleVars, MeterTypeOK
  <2>4. left' \in [Leases -> Nat] /\ known' \in Leases /\ serving' \in Leases
    BY <1>7, <1>d, AllowanceIsNat DEF Confirm, Retire, SetConfig, StoreFails, SwapRule, storeVars, ruleVars, MeterTypeOK
  <2>5. full' \in BOOLEAN /\ broken' \in BOOLEAN /\ revoked' \in BOOLEAN
    BY <1>7 DEF Confirm, Retire, SetConfig, StoreFails, SwapRule, storeVars, ruleVars, MeterTypeOK
  <2>6. \A w \in Waiters : wait'[w].progress <= progress' /\ wait'[w].revision <= revision'
    BY <1>c, <2>1, <2>2, <2>3 DEF WaitRecord
  <2> QED BY <2>3, <2>4, <2>5, <2>6 DEF MeterTypeOK
<1>8. CASE UNCHANGED meterVars
  BY <1>8 DEF meterVars, MeterTypeOK
<1> QED BY <1>1, <1>2, <1>3, <1>4, <1>5, <1>6, <1>7, <1>8 DEF MeterNext

\* A connection that read its rule holds the rule in force, or a closed channel
\* (liveRule reads both under the listener's mutex).
LEMMA RuleStep == WaitInv /\ [MeterNext]_meterVars => RuleIsCurrent'
<1> SUFFICES ASSUME WaitInv, [MeterNext]_meterVars, NEW v \in Waiters
             PROVE (wait[v].pc = "ruled" /\ wait[v].revision = revision => wait[v].lease = serving)'
  BY DEF RuleIsCurrent
<1> USE DEF WaitInv, MeterTypeOK, RuleIsCurrent, storeVars, ruleVars, NoWait
<1>1. ASSUME NEW w \in Waiters, (\E k \in Kinds : Enter(w, k)) \/ Capture(w) \/ Available(w)
      PROVE wait'[v].pc # "ruled" \/ (wait'[v] = wait[v] /\ UNCHANGED <<serving, revision>>)
  <2>1. CASE v = w
    <3>1. CASE \E k \in Kinds : Enter(w, k)
      BY <2>1, <3>1 DEF Enter
    <3>2. CASE Capture(w)
      BY <2>1, <3>2 DEF Capture
    <3>3. CASE Available(w)
      BY <2>1, <3>3 DEF Available
    <3> QED BY <1>1, <3>1, <3>2, <3>3
  <2>2. CASE v # w
    BY <1>1, <2>2 DEF Enter, Capture, Available
  <2> QED BY <2>1, <2>2
<1>6. ASSUME NEW w \in Waiters, LiveRule(w)
      PROVE (wait[v].pc = "ruled" /\ wait[v].revision = revision => wait[v].lease = serving)'
  <2>1. CASE v = w
    BY <1>6, <2>1 DEF LiveRule
  <2>2. CASE v # w
    BY <1>6, <2>2 DEF LiveRule
  <2> QED BY <2>1, <2>2
<1>2. ASSUME NEW w \in Waiters, Charge(w) \/ Wake(w) \/ GiveUp(w)
      PROVE wait'[v].pc # "ruled" \/ (wait'[v] = wait[v] /\ UNCHANGED <<serving, revision>>)
  <2>1. CASE v = w
    <3>1. CASE Charge(w)
      BY <2>1, <3>1 DEF Charge
    <3>2. CASE Wake(w)
      BY <2>1, <3>2 DEF Wake
    <3>3. CASE GiveUp(w)
      BY <2>1, <3>3 DEF GiveUp
    <3> QED BY <1>2, <3>1, <3>2, <3>3
  <2>2. CASE v # w
    BY <1>2, <2>2 DEF Charge, Wake, GiveUp
  <2> QED BY <2>1, <2>2
<1>3. CASE SpoolFills \/ Confirm \/ Retire \/ SetConfig \/ Revoke \/ StoreFails
  BY <1>3 DEF SpoolFills, Confirm, Retire, SetConfig, Revoke, StoreFails
<1>4. CASE SwapRule
  BY <1>4 DEF SwapRule
<1>5. CASE UNCHANGED meterVars
  BY <1>5 DEF meterVars
<1> QED BY <1>1, <1>2, <1>3, <1>4, <1>5, <1>6 DEF MeterNext

\* Whoever makes a rule servable, breaks the store or revokes a rule closes a channel
\* that every sleeper holds (Store.signalLocked, binding.changed).
LEMMA WakeupStep == WaitInv /\ [MeterNext]_meterVars => NoLostWakeup'
<1> SUFFICES ASSUME WaitInv, [MeterNext]_meterVars, NEW v \in Waiters
             PROVE (wait[v].pc = "waiting" /\ (broken \/ revoked \/ Spendable(serving)) => Woken(v))'
  BY DEF NoLostWakeup
<1> USE AllowanceIsNat DEF WaitInv, MeterTypeOK, NoLostWakeup, storeVars, ruleVars, NoWait, Woken, Spendable
<1>1. ASSUME NEW w \in Waiters, (\E k \in Kinds : Enter(w, k)) \/ Capture(w) \/ LiveRule(w)
      PROVE wait'[v].pc # "waiting" \/ (wait'[v] = wait[v] /\ UNCHANGED <<storeVars, ruleVars>>)
  <2>1. CASE v = w
    <3>1. CASE \E k \in Kinds : Enter(w, k)
      BY <2>1, <3>1 DEF Enter
    <3>2. CASE Capture(w)
      BY <2>1, <3>2 DEF Capture
    <3>3. CASE LiveRule(w)
      BY <2>1, <3>3 DEF LiveRule
    <3> QED BY <1>1, <3>1, <3>2, <3>3
  <2>2. CASE v # w
    BY <1>1, <2>2 DEF Enter, Capture, LiveRule
  <2> QED BY <2>1, <2>2
<1>2. CASE \E w \in Waiters : Available(w)
  BY <1>2 DEF Available, RuleIsCurrent
<1>3. CASE \E w \in Waiters : Charge(w)
  <2> PICK w \in Waiters : Charge(w)
    BY <1>3
  <2>0. wait[w].lease \in Leases
    BY DEF WaitRecord
  <2>1. \A l \in Leases : left'[l] <= left[l]
    BY <2>0 DEF Charge
  <2>2. left' \in [Leases -> Nat]
    BY <2>0 DEF Charge
  <2>3. CASE v = w
    <3>1. CASE broken \/ Spendable(wait[w].lease)
      BY <2>3, <3>1 DEF Charge
    <3>2. CASE ~broken /\ ~Spendable(wait[w].lease)
      BY <2>3, <3>2 DEF Charge, RuleIsCurrent, WaitRecord
    <3> QED BY <3>1, <3>2
  <2>4. CASE v # w
    BY <2>1, <2>2, <2>4 DEF Charge
  <2> QED BY <2>3, <2>4
<1>4. ASSUME NEW w \in Waiters, Wake(w) \/ GiveUp(w)
      PROVE wait'[v].pc # "waiting" \/ (wait'[v] = wait[v] /\ UNCHANGED <<storeVars, ruleVars>>)
  <2>1. CASE v = w
    <3>1. CASE Wake(w)
      BY <2>1, <3>1 DEF Wake
    <3>2. CASE GiveUp(w)
      BY <2>1, <3>2 DEF GiveUp
    <3> QED BY <1>4, <3>1, <3>2
  <2>2. CASE v # w
    BY <1>4, <2>2 DEF Wake, GiveUp
  <2> QED BY <2>1, <2>2
<1>5. CASE SpoolFills
  BY <1>5 DEF SpoolFills
<1>6. CASE Confirm \/ Retire \/ StoreFails \/ SetConfig
  BY <1>6 DEF Confirm, Retire, StoreFails, SetConfig
<1>7. CASE SwapRule \/ Revoke
  BY <1>7 DEF SwapRule, Revoke
<1>8. CASE UNCHANGED meterVars
  BY <1>8 DEF meterVars
<1> QED BY <1>1, <1>2, <1>3, <1>4, <1>5, <1>6, <1>7, <1>8 DEF MeterNext

\* No connection sleeps through the news it waits for, for any number of connections,
\* allocations, renewals and changes of the configuration (awaitAvailable, chargeCurrent).
THEOREM WakeupsNeverLost == MeterSpec => []NoLostWakeup
<1>1. MeterInit => WaitInv
  <2> SUFFICES ASSUME MeterInit PROVE WaitInv
    OBVIOUS
  <2>1. NoWait \in WaitRecord /\ NoWait.pc = "idle" /\ NoWait.progress = 0 /\ NoWait.revision = 0
    BY AllowanceIsNat DEF NoWait, WaitRecord, Kinds
  <2>2. wait \in [Waiters -> WaitRecord] /\ \A w \in Waiters : wait[w] = NoWait
    BY <2>1 DEF MeterInit
  <2>3. MeterTypeOK
    <3>1. \A w \in Waiters : wait[w].progress <= progress /\ wait[w].revision <= revision
      <4>1. progress = 0 /\ revision = 0
        BY DEF MeterInit
      <4>2. \A w \in Waiters : wait[w].progress = 0 /\ wait[w].revision = 0
        BY <2>1, <2>2, Zenon
      <4>3. 0 <= 0
        OBVIOUS
      <4> QED BY <4>1, <4>2, <4>3, Zenon
    <3>2. left \in [Leases -> Nat]
      BY AllowanceIsNat DEF MeterInit
    <3> QED BY <2>2, <3>1, <3>2, AllowanceIsNat DEF MeterInit, MeterTypeOK
  <2> QED BY <2>1, <2>2, <2>3 DEF WaitInv, RuleIsCurrent, NoLostWakeup
<1>2. WaitInv /\ [MeterNext]_meterVars => WaitInv'
  BY MeterTypeStep, RuleStep, WakeupStep DEF WaitInv
<1>3. WaitInv => NoLostWakeup
  BY DEF WaitInv
<1> QED BY <1>1, <1>2, <1>3, PTL DEF MeterSpec
=============================================================================
