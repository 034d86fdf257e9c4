-------------------------- MODULE LeaseMeterProofs --------------------------
(* The metering contract keeps every lease within its budget.                *)
EXTENDS LeaseMeter, TLAPS

\* What the disk accounts for covers what was sent and fits the budget; a
\* stopped lease holds nothing.
IInv ==
    /\ sent \in [Leases -> Nat] /\ billed \in [Leases -> Nat] /\ held \in [Leases -> Nat]
    /\ stopped \in [Leases -> BOOLEAN]
    /\ \A l \in Leases : /\ sent[l] <= billed[l] + held[l]
                         /\ billed[l] + held[l] <= Bytes[l]
                         /\ stopped[l] => held[l] = 0

\* A commit or a forwarding step of an Agent keeps the accounting of each lease.
LEMMA Step == MeterConstants /\ IInv /\ [Next]_vars => IInv'
<1> SUFFICES ASSUME MeterConstants, IInv, [Next]_vars PROVE IInv'
  OBVIOUS
<1>1. CASE UNCHANGED vars
  BY <1>1 DEF IInv, vars
<1>2. CASE Next
  <2>1. /\ sent' \in [Leases -> Nat] /\ billed' \in [Leases -> Nat] /\ held' \in [Leases -> Nat]
        /\ stopped' \in [Leases -> BOOLEAN]
    BY <1>2 DEF Next, MeterConstants
  <2>2. ASSUME NEW l \in Leases
        PROVE  /\ sent'[l] <= billed'[l] + held'[l]
               /\ billed'[l] + held'[l] <= Bytes[l]
               /\ stopped'[l] => held'[l] = 0
    <3>1. Send(l) \/ Commit(l)
      BY <1>2 DEF Next
    <3> QED
      BY <3>1, <2>1 DEF IInv, Send, Commit, MeterConstants
  <2> QED
    BY <2>1, <2>2 DEF IInv
<1> QED
  BY <1>1, <1>2

\* No Agent that keeps the contract forwards more than a lease's budget, and the
\* facts of a lease it stopped (Store.Retire) cover every byte it forwarded.
THEOREM ContractBounds ==
  ASSUME MeterConstants PROVE Spec => []NeverOverspent
<1>1. Init => IInv
  BY DEF Init, IInv, MeterConstants
<1>2. IInv => NeverOverspent
  <2> SUFFICES ASSUME IInv, NEW l \in Leases
               PROVE  sent[l] <= Bytes[l] /\ (stopped[l] => sent[l] <= billed[l])
    BY DEF NeverOverspent
  <2>1. /\ sent[l] \in Nat /\ billed[l] \in Nat /\ held[l] \in Nat /\ Bytes[l] \in Nat
        /\ sent[l] <= billed[l] + held[l] /\ billed[l] + held[l] <= Bytes[l]
    BY DEF IInv, MeterConstants
  <2>2. stopped[l] => held[l] = 0
    BY DEF IInv
  <2> QED
    BY <2>1, <2>2
<1> QED
  BY <1>1, <1>2, Step, PTL DEF Spec
=============================================================================
