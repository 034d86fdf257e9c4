----------------------------- MODULE LeaseMeter -----------------------------
(***************************************************************************)
(* What an Agent promises about every finite lease, whatever it does with  *)
(* credit windows, write-ahead batches, crashes and recoveries: bytes are  *)
(* sent only against budget that is already on disk, the usage facts it    *)
(* reports never shrink, and a stopped lease is spent no further.          *)
(***************************************************************************)
EXTENDS Integers

CONSTANTS Leases,
          Bytes,     \* the budget Bytes[l] that the panel granted
          MaxBytes   \* no budget is larger

\* What every instance gives them.
MeterConstants == MaxBytes \in Nat /\ Bytes \in [Leases -> 0..MaxBytes]

VARIABLES sent,      \* bytes forwarded against the lease
          billed,    \* bytes in usage facts on disk
          held,      \* budget promised on disk to open windows
          stopped    \* the lease is durably stopped

vars == <<sent, billed, held, stopped>>

Init ==
    /\ sent = [l \in Leases |-> 0] /\ billed = [l \in Leases |-> 0]
    /\ held = [l \in Leases |-> 0] /\ stopped = [l \in Leases |-> FALSE]

\* Forwarding: only up to what the disk already accounts for.
Send(l) ==
    /\ ~stopped[l] /\ sent'[l] >= sent[l] /\ sent'[l] <= billed[l] + held[l]
    /\ billed'[l] = billed[l] /\ held'[l] = held[l] /\ stopped'[l] = stopped[l]

\* A durable commit, or a recovery: budget is held, settled or released, and a
\* payload that was charged by itself goes out with its fact.
Commit(l) ==
    /\ sent'[l] >= sent[l]
    /\ billed'[l] >= billed[l]
    /\ sent'[l] <= billed'[l] + held'[l]
    /\ billed'[l] + held'[l] <= Bytes[l]
    /\ stopped[l] => stopped'[l] /\ billed'[l] = billed[l] /\ sent'[l] = sent[l]
    /\ stopped'[l] => held'[l] = 0

Next ==
    /\ sent' \in [Leases -> 0..MaxBytes] /\ billed' \in [Leases -> 0..MaxBytes]
    /\ held' \in [Leases -> 0..MaxBytes]
    /\ stopped' \in [Leases -> BOOLEAN]
    /\ \A l \in Leases : Send(l) \/ Commit(l)

Spec == Init /\ [][Next]_vars

\* No lease is overspent, and after it stops its facts cover all it forwarded.
NeverOverspent ==
    \A l \in Leases : sent[l] <= Bytes[l] /\ (stopped[l] => sent[l] <= billed[l])
=============================================================================
