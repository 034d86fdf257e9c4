-------------------------- MODULE EntitlementAlerts --------------------------
(***************************************************************************)
(* Reminders about entitlements (internal/alerts/alerts.go): about to       *)
(* expire, expired, little traffic left. The second half of RunOnce reads a *)
(* page of the entitlements in force and settles each candidate in one      *)
(* transaction that looks again, leaves a mark in cp_alert_entitlements and *)
(* emits the event. Meanwhile the user renews, buys add-ons and uses        *)
(* traffic, and an administrator disables the account.                      *)
(***************************************************************************)
EXTENDS Naturals, Sequences, SequencesExt

CONSTANTS
  Ents,        \* entitlement ids, numbers, in the order a user buys them
  Ends,        \* when each expires
  Quotas,      \* quotas on sale; 0 is without limit
  Expiry,      \* Policy.ExpiryHours
  Percent,     \* Policy.RemainingPercent
  Page,        \* rows of a page (1000 in the code)
  MaxClock,    \* bound: the clock
  MaxUsed,     \* bound: settled traffic
  MaxQuota,    \* bound: a quota with its add-ons
  MaxFailed    \* bound: failed transactions

VARIABLES
  clock,
  bought,      \* entitlements 1..bought exist; the newest is in force
  disabled,    \* cp_users.disabled
  ent,         \* quota and used of each
  marks,       \* cp_alert_entitlements
  heard,       \* the reminders emitted for each
  from,        \* Manager.entitlementCursor
  candidates,  \* what the page left to settle
  failed

reminderVars == <<clock, bought, disabled, ent, marks, heard, from, candidates, failed>>

RemindersInit ==
  /\ clock = 0
  /\ bought = 0
  /\ disabled = FALSE
  /\ ent = [e \in Ents |-> [quota |-> 0, used |-> 0]]
  /\ marks = {}
  /\ heard = [e \in Ents |-> <<>>]
  /\ from = 0
  /\ candidates = <<>>
  /\ failed = 0
-----------------------------------------------------------------------------
(* The shop and the account. *)

Pass ==
  /\ clock < MaxClock
  /\ clock' = clock + 1
  /\ UNCHANGED <<bought, disabled, ent, marks, heard, from, candidates, failed>>

Buy(q) ==
  /\ bought + 1 \in Ents /\ clock < Ends[bought + 1]
  /\ bought' = bought + 1
  /\ ent' = [ent EXCEPT ![bought + 1] = [quota |-> q, used |-> 0]]
  /\ UNCHANGED <<clock, disabled, marks, heard, from, candidates, failed>>

\* An add-on raises the quota of the entitlement in force, or lifts the limit.
AddOn(q) ==
  /\ bought > 0 /\ clock < Ends[bought] /\ ent[bought].quota + q <= MaxQuota
  /\ ent' = [ent EXCEPT ![bought].quota = IF q = 0 \/ @ = 0 THEN 0 ELSE @ + q]
  /\ UNCHANGED <<clock, bought, disabled, marks, heard, from, candidates, failed>>

\* What is settled was leased within the quota.
Settle(e) ==
  /\ e <= bought /\ ent[e].used < MaxUsed
  /\ ent[e].quota = 0 \/ ent[e].used < ent[e].quota
  /\ ent' = [ent EXCEPT ![e].used = @ + 1]
  /\ UNCHANGED <<clock, bought, disabled, marks, heard, from, candidates, failed>>

disableUser ==
  /\ disabled' = ~disabled
  /\ UNCHANGED <<clock, bought, ent, marks, heard, from, candidates, failed>>
-----------------------------------------------------------------------------
(* The scan. *)

\* Mutation: an entitlement that was replaced is still reminded of.
Exists(e) == e <= bought /\ ~disabled

\* The entitlement in force of an account that is not disabled.
InForce(e) == e = bought /\ ~disabled

Threshold(q) == (q \div 100) * Percent + ((q % 100) * Percent) \div 100
Remaining(e) == IF ent[e].quota > ent[e].used THEN ent[e].quota - ent[e].used ELSE 0
Expired(e) == clock >= Ends[e]

\* The reminders that are due, in the order they are emitted.
Due(e) ==
  IF Expired(e) THEN <<"entitlement.expired">>
  ELSE (IF Ends[e] <= clock + Expiry THEN <<"entitlement.expiring">> ELSE <<>>)
       \o (IF Remaining(e) <= Threshold(ent[e].quota) THEN <<"entitlement.low_quota">> ELSE <<>>)

Unsent(e) == SelectSeq(Due(e), LAMBDA k : <<e, k>> \notin marks)

\* One query returns the page with what has been sent.
ReadEntitlements ==
  /\ candidates = <<>>
  /\ LET rest == SetToSortSeq({e \in Ents : e > from /\ InForce(e)}, <)
         page == SubSeq(rest, 1, IF Len(rest) < Page THEN Len(rest) ELSE Page)
     IN /\ candidates' = SelectSeq(page, LAMBDA e : Unsent(e) # <<>>)
        /\ from' = IF Len(page) < Page THEN 0 ELSE Last(page)
  /\ UNCHANGED <<clock, bought, disabled, ent, marks, heard, failed>>

monitorEntitlement ==
  /\ candidates # <<>>
  /\ candidates' = Tail(candidates)
  /\ LET e == Head(candidates)
         new == Unsent(e)
     IN IF InForce(e)
        THEN /\ marks' = marks \cup {<<e, k>> : k \in ToSet(new)}
             /\ heard' = [heard EXCEPT ![e] = @ \o new]
        ELSE UNCHANGED <<marks, heard>>
  /\ UNCHANGED <<clock, bought, disabled, ent, from, failed>>

\* The transaction rolls back and the scan ends.
EntitlementFails ==
  /\ candidates # <<>> /\ failed < MaxFailed
  /\ candidates' = <<>>
  /\ failed' = failed + 1
  /\ UNCHANGED <<clock, bought, disabled, ent, marks, heard, from>>

RemindersNext ==
  \/ Pass
  \/ \E q \in Quotas : Buy(q) \/ AddOn(q)
  \/ \E e \in Ents : Settle(e)
  \/ disableUser
  \/ ReadEntitlements \/ monitorEntitlement \/ EntitlementFails

RemindersSpec == RemindersInit /\ [][RemindersNext]_reminderVars
-----------------------------------------------------------------------------
(* Properties. *)

\* Each kind of reminder is emitted at most once for an entitlement, add-ons
\* and failed scans included, and nothing follows the notice of its end.
RemindedOnce ==
  \A e \in Ents : \A i \in 1..Len(heard[e]) : \A j \in 1..(i - 1) :
    heard[e][j] # heard[e][i] /\ heard[e][j] # "entitlement.expired"

\* A reminder goes to an account that is enabled at that moment, about the
\* entitlement it holds then: the transaction checks again what the page saw.
ReminderIsCurrent ==
  \A e \in Ents : heard'[e] # heard[e] => e = bought /\ ~disabled

\* A reminder of little traffic left is emitted for an entitlement with a limit.
LowQuotaIsLow ==
  \A e \in Ents : "entitlement.low_quota" \in ToSet(heard'[e]) \ ToSet(heard[e]) =>
    ent[e].quota # 0
=============================================================================
