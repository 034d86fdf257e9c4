------------------------------ MODULE Webhooks ------------------------------
(***************************************************************************)
(* Delivery of notifications to a user's webhook (internal/commerce/        *)
(* events.go and webhook_settings.go). An event and its delivery row commit *)
(* with the change they report. Every panel process runs RunWebhookDelivery *)
(* over the same rows: it lists what is due, claims a row by comparing the  *)
(* attempt count it has read, calls the receiver outside any transaction    *)
(* and records the answer. The owner edits or deletes the subscription at   *)
(* any time; that ends pending deliveries for good.                         *)
(***************************************************************************)
EXTENDS Naturals, Sequences, FiniteSets, SequencesExt

CONSTANTS
  Panels,      \* panel processes
  Events,      \* events in the order of ORDER BY next_at, event_id; each its own kind
  MaxAttempts, \* calls per delivery (12 in the code)
  MaxEdits,    \* bound: edits of the subscription
  MaxCrashes   \* bound: panel processes killed

VARIABLES
  sub,      \* the subscription: exists, enabled, muted, kinds
  row,      \* per event, its row in commerce_event_deliveries
  loop,     \* per panel, the local variables of RunWebhookDelivery
  calls,    \* per event, calls of the receiver so far
  hidden,   \* events their owner may no longer see (EventVisible)
  edits,
  crashes

vars == <<sub, row, loop, calls, hidden, edits, crashes>>

Final == {"suppressed", "access_revoked"}
NoRow == [state |-> "none", attempts |-> 0, due |-> FALSE, error |-> "", delivered |-> FALSE]
Fresh == [state |-> "row", attempts |-> 0, due |-> TRUE, error |-> "", delivered |-> FALSE]
Idle == [pc |-> "idle", todo |-> <<>>, ok |-> FALSE]

Init ==
  /\ sub = [exists |-> TRUE, enabled |-> TRUE, muted |-> FALSE, kinds |-> Events]
  /\ row = [e \in Events |-> NoRow]
  /\ loop = [w \in Panels |-> Idle]
  /\ calls = [e \in Events |-> 0]
  /\ hidden = {}
  /\ edits = 0
  /\ crashes = 0

Open(e) == row[e].state = "row" /\ ~row[e].delivered
Receives == sub.exists /\ sub.enabled /\ ~sub.muted
-----------------------------------------------------------------------------
\* The event commits with its delivery row, if the subscription takes it.
EmitEventTx(e) ==
  /\ row[e].state = "none"
  /\ row' = [row EXCEPT ![e] = IF Receives /\ e \in sub.kinds THEN Fresh ELSE [@ EXCEPT !.state = "gone"]]
  /\ UNCHANGED <<sub, loop, calls, hidden, edits, crashes>>

\* An edit ends what the new settings do not want.
Suppressed(s, e) == ~s.enabled \/ s.muted \/ e \notin s.kinds

\* kinds = {} stands for a choice of kinds none of these events is of.
UpdateWebhook ==
  /\ sub.exists
  /\ edits < MaxEdits
  /\ edits' = edits + 1
  /\ \E en, mu \in BOOLEAN, ks \in SUBSET Events :
       /\ sub' = [sub EXCEPT !.enabled = en, !.muted = mu, !.kinds = ks]
       /\ row' = [e \in Events |-> IF Open(e) /\ row[e].attempts < MaxAttempts /\ Suppressed(sub', e)
                                   THEN [row[e] EXCEPT !.attempts = MaxAttempts, !.error = "suppressed"]
                                   ELSE row[e]]
  /\ UNCHANGED <<loop, calls, hidden, crashes>>

DeleteWebhook ==
  /\ sub.exists
  /\ edits < MaxEdits
  /\ edits' = edits + 1
  /\ sub' = [sub EXCEPT !.exists = FALSE]
  /\ row' = [e \in Events |-> IF row[e].state = "row" THEN [row[e] EXCEPT !.state = "gone"] ELSE row[e]]
  /\ UNCHANGED <<loop, calls, hidden, crashes>>

\* muted_until passes.
MuteEnds ==
  /\ sub.muted
  /\ sub' = [sub EXCEPT !.muted = FALSE]
  /\ UNCHANGED <<row, loop, calls, hidden, edits, crashes>>

\* The owner loses access to what the event is about.
Hide(e) ==
  /\ row[e].state = "row"
  /\ e \notin hidden
  /\ hidden' = hidden \cup {e}
  /\ UNCHANGED <<sub, row, loop, calls, edits, crashes>>

\* next_at passes: five minutes after a claim, the back-off after a failure.
FallsDue(e) ==
  /\ row[e].state = "row"
  /\ ~row[e].due
  /\ row' = [row EXCEPT ![e].due = TRUE]
  /\ UNCHANGED <<sub, loop, calls, hidden, edits, crashes>>

\* Thirty days later event and delivery are deleted.
PruneEvents(e) ==
  /\ row[e].state = "row"
  /\ row' = [row EXCEPT ![e].state = "gone"]
  /\ UNCHANGED <<sub, loop, calls, hidden, edits, crashes>>
-----------------------------------------------------------------------------
(* RunWebhookDelivery *)

Listed == {e \in Events : Open(e) /\ Receives /\ row[e].due /\ row[e].attempts < MaxAttempts}

\* One query: the rows and the attempt counts they have now.
List(w) ==
  /\ loop[w].pc = "idle"
  /\ Listed # {}
  /\ LET ids == SetToSortSeq(Listed, LAMBDA x, y : x < y)
     IN loop' = [loop EXCEPT ![w] = [Idle EXCEPT !.pc = "claim",
                    !.todo = [i \in DOMAIN ids |-> [event |-> ids[i], attempts |-> row[ids[i]].attempts]]]]
  /\ UNCHANGED <<sub, row, calls, hidden, edits, crashes>>

Job(w) == Head(loop[w].todo)
Onward(l) == IF Len(l.todo) > 1 THEN [Idle EXCEPT !.pc = "claim", !.todo = Tail(l.todo)] ELSE Idle

Claimable(w) ==
  /\ Open(Job(w).event)
  /\ row[Job(w).event].due
  /\ row[Job(w).event].attempts = Job(w).attempts

\* The claim: subscription and visibility are read again, in the transaction.
Claim(w) ==
  /\ loop[w].pc = "claim"
  /\ LET e == Job(w).event
     IN IF Receives /\ e \in hidden
        THEN /\ row' = IF Open(e) THEN [row EXCEPT ![e].attempts = MaxAttempts, ![e].error = "access_revoked"] ELSE row
             /\ loop' = [loop EXCEPT ![w] = Onward(@)]
        ELSE IF Receives /\ Claimable(w)
        THEN /\ row' = [row EXCEPT ![e].attempts = @ + 1, ![e].due = FALSE]
             /\ loop' = [loop EXCEPT ![w].pc = "call", ![w].todo[1].attempts = @ + 1]
        ELSE row' = row /\ loop' = [loop EXCEPT ![w] = Onward(@)]
  /\ UNCHANGED <<sub, calls, hidden, edits, crashes>>

\* The receiver gets the event and answers, or not.
Call(w) ==
  /\ loop[w].pc = "call"
  /\ calls' = [calls EXCEPT ![Job(w).event] = @ + 1]
  /\ \E ok \in BOOLEAN : loop' = [loop EXCEPT ![w].pc = "record", ![w].ok = ok]
  /\ UNCHANGED <<sub, row, hidden, edits, crashes>>

\* The answer counts only for the attempt that still is the last one.
Recordable(w) ==
  /\ Open(Job(w).event)
  /\ row[Job(w).event].attempts = Job(w).attempts
  /\ row[Job(w).event].error \notin Final

\* Mutation: a failed call gives its attempt back.
RecordUncounted(w) ==
  /\ loop[w].pc = "record"
  /\ row' = IF ~Recordable(w) THEN row
            ELSE IF loop[w].ok THEN [row EXCEPT ![Job(w).event].delivered = TRUE, ![Job(w).event].error = ""]
            ELSE [row EXCEPT ![Job(w).event].due = FALSE, ![Job(w).event].attempts = @ - 1]
  /\ loop' = [loop EXCEPT ![w] = Onward(@)]
  /\ UNCHANGED <<sub, calls, hidden, edits, crashes>>

Record(w) ==
  /\ loop[w].pc = "record"
  /\ row' = IF ~Recordable(w) THEN row
            ELSE IF loop[w].ok THEN [row EXCEPT ![Job(w).event].delivered = TRUE, ![Job(w).event].error = ""]
            ELSE [row EXCEPT ![Job(w).event].due = FALSE, ![Job(w).event].error = "delivery_failed"]
  /\ loop' = [loop EXCEPT ![w] = Onward(@)]
  /\ UNCHANGED <<sub, calls, hidden, edits, crashes>>

\* The process ends, or the round does because a body cannot be formatted.
Crash(w) ==
  /\ loop[w].pc # "idle"
  /\ crashes < MaxCrashes
  /\ crashes' = crashes + 1
  /\ loop' = [loop EXCEPT ![w] = Idle]
  /\ UNCHANGED <<sub, row, calls, hidden, edits>>
-----------------------------------------------------------------------------
Worker(w) == List(w) \/ Claim(w) \/ Call(w) \/ Record(w)

Next ==
  \/ \E e \in Events : EmitEventTx(e) \/ Hide(e) \/ FallsDue(e) \/ PruneEvents(e)
  \/ UpdateWebhook \/ DeleteWebhook \/ MuteEnds
  \/ \E w \in Panels : Worker(w) \/ Crash(w)

\* The loops tick and time passes.
Fairness ==
  /\ \A w \in Panels : WF_vars(Worker(w))
  /\ WF_vars(\E e \in Events : FallsDue(e))

Spec == Init /\ [][Next]_vars /\ Fairness
-----------------------------------------------------------------------------
\* Rows and loops have the shapes the code gives them; a row's attempts stay
\* within the limit, whoever increments them.
TypeOK ==
  /\ sub.kinds \subseteq Events
  /\ \A e \in Events :
       /\ row[e].state \in {"none", "row", "gone"}
       /\ row[e].attempts \in 0..MaxAttempts
       /\ row[e].error \in Final \cup {"", "delivery_failed"}
  /\ \A w \in Panels : loop[w].pc = "idle" <=> loop[w].todo = <<>>

\* The receiver is called at most once per counted attempt, so at most twelve
\* times, with any number of panels, stale lists and crashes between claim and
\* answer (the compare of attempts in the claim).
CallsCounted == \A e \in Events : calls[e] <= row[e].attempts

\* A step leaves what was suppressed or revoked so, unclaimed and undelivered.
KeepsFinal ==
  \A e \in Events : row[e].state = "row" /\ row[e].error \in Final =>
    /\ row'[e].error \in Final
    /\ row'[e].attempts = MaxAttempts
    /\ ~row'[e].delivered

\* "Suppression is terminal": a delivery that was suppressed or revoked is never
\* claimed again nor reported delivered, whatever is unmuted or answers late.
FinalStaysFinal == [][KeepsFinal]_vars

\* No row waits for a receiver that does not want it: at any time a pending
\* delivery is of a subscription that exists, is enabled and unmuted and selects
\* the kind, so unmuting never sends a backlog (UpdateWebhook, emitEventTx).
PendingIsWanted == \A e \in Events : Open(e) /\ row[e].attempts < MaxAttempts => Receives /\ e \in sub.kinds

\* Every delivery ends: delivered, used up, suppressed, revoked or deleted, also
\* when a panel dies between the claim and the answer.
DeliveriesEnd == \A e \in Events : Open(e) ~> (~Open(e) \/ row[e].attempts = MaxAttempts)
=============================================================================
