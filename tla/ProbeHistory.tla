----------------------------- MODULE ProbeHistory ----------------------------
(***************************************************************************)
(* The history of the probes (internal/platform/probe_history.go). Samples  *)
(* are summed per node and minute in memory. A minute closes one minute     *)
(* after its end; a ticker writes closed minutes in batches, each batch in  *)
(* one transaction that also adds the minute to its hour, and then forgets  *)
(* them. A sample is its instant; a bucket and what a row holds are the set *)
(* of the samples summed in it, which its payload is a function of.         *)
(*                                                                         *)
(* A transaction can commit although its caller is told of a failure; the   *)
(* bucket then stays and is offered again. A restart loses what is in       *)
(* memory. Instants that are read before a lock is taken may be old by then.*)
(***************************************************************************)
EXTENDS Naturals, Sequences, FiniteSets, FiniteSetsExt, SequencesExt

CONSTANTS
  Nodes,
  Instants,     \* the instants within a minute at which samples are taken
  Hour,         \* minutes of an hour (60 in the code)
  MaxBuckets,   \* historyBuckets (8192)
  MaxSamples,   \* samples of a bucket (120)
  Batch,        \* buckets of a transaction (100)
  Retention,    \* minutes a minute's row is kept (7 days)
  HourRetention, \* minutes an hour's row is kept (180 days)
  MaxMinute,    \* bound: the clock
  MaxTroubles   \* bound: failed transactions, lost answers and restarts

VARIABLES
  minute,     \* the clock
  cutoff,     \* probeHistory.cutoff
  pending,    \* probeHistory.pending and seen
  stored,     \* cp_probe_history, resolution minute
  hours,      \* cp_probe_history, resolution hour: how many samples it counts
  flush,      \* the flush under way: its instant, the buckets left, those in flight
  accepted,   \* the samples answered 204 that no restart has lost
  written,    \* the samples that have ever been committed
  troubles

historyVars == <<minute, cutoff, pending, stored, hours, flush, accepted, written, troubles>>

Keys == Nodes \X (0..(MaxMinute + 1))
Empty == [k \in Keys |-> {}]
HourOf(m) == m \div Hour
HourKeys == Nodes \X (0..HourOf(MaxMinute + 1))
NoFlush == [pc |-> "idle", now |-> 0, keys |-> <<>>, batch |-> <<>>, values |-> <<>>]

newProbeHistory(now) == now - 1

HistoryInit ==
  /\ minute = 1
  /\ cutoff = newProbeHistory(1)
  /\ pending = Empty
  /\ stored = Empty
  /\ hours = [h \in HourKeys |-> 0]
  /\ flush = NoFlush
  /\ accepted = {} /\ written = {}
  /\ troubles = 0

Clock ==
  /\ minute < MaxMinute
  /\ minute' = minute + 1
  /\ UNCHANGED <<cutoff, pending, stored, hours, flush, accepted, written, troubles>>

\* An instant read a moment ago.
Recent == {minute, minute - 1}
-----------------------------------------------------------------------------
(* A sample arrives, possibly not for the first time. *)

\* Mutation: only the caller's clock decides what is too old.
TooOldByClock(m, now) == m + 1 < now
TooOld(m, now) == m < cutoff \/ m + 1 < now

\* A sample from the future is one of the next minute at most.
record(n, m, i) ==
  /\ m <= minute + 1
  /\ \E now \in Recent : ~TooOld(m, now)
  /\ LET k == <<n, m>>
     IN /\ i \notin pending[k] =>
             /\ pending[k] # {} \/ Cardinality({b \in Keys : pending[b] # {}}) < MaxBuckets
             /\ Cardinality(pending[k]) < MaxSamples
        /\ pending' = [pending EXCEPT ![k] = @ \cup {i}]
        /\ accepted' = accepted \cup {<<n, m, i>>}
  /\ UNCHANGED <<minute, cutoff, stored, hours, flush, written, troubles>>
-----------------------------------------------------------------------------
(* The ticker's flush. *)

Sooner(a, b) == a[2] < b[2] \/ (a[2] = b[2] /\ a[1] < b[1])
Closed(c) == {k \in Keys : k[2] < c /\ pending[k] # {}}

BeginFlush(now) ==
  /\ flush.pc = "idle"
  /\ cutoff' = IF now - 1 > cutoff THEN now - 1 ELSE cutoff
  /\ flush' = [NoFlush EXCEPT !.pc = "next", !.now = now, !.keys = SetToSortSeq(Closed(now - 1), Sooner)]
  /\ UNCHANGED <<minute, pending, stored, hours, accepted, written, troubles>>

\* Under the lock the values of the next batch are copied.
TakeBatch ==
  /\ flush.pc = "next" /\ flush.keys # <<>>
  /\ LET size == IF Len(flush.keys) < Batch THEN Len(flush.keys) ELSE Batch
         batch == SubSeq(flush.keys, 1, size)
     IN flush' = [flush EXCEPT !.pc = "write", !.keys = SubSeq(@, size + 1, Len(@)), !.batch = batch,
                               !.values = [j \in 1..size |-> pending[batch[j]]]]
  /\ UNCHANGED <<minute, cutoff, pending, stored, hours, accepted, written, troubles>>

Offered(k) == flush.values[CHOOSE j \in 1..Len(flush.batch) : flush.batch[j] = k]

Fresh(batch) == {k \in batch : stored[k] = {}}

Conflict == \E k \in ToSet(flush.batch) : stored[k] \notin {{}, Offered(k)}

SamplesOf(k, instants) == {<<k[1], k[2], i>> : i \in instants}

\* The rows of the batch, each new minute added to its hour.
Transaction ==
  LET new == Fresh(ToSet(flush.batch))
      Of(h) == {k \in new : <<k[1], HourOf(k[2])>> = h}
  IN /\ stored' = [k \in Keys |-> IF k \in new THEN Offered(k) ELSE stored[k]]
     /\ hours' = [h \in HourKeys |-> hours[h] + MapThenSumSet(LAMBDA k : Cardinality(Offered(k)), Of(h))]
     /\ written' = written \cup UNION {SamplesOf(k, Offered(k)) : k \in new}

Commit ==
  /\ flush.pc = "write" /\ ~Conflict
  /\ Transaction
  /\ flush' = [flush EXCEPT !.pc = "forget"]
  /\ UNCHANGED <<minute, cutoff, pending, accepted, troubles>>

\* It committed, and its caller's time was up: the flush fails, the batch stays.
AnswerLost ==
  /\ flush.pc = "write" /\ ~Conflict /\ troubles < MaxTroubles
  /\ Transaction
  /\ flush' = NoFlush
  /\ troubles' = troubles + 1
  /\ UNCHANGED <<minute, cutoff, pending, accepted>>

WriteFails ==
  /\ flush.pc = "write"
  /\ IF Conflict THEN UNCHANGED troubles ELSE troubles < MaxTroubles /\ troubles' = troubles + 1
  /\ flush' = NoFlush
  /\ UNCHANGED <<minute, cutoff, pending, stored, hours, accepted, written>>

Forget ==
  /\ flush.pc = "forget"
  /\ pending' = [k \in Keys |-> IF k \in ToSet(flush.batch) THEN {} ELSE pending[k]]
  /\ flush' = [flush EXCEPT !.pc = "next", !.batch = <<>>, !.values = <<>>]
  /\ UNCHANGED <<minute, cutoff, stored, hours, accepted, written, troubles>>

\* Once all is written, rows past their time go, in one transaction that takes
\* a bounded number of them and may fail.
Prune ==
  /\ flush.pc = "next" /\ flush.keys = <<>>
  /\ \E old \in SUBSET {k \in Keys : stored[k] # {} /\ k[2] + Retention < flush.now} :
       stored' = [k \in Keys |-> IF k \in old THEN {} ELSE stored[k]]
  /\ \E old \in SUBSET {h \in HourKeys : hours[h] # 0 /\ h[2] * Hour + HourRetention < flush.now} :
       hours' = [h \in HourKeys |-> IF h \in old THEN 0 ELSE hours[h]]
  /\ flush' = NoFlush
  /\ UNCHANGED <<minute, cutoff, pending, accepted, written, troubles>>

Restart ==
  /\ troubles < MaxTroubles
  /\ pending' = Empty
  /\ cutoff' = newProbeHistory(minute)
  /\ flush' = NoFlush
  /\ accepted' = accepted \cap written
  /\ troubles' = troubles + 1
  /\ UNCHANGED <<minute, stored, hours, written>>

HistoryNext ==
  \/ Clock
  \/ \E n \in Nodes, m \in 0..(MaxMinute + 1), i \in Instants : record(n, m, i)
  \/ \E now \in Recent : BeginFlush(now)
  \/ TakeBatch \/ Commit \/ AnswerLost \/ WriteFails \/ Forget \/ Prune \/ Restart

HistorySpec == HistoryInit /\ [][HistoryNext]_historyVars
-----------------------------------------------------------------------------
(* Properties. *)

\* A sample that was acknowledged is in memory or has been written, and an
\* hour counts each sample of its minutes once, whatever was offered twice.
SamplesCountedOnce ==
  /\ \A s \in accepted : s \in written \/ s[3] \in pending[<<s[1], s[2]>>]
  /\ \A h \in HourKeys : hours[h] # 0 =>
       hours[h] = Cardinality({s \in written : <<s[1], HourOf(s[2])>> = h})

\* No bucket in memory disagrees with its row: the flush would stop at it,
\* and with it the history of every node, for as long as the panel runs.
NeverConflicts == \A k \in Keys : pending[k] # {} /\ k[2] < cutoff => stored[k] \in {{}, pending[k]}
=============================================================================
