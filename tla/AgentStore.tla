----------------------------- MODULE AgentStore -----------------------------
(***************************************************************************)
(* Metering inside one Agent (internal/agent: state.go, credits.go,        *)
(* lease_set.go, durable_bounds.go).  Traffic is admitted against credit   *)
(* windows held in memory; a single writer reserves, settles and closes    *)
(* them with batches of events that are appended to the log, synced and    *)
(* only then applied.  The log itself is AgentWAL: here a crash keeps an   *)
(* arbitrary prefix of the batch that was being appended.                  *)
(*                                                                         *)
(* A window is named by its slot <<rule, direction, i>>: the code gives    *)
(* windows random identifiers and keeps at most two per rule and           *)
(* direction.  Time is a lease's age; identifiers, payloads and clocks of  *)
(* usage facts are abstracted to the number of facts and their bytes.      *)
(***************************************************************************)
EXTENDS Integers, Sequences, FiniteSets, FiniteSetsExt, SequencesExt

CONSTANTS Rules, Leases, Bytes,
          Dirs,            \* directions of traffic
          Windowed,        \* rules that use credit windows; the others charge each payload
          Adaptive,        \* TCP rules: windows may grow and idle windows are returned
          NoWindow,        \* an empty slot
          Sizes,           \* window sizes the adaptive target can ask for
          RuleCredits,     \* maxRuleCredits / maxTCPRuleCredits
          AccountCredits,  \* maxAccountCredits
          MaxPending,      \* MaxPendingRecords
          Payloads,        \* sizes of one read or datagram
          Configs,         \* rule -> sequence of leases, as the panel may publish them
          MaxCharges,      \* bound on a batch of unwindowed charges
          Ending,          \* leases whose end a behaviour may reach
          MaxCrashes       \* bound on the number of crashes

ASSUME StoreConstants ==
    /\ Bytes \in [Leases -> Nat \ {0}]
    /\ Windowed \subseteq Rules /\ Adaptive \subseteq Windowed
    /\ \A c \in Configs : \A r \in Rules : c[r] \in Seq(Leases) /\ Len(c[r]) <= 2

Slots == Rules \X Dirs \X {1, 2}
Keys  == Rules \X Dirs
Key(s) == <<s[1], s[2]>>

VARIABLES d,         \* the state the log stands for (diskState)
          live,      \* liveCredit.used of each window
          frozen,    \* windows closed to debits (liveCredit.closed)
          refills,   \* credit_reserve requests waiting in the writer's queue
          refilling, \* pools with a refill on its way
          job,       \* the reservation batch in the writer's hands
          staged,    \* the events being appended
          mode,      \* "up" | "closing" | "failed" | "down" | "corrupt"
          age,       \* "fresh" | "aging" | "lapsed" of each lease
          sent,      \* bytes admitted for forwarding
          crashes    \* how often the process has been killed

vars == <<d, live, frozen, refills, refilling, job, staged, mode, age, sent, crashes>>
memory == <<live, frozen, refills, refilling>>

Statuses == {"none", "stopped", "acked", "forgotten"}
Window == [lease : Leases, cap : Nat, conf : Nat]

\* The types of the durable state, the windows and the queue.
TypeOK ==
    /\ d.used \in [Leases -> Nat] /\ d.facts \in [Leases -> Nat] /\ d.pend \in [Leases -> Nat]
    /\ d.retired \in [Leases -> Statuses]
    /\ \A s \in Slots : d.win[s] = NoWindow \/ d.win[s] \in Window
    /\ d.config \in Configs
    /\ live \in [Slots -> Nat] /\ frozen \subseteq Slots /\ refilling \subseteq Keys
    /\ mode \in {"up", "closing", "failed", "down", "corrupt"}
    /\ age \in [Leases -> {"fresh", "aging", "lapsed"}] /\ sent \in [Leases -> Nat]

Empty == [r \in Rules |-> <<>>]
NoJob == [batch |-> <<>>, left |-> <<>>, last |-> FALSE]

Init ==
    /\ d = [used |-> [l \in Leases |-> 0], facts |-> [l \in Leases |-> 0],
            pend |-> [l \in Leases |-> 0], retired |-> [l \in Leases |-> "none"],
            win |-> [s \in Slots |-> NoWindow], config |-> Empty]
    /\ live = [s \in Slots |-> 0] /\ frozen = {}
    /\ refills = <<>> /\ refilling = {} /\ job = NoJob /\ staged = <<>>
    /\ mode = "up" /\ age = [l \in Leases |-> "fresh"] /\ sent = [l \in Leases |-> 0] /\ crashes = 0

-----------------------------------------------------------------------------
(* What the durable state says *)

Open(x) == {s \in Slots : x.win[s] # NoWindow}
OfLease(x, l) == {s \in Open(x) : x.win[s].lease = l}
OfRule(x, r) == {s \in Open(x) : s[1] = r}
OfKey(x, k) == {s \in Open(x) : Key(s) = k}

Left(x, S) == MapThenSumSet(LAMBDA s : x.win[s].cap - x.win[s].conf, S)

\* creditLiabilityLocked: budget that open windows may still turn into usage.
Liability(x, l) == Left(x, OfLease(x, l))

Stopped(x, l) == x.retired[l] \in {"stopped", "acked"}
Pending(x) == SumFunction(x.pend)
SpoolFull(x) == Pending(x) + Cardinality(Open(x)) >= MaxPending

\* availableLocked for one lease and n bytes.
Available(x, l, n) ==
    /\ age[l] # "lapsed" /\ ~Stopped(x, l)
    /\ n <= Bytes[l] - x.used[l] - Liability(x, l) /\ x.used[l] < Bytes[l]
    /\ ~SpoolFull(x)

-----------------------------------------------------------------------------
(* Events of the log *)

\* validateEvent, validateCreditEvent and the checks of applyEvent.  A progress
\* event carries the window it was computed from: the code compares sequence
\* numbers, which differ whenever the window does.
Valid(x, e) ==
    CASE e.kind = "reserve" ->
           /\ x.win[e.slot] = NoWindow /\ ~Stopped(x, e.win.lease)
           /\ e.win.cap <= RuleCredits - Left(x, OfRule(x, e.slot[1]))
           /\ e.win.cap <= AccountCredits - Left(x, Open(x))
           /\ e.win.cap <= Bytes[e.win.lease] - x.used[e.win.lease] - Liability(x, e.win.lease)
           /\ ~SpoolFull(x)
      [] e.kind = "progress" ->
           x.win[e.slot] = e.was /\ (e.conf > e.was.conf => Pending(x) < MaxPending)
      [] e.kind = "usage" ->
           /\ ~Stopped(x, e.lease) /\ ~SpoolFull(x)
           /\ e.n <= Bytes[e.lease] - x.used[e.lease] - Liability(x, e.lease)
      [] e.kind = "retire_ack" -> Stopped(x, e.lease) /\ x.pend[e.lease] = 0
      [] OTHER -> TRUE

Leasing(c) == UNION {ToSet(c[r]) : r \in Rules}

\* A usage fact of n bytes: counted against the lease and kept until acknowledged.
Record(x, l, n) ==
    IF n = 0 THEN x
    ELSE [x EXCEPT !.used[l] = @ + n, !.facts[l] = @ + n, !.pend[l] = @ + 1]

\* applyEvent and applyCreditEvent.
Apply(x, e) ==
    CASE e.kind = "reserve" -> [x EXCEPT !.win[e.slot] = e.win]
      [] e.kind = "progress" ->
           [Record(x, e.was.lease, e.conf - e.was.conf)
              EXCEPT !.win[e.slot] = IF e.close THEN NoWindow ELSE [e.was EXCEPT !.conf = e.conf]]
      [] e.kind = "usage" -> Record(x, e.lease, e.n)
      [] e.kind = "config" ->
           [x EXCEPT !.config = e.config,
                     !.retired = [l \in Leases |->
                        IF l \in Leasing(x.config) \ Leasing(e.config) /\ ~Stopped(x, l)
                        THEN "stopped" ELSE x.retired[l]]]
      [] e.kind = "ack" -> [x EXCEPT !.pend[e.lease] = @ - 1]
      [] e.kind = "retire" ->
           [x EXCEPT !.retired[e.lease] = IF Stopped(x, e.lease) THEN @ ELSE "stopped"]
      [] e.kind = "retire_ack" -> [x EXCEPT !.retired[e.lease] = "acked"]

ApplyAll(x, es) == FoldLeft(Apply, x, es)
AllValid(x, es) == \A i \in 1..Len(es) : Valid(ApplyAll(x, SubSeq(es, 1, i - 1)), es[i])

-----------------------------------------------------------------------------
(* Building batches *)

\* creditProgressLocked: windows in "closing" are closed and frozen, exhausted
\* and lapsed ones too; the others are settled while the spool has room.
Exhausted(x) == {s \in Open(x) : live[s] = x.win[s].cap \/ age[x.win[s].lease] = "lapsed"}

\* TCP windows that may have carried nothing for a second: they are given back.
IdleWindows(x) == {s \in Open(x) : s[1] \in Adaptive}

ProgressEvent(x, s, close) ==
    [kind |-> "progress", slot |-> s, was |-> x.win[s], conf |-> live[s], close |-> close]

\* Mutation: settling leaves no room for the facts that closing windows will write.
SettlingFull(x, S) ==
    LET moved == {s \in S : live[s] # x.win[s].conf}
        room == MaxPending - Pending(x)
    IN  {T \in SUBSET moved : Cardinality(T) = Min({Cardinality(moved), Max({room, 0})})}

\* The windows of S that have moved, at most as many as the spool has room for.
Settling(x, S) ==
    LET moved == {s \in S : live[s] # x.win[s].conf}
        room == MaxPending - Pending(x) - Cardinality(Open(x))
    IN  {T \in SUBSET moved : Cardinality(T) = Min({Cardinality(moved), Max({room, 0})})}

\* The event batches creditProgressLocked can return, and the windows it closes.
ProgressBatches(x, closing) ==
  UNION {
    LET C == closing \cup idle \cup Exhausted(x)
    IN  {[events |-> [i \in DOMAIN q |-> ProgressEvent(x, q[i], q[i] \in C)], closed |-> C] :
            q \in UNION {SetToSeqs(C \cup T) : T \in Settling(x, Open(x) \ C)}}
    : idle \in SUBSET IdleWindows(x)}

\* Bytes reserved on lease l by the reservations already in a batch.
StagedOn(es, l) ==
    LET I == {i \in 1..Len(es) : es[i].kind = "reserve" /\ es[i].win.lease = l}
    IN  MapThenSumSet(LAMBDA i : es[i].win.cap, I)

\* The lease a reservation is made on: the first of the rule's leases that can
\* fund the payload, otherwise the primary.
Funding(x, es, r, n) ==
    LET ls == x.config[r]
        ok == {i \in 1..Len(ls) : Available(x, ls[i], StagedOn(es, ls[i]) + Max({1, n}))}
    IN  IF ok = {} THEN ls[1] ELSE ls[Min(ok)]

\* The size of a new window: progress staged before it already returned rule and
\* account credit, spent lease budget stays covered by the old liability.
Capacity(x, es, l, q) ==
    LET y == ApplyAll(x, es)
        half == (Bytes[l] - x.used[l] + IF q.key[2] = "up" THEN 1 ELSE 0) \div 2
        mine == Left(y, OfKey(y, q.key) \cap OfLease(y, l))
    IN  Min({q.size, Max({q.n, (Bytes[l] - 1) \div 4 + 1}),
             RuleCredits - Left(y, OfRule(y, q.key[1])),
             AccountCredits - Left(y, Open(y)),
             Bytes[l] - x.used[l] - Liability(x, l) - StagedOn(es, l)}
            \cup IF q.prime THEN {half - mine} ELSE {})

\* reserveCreditLocked: the batch with the reservation for request q, or the
\* batch as it was when the request is refused or needs nothing.
Reserve(x, es, q) ==
    LET r == q.key[1]
        y == ApplyAll(x, es)
        l == Funding(x, es, r, q.n)
        free == {s \in Slots : Key(s) = q.key /\ y.win[s] = NoWindow}
        cap == Capacity(x, es, l, q)
    IN  IF \/ x.config[r] = <<>>
           \/ ~Available(x, l, 0)
           \/ Pending(x) + Cardinality(Open(x)) + Len(es) >= MaxPending
           \/ free = {}
           \/ cap <= 0 \/ cap < q.n
        THEN es
        ELSE Append(es, [kind |-> "reserve",
                         slot |-> CHOOSE s \in free : \A t \in free : s[3] <= t[3],
                         win |-> [lease |-> l, cap |-> cap, conf |-> 0]])

-----------------------------------------------------------------------------
(* Admission: TryCreditCharge, which never waits for the writer *)

Room(s) == d.win[s].cap - live[s]

Eligible(k) ==
    {s \in OfKey(d, k) \ frozen : d.win[s].lease \in ToSet(d.config[k[1]])
                                  /\ age[d.win[s].lease] # "lapsed"}

\* The ways a debit of n bytes can run through the windows of a pool.
Debits(E, n) ==
    {f \in [E -> 0..n] : /\ SumFunction(f) = n /\ \A s \in E : f[s] <= Room(s)
                         /\ \E s \in E : f[s] = Min({n, Room(s)})}

\* A refill is asked for when fewer than two windows can be spent and the pool
\* is below its target; a full queue drops the request.
AskRefill(k, n, admitted, spendable, remaining, target) ==
    IF (~admitted \/ spendable < 2) /\ remaining < target /\ k \notin refilling
    THEN \/ /\ refilling' = refilling \cup {k}
            /\ refills' = Append(refills, [key |-> k, n |-> n, size |-> target, prime |-> FALSE])
         \/ UNCHANGED <<refills, refilling>>
    ELSE UNCHANGED <<refills, refilling>>

Target(k) == IF k[1] \in Adaptive THEN Sizes ELSE {Min(Sizes)}

\* The payload is admitted: it is debited before it is forwarded.
TryCreditCharge(k, n) ==
    /\ mode = "up" /\ k[1] \in Windowed /\ d.config[k[1]] # <<>>
    /\ LET E == Eligible(k)
           total == MapThenSumSet(Room, E)
       IN  /\ E # {} /\ n <= total
           /\ \E f \in Debits(E, n), target \in Target(k) :
                /\ live' = [s \in Slots |-> IF s \in E THEN live[s] + f[s] ELSE live[s]]
                /\ sent' = [l \in Leases |-> sent[l] +
                              SumFunctionOnSet(f, {s \in E : d.win[s].lease = l})]
                /\ AskRefill(k, n, TRUE, Cardinality({s \in E : f[s] < Room(s)}), total - n, target)
    /\ UNCHANGED <<d, frozen, job, staged, mode, age, crashes>>

\* The payload is refused: TCP will wait for a refill, UDP drops it.
RefuseCreditCharge(k, n) ==
    /\ mode = "up" /\ k[1] \in Windowed /\ d.config[k[1]] # <<>>
    /\ LET E == Eligible(k)
           total == MapThenSumSet(Room, E)
       IN  /\ E = {} \/ n > total
           /\ \E target \in Target(k) : AskRefill(k, n, FALSE, 0, total, target)
    /\ UNCHANGED <<d, live, frozen, job, staged, mode, age, sent, crashes>>

\* PrimeUDPCredits: a configuration asks for the first windows of a UDP rule
\* (bounded: at most one such request of a pool waits).
PrimeUDPCredits(k) ==
    /\ mode = "up" /\ k[1] \in Windowed \ Adaptive /\ d.config[k[1]] # <<>>
    /\ \A i \in DOMAIN refills : refills[i].key # k
    /\ refills' = Append(refills, [key |-> k, n |-> 0, size |-> Min(Sizes), prime |-> TRUE])
    /\ UNCHANGED <<d, live, frozen, refilling, job, staged, mode, age, sent, crashes>>

-----------------------------------------------------------------------------
(* The writer *)

Running == mode \in {"up", "closing"}
WriterIdle == Running /\ job = NoJob /\ staged = <<>>

\* Mutation: closing a window does not stop debits against it.
StageUnfrozen(events, closed) ==
    /\ staged' = events
    /\ UNCHANGED frozen

\* Hands a batch to the log; windows it closes take no more debits.
Stage(events, closed) ==
    /\ staged' = events
    /\ frozen' = frozen \cup closed

\* A batch of queued reservations: what has arrived when the writer looks.
TakeRefills ==
    /\ WriterIdle /\ refills # <<>>
    /\ \E m \in 1..Len(refills) :
         /\ job' = [batch |-> SubSeq(refills, 1, m), left |-> SubSeq(refills, 1, m), last |-> FALSE]
         /\ refills' = SubSeq(refills, m + 1, Len(refills))
    /\ UNCHANGED <<d, live, frozen, refilling, staged, mode, age, sent, crashes>>

\* rebalanceCreditsLocked: must the rule's windows be closed so that the pool
\* can be given what the payload needs?
MustRebalance(q) ==
    LET r == q.key[1]
        pool == OfKey(d, q.key)
        budget == /\ Cardinality(pool) < 2
                  /\ q.n <= RuleCredits - Left(d, OfRule(d, r))
                  /\ q.n <= AccountCredits - Left(d, Open(d))
                  /\ \E l \in ToSet(d.config[r]) : Available(d, l, q.n)
    IN  /\ q.n > 0 /\ OfRule(d, r) # {}
        /\ MapThenSumSet(Room, pool \ frozen) < q.n
        /\ MapThenSumSet(Room, OfRule(d, r) \ frozen) # 0
        /\ ~budget

Rebalance ==
    /\ Running /\ staged = <<>> /\ job.left # <<>>
    /\ job' = [job EXCEPT !.left = Tail(@)]
    /\ IF MustRebalance(Head(job.left))
       THEN \E b \in ProgressBatches(d, OfRule(d, Head(job.left).key[1])) : Stage(b.events, b.closed)
       ELSE UNCHANGED <<staged, frozen>>
    /\ UNCHANGED <<d, live, refills, refilling, mode, age, sent, crashes>>

Answered(batch) == refilling' = refilling \ {batch[i].key : i \in DOMAIN batch}

\* processCreditBatchLocked: progress first, then the reservations, one append.
StageRefills ==
    /\ Running /\ staged = <<>> /\ job.batch # <<>> /\ job.left = <<>>
    /\ \E b \in ProgressBatches(d, {}) :
         LET events == FoldLeft(LAMBDA es, q : Reserve(d, es, q), b.events, job.batch)
         IN  /\ Stage(events, b.closed)
             /\ IF events = <<>> THEN Answered(job.batch) ELSE UNCHANGED refilling
    /\ job' = IF staged' = <<>> THEN NoJob ELSE [job EXCEPT !.last = TRUE]
    /\ UNCHANGED <<d, live, refills, mode, age, sent, crashes>>

\* credit_flush: the ticker or syncUsage.  credit_close: Close, once the queue
\* is drained.
Flush ==
    /\ WriterIdle
    /\ \E b \in ProgressBatches(d, {}) :
         b.events # <<>> /\ Stage(b.events, b.closed)
    /\ UNCHANGED <<d, live, refills, refilling, job, mode, age, sent, crashes>>

SettleAll ==
    /\ WriterIdle /\ mode = "closing" /\ refills = <<>> /\ Open(d) # {}
    /\ \E b \in ProgressBatches(d, Open(d)) : Stage(b.events, b.closed)
    /\ UNCHANGED <<d, live, refills, refilling, job, mode, age, sent, crashes>>

\* SetConfig: windows of leases that the new configuration does not carry on
\* for the same forwarding rule are closed in the same append.
SetConfig(c, changed) ==
    /\ WriterIdle /\ mode = "up"
    /\ \A l \in Leasing(c) : d.retired[l] # "forgotten"
    /\ LET kept == UNION {ToSet(c[r]) : r \in {q \in Windowed \ changed : d.config[q] # <<>>}}
           gone == {s \in Open(d) : d.win[s].lease \notin kept}
       IN  \E b \in ProgressBatches(d, gone) :
              Stage(Append(b.events, [kind |-> "config", config |-> c]), b.closed)
    /\ UNCHANGED <<d, live, refills, refilling, job, mode, age, sent, crashes>>

\* renewalDueLocked: the primary is nearly spent, its standby is being spent,
\* or it is about to expire.
Spent(l) == d.used[l] + MapThenSumSet(LAMBDA s : live[s] - d.win[s].conf, OfLease(d, l))

RenewalDue(r) ==
    LET ls == d.config[r]
        left == Bytes[ls[1]] - Spent(ls[1])
    IN  /\ ls # <<>> /\ ~Stopped(d, ls[1])
        /\ \/ age[ls[1]] # "fresh"
           \/ Spent(ls[1]) > 0 /\ left <= Bytes[ls[1]] \div 8
           \/ Len(ls) = 2 /\ Spent(ls[2]) > 0

\* retireRenewal: close the lease's windows and stop it, in one append.
RetireRenewal(r) ==
    /\ WriterIdle /\ mode = "up" /\ RenewalDue(r)
    /\ LET l == d.config[r][1]
       IN  \E b \in ProgressBatches(d, OfLease(d, l)) :
              Stage(Append(b.events, [kind |-> "retire", lease |-> l]), b.closed)
    /\ UNCHANGED <<d, live, refills, refilling, job, mode, age, sent, crashes>>

\* Confirm: the panel acknowledged one of the lease's facts.
Confirm(l) ==
    /\ WriterIdle /\ mode = "up" /\ d.pend[l] > 0
    /\ Stage(<<[kind |-> "ack", lease |-> l]>>, {})
    /\ UNCHANGED <<d, live, refills, refilling, job, mode, age, sent, crashes>>

\* ConfirmRetired: the panel accepted the retirement.
ConfirmRetired(l) ==
    /\ WriterIdle /\ mode = "up" /\ d.retired[l] = "stopped"
    /\ Valid(d, [kind |-> "retire_ack", lease |-> l])
    /\ Stage(<<[kind |-> "retire_ack", lease |-> l]>>, {})
    /\ UNCHANGED <<d, live, refills, refilling, job, mode, age, sent, crashes>>

\* pruneLeaseHistoryLocked and its checkpoint.
Prune(l) ==
    /\ WriterIdle /\ d.retired[l] = "acked" /\ age[l] = "lapsed"
    /\ l \notin Leasing(d.config) /\ d.pend[l] = 0 /\ OfLease(d, l) = {}
    /\ d' = [d EXCEPT !.used[l] = 0, !.retired[l] = "forgotten"]
    /\ UNCHANGED <<memory, job, staged, mode, age, sent, crashes>>

-----------------------------------------------------------------------------
(* Charges of rules without credit windows: the "charge" branch of process *)

\* The lease a charge is made on (spendingRuleLocked).
Spending(r, n) ==
    LET ls == d.config[r]
        ok == {i \in 1..Len(ls) : Available(d, ls[i], n)}
    IN  IF ok = {} THEN ls[1] ELSE ls[Min(ok)]

\* One request of the batch.  A lease that cannot pay is stopped on the spot;
\* its windows are closed first.
ChargeOne(b, q) ==
    LET l == Spending(q.rule, q.n)
        reserved == MapThenSumSet(LAMBDA i : b.events[i].n,
                        {i \in 1..Len(b.events) : b.events[i].kind = "usage" /\ b.events[i].lease = l})
        short == q.n > Bytes[l] - d.used[l] - Liability(d, l) - reserved
    IN  IF ~Available(d, l, 0) \/ q.n > Bytes[l] \/ l \in b.retiring THEN {b}
        ELSE IF short
        THEN {[b EXCEPT !.events = @ \o g.events \o <<[kind |-> "retire", lease |-> l]>>,
                        !.closed = @ \cup g.closed, !.retiring = @ \cup {l}] :
                 g \in ProgressBatches(d, OfLease(d, l))}
        ELSE IF b.pend + Cardinality(Open(d)) >= MaxPending THEN {b}
        ELSE {[b EXCEPT !.events = Append(@, [kind |-> "usage", lease |-> l, n |-> q.n]),
                        !.pend = @ + 1]}

NoCharges == [events |-> <<>>, closed |-> {}, retiring |-> {}, pend |-> Pending(d)]

Charge(batch) ==
    /\ WriterIdle /\ mode = "up"
    /\ \A i \in DOMAIN batch : d.config[batch[i].rule] # <<>>
    /\ \E b \in FoldLeft(LAMBDA B, q : UNION {ChargeOne(b, q) : b \in B}, {NoCharges}, batch) :
         b.events # <<>> /\ Stage(b.events, b.closed)
    /\ UNCHANGED <<d, live, refills, refilling, job, mode, age, sent, crashes>>

-----------------------------------------------------------------------------
(* The end of an append, failures and restarts *)

\* The windows an applied batch opened or closed.
Touched(es) == {es[i].slot : i \in {j \in DOMAIN es :
                   es[j].kind = "reserve" \/ (es[j].kind = "progress" /\ es[j].close)}}

\* Payloads whose charge the batch made durable are forwarded now.
Paid(es, l) ==
    LET I == {i \in DOMAIN es : es[i].kind = "usage" /\ es[i].lease = l}
    IN  MapThenSumSet(LAMBDA i : es[i].n, I)

\* Every event is applied, then credit is published.
Applied ==
    /\ d' = ApplyAll(d, staged)
    /\ live' = [s \in Slots |-> IF s \in Touched(staged) THEN 0 ELSE live[s]]
    /\ frozen' = frozen \ Touched(staged)
    /\ sent' = [l \in Leases |-> sent[l] + Paid(staged, l)]
    /\ staged' = <<>>
    /\ IF job.last THEN job' = NoJob /\ Answered(job.batch) ELSE UNCHANGED <<job, refilling>>
    /\ UNCHANGED <<refills, mode, age, crashes>>

\* An event of the synced batch is rejected when it is applied, now and at every
\* replay: the log cannot be used again.
Rejected ==
    /\ mode' = "corrupt"
    /\ UNCHANGED <<d, memory, job, staged, age, sent, crashes>>

\* The sync succeeded.
Commit ==
    /\ Running /\ staged # <<>>
    /\ IF AllValid(d, staged) THEN Applied ELSE Rejected

\* A write or sync failed: the store refuses everything until a restart.
IOError ==
    /\ Running /\ staged # <<>>
    /\ mode' = "failed"
    /\ UNCHANGED <<d, memory, job, staged, age, sent, crashes>>

\* Kill or power failure: any prefix of the batch being appended survives.
Crash ==
    /\ mode \in {"up", "closing", "failed"} /\ crashes < MaxCrashes
    /\ \E n \in 0..Len(staged) :
         /\ AllValid(d, SubSeq(staged, 1, n))
         /\ d' = ApplyAll(d, SubSeq(staged, 1, n))
    /\ mode' = "down" /\ staged' = <<>> /\ job' = NoJob /\ refills' = <<>> /\ refilling' = {}
    /\ live' = [s \in Slots |-> 0] /\ frozen' = {} /\ crashes' = crashes + 1
    /\ UNCHANGED <<age, sent>>

\* Close stops admission and submissions; what is queued is still processed.
Close ==
    /\ mode = "up" /\ mode' = "closing"
    /\ UNCHANGED <<d, memory, job, staged, age, sent, crashes>>

Closed ==
    /\ WriterIdle /\ mode = "closing" /\ refills = <<>> /\ Open(d) = {}
    /\ mode' = "down"
    /\ UNCHANGED <<d, memory, job, staged, age, sent, crashes>>

\* Mutation: recovery bills what was confirmed, not what may have been sent.
RecoverConfirmed(s) ==
    /\ mode = "down" /\ d.win[s] # NoWindow
    /\ d' = Apply(d, [kind |-> "progress", slot |-> s, was |-> d.win[s],
                      conf |-> d.win[s].conf, close |-> TRUE])
    /\ UNCHANGED <<memory, job, staged, mode, age, sent, crashes>>

\* recoverCredits: nothing is known of the debits of a window, so the whole of
\* it is billed; each window is a commit of its own.
Recover(s) ==
    /\ mode = "down" /\ d.win[s] # NoWindow
    /\ d' = Apply(d, [kind |-> "progress", slot |-> s, was |-> d.win[s],
                      conf |-> d.win[s].cap, close |-> TRUE])
    /\ UNCHANGED <<memory, job, staged, mode, age, sent, crashes>>

Opened ==
    /\ mode = "down" /\ Open(d) = {}
    /\ mode' = "up"
    /\ UNCHANGED <<d, memory, job, staged, age, sent, crashes>>

\* Time passes: a lease comes within 15 seconds of its end, then expires.
Age(l) ==
    /\ l \in Ending /\ age[l] # "lapsed"
    /\ age' = [age EXCEPT ![l] = IF @ = "fresh" THEN "aging" ELSE "lapsed"]
    /\ UNCHANGED <<d, memory, job, staged, mode, sent, crashes>>

-----------------------------------------------------------------------------
Next ==
    \/ \E k \in Keys, n \in Payloads : TryCreditCharge(k, n) \/ RefuseCreditCharge(k, n)
    \/ \E k \in Keys : PrimeUDPCredits(k)
    \/ TakeRefills \/ Rebalance \/ StageRefills \/ Flush \/ SettleAll
    \/ \E c \in Configs, changed \in SUBSET Rules : SetConfig(c, changed)
    \/ \E r \in Rules : RetireRenewal(r)
    \/ \E l \in Leases : Confirm(l) \/ ConfirmRetired(l) \/ Prune(l) \/ Age(l)
    \/ \E m \in 1..MaxCharges : \E batch \in [1..m -> [rule : Rules \ Windowed, n : Payloads]] :
          Charge(batch)
    \/ Commit \/ IOError \/ Crash \/ Close \/ Closed
    \/ \E s \in Slots : Recover(s)
    \/ Opened

Spec == Init /\ [][Next]_vars

-----------------------------------------------------------------------------
(* Properties *)

\* The contract every Agent keeps for every lease: see LeaseMeter.
Meter == INSTANCE LeaseMeter
         WITH billed <- d.facts, held <- [l \in Leases |-> Liability(d, l)],
              stopped <- [l \in Leases |-> d.retired[l] # "none"],
              MaxBytes <- Max({Bytes[l] : l \in Leases})

\* Windows, batches, crashes and recovery implement the metering contract:
\* bytes are only sent against budget already on disk, facts never shrink and
\* cover everything sent, and a stopped lease is neither spent nor billed again.
MeteringContract == Meter!Spec

\* The writer never appends an event that its own checks reject on replay.
LogStaysReplayable == mode # "corrupt"

\* Facts and debits not yet settled, beyond what was forwarded.
Surplus == MapThenSumSet(LAMBDA l : d.facts[l] - sent[l], Leases)
           + MapThenSumSet(LAMBDA s : live[s] - d.win[s].conf, Open(d))

\* Settling, rebalancing, idling and closing windows neither lose nor invent a
\* byte, and a crash bills at most the credit the account had in windows.
BilledExactly ==
    mode \in {"up", "closing"} =>
        Surplus \in 0..(crashes * (AccountCredits + MaxCharges * Max(Payloads)))

\* Facts and windows together never outgrow the spool, so every open window has
\* a place for the fact that recovery may have to write.
SpoolBounded == Pending(d) + Cardinality(Open(d)) <= MaxPending

=============================================================================
