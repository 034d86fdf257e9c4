------------------------------ MODULE Metering ------------------------------
(***************************************************************************)
(* An Agent and the panel metering one rule over HTTP: internal/agent      *)
(* client.go (syncConfig, syncUsage, syncPrefetch, flush, retire,          *)
(* applyLeaseConfig) against the handlers of PanelLeases.  Each of the     *)
(* Agent's three workers has one request in the air; it may give up on it  *)
(* at any moment, and the panel may still handle it later, after newer     *)
(* requests, or never.  A handler is several transactions with other       *)
(* requests in between.  The Agent's store is what AgentStore promises: a  *)
(* fact is durable before it counts, and a stopped lease gets no more.     *)
(***************************************************************************)
EXTENDS PanelLeases

CONSTANTS MaxLate,     \* bound: abandoned requests the panel may still see
          MaxVersion,  \* bound on configuration versions
          BatchSize,   \* facts in one usage request (500)
          Workers,     \* the workers that run, of "usage", "config" and "prefetch"
          Ending,      \* leases whose end a behaviour may reach
          Idle         \* a worker that waits for nothing

VARIABLES db,      \* the panel's database
          lapsed,  \* leases whose end has passed
          ag,      \* the Agent's durable store
          call,    \* the request each worker waits for
          late     \* abandoned requests still under way

vars == <<db, lapsed, ag, call, late>>

Init ==
    /\ db = NewPanel /\ lapsed = {}
    /\ ag = [version |-> 0, prim |-> None, stby |-> None, made |-> [l \in Ids |-> 0],
             pend |-> {}, stop |-> [l \in Ids |-> "none"]]
    /\ call = [w \in Workers |-> Idle] /\ late = {}

-----------------------------------------------------------------------------
(* The Agent's store *)

Config == {ag.prim, ag.stby} \ {None}

\* One byte is forwarded against a lease of the configuration.
Use(l) ==
    /\ l \in Config \ lapsed /\ ag.stop[l] = "none" /\ ag.made[l] < db.lease[l].bytes
    /\ ag' = [ag EXCEPT !.made[l] = @ + 1, !.pend = @ \cup {<<l, ag.made[l] + 1>>}]
    /\ UNCHANGED <<db, lapsed, call, late>>

\* retireRenewal: the primary is nearly spent, overtaken or about to expire.
StopPrimary ==
    /\ ag.prim # None /\ ag.stop[ag.prim] = "none"
    /\ \/ ag.prim \in lapsed
       \/ ag.made[ag.prim] > 0
    /\ ag' = [ag EXCEPT !.stop[ag.prim] = "stopped"]
    /\ UNCHANGED <<db, lapsed, call, late>>

\* Runtime.Apply and SetConfig: leases the new configuration drops are stopped.
\* An older configuration and one whose leases are all over change nothing.
Applied(a, c) ==
    IF \/ c.version < a.version
       \/ c.prim # None /\ {c.prim, c.stby} \subseteq lapsed \cup {None}
    THEN a
    ELSE [a EXCEPT !.version = c.version, !.prim = c.prim, !.stby = c.stby,
                   !.stop = [l \in Ids |->
                      IF l \in ({a.prim, a.stby} \ {c.prim, c.stby, None}) /\ @[l] = "none"
                      THEN "stopped" ELSE @[l]]]

-----------------------------------------------------------------------------
(* The Agent's workers *)

\* stage: what the panel still has to do for it; ok and cfg: its answer.
NoConfig == [version |-> 0, prim |-> None, stby |-> None]
Request(body) == [body |-> body, hint |-> NoHint, stage |-> "sent", ok |-> FALSE, cfg |-> NoConfig]

Send(w, body) == w \in Workers /\ call[w] = Idle /\ call' = [call EXCEPT ![w] = Request(body)]

\* flush: the oldest pending facts.
SendUsage ==
    /\ ag.pend # {}
    /\ \E batch \in SUBSET ag.pend :
         /\ Cardinality(batch) = Min({BatchSize, Cardinality(ag.pend)})
         /\ \A f \in batch : \A g \in ag.pend \ batch : f[1] = g[1] => f[2] < g[2]
         /\ Send("usage", [type |-> "usage", batch |-> batch])
    /\ UNCHANGED <<db, lapsed, ag, late>>

\* Mutation: a lease is given back while facts of it are still unreported.
SendRetireEarly(l) ==
    /\ ag.stop[l] = "stopped"
    /\ Send("usage", [type |-> "retire", lease |-> l, used |-> ag.made[l] - Cardinality(Of(ag.pend, l))])
    /\ UNCHANGED <<db, lapsed, ag, late>>

\* retire: a stopped lease with every fact confirmed is given back.
SendRetire(l) ==
    /\ ag.stop[l] = "stopped" /\ Of(ag.pend, l) = {}
    /\ Send("usage", [type |-> "retire", lease |-> l, used |-> ag.made[l]])
    /\ UNCHANGED <<db, lapsed, ag, late>>

\* syncConfig.
SendConfig ==
    /\ Send("config", [type |-> "config"])
    /\ UNCHANGED <<db, lapsed, ag, late>>

\* syncPrefetch: the primary is being spent and there is no standby yet.
SendPrefetch ==
    /\ ag.prim # None /\ ag.stby = None /\ ag.stop[ag.prim] = "none" /\ ag.made[ag.prim] > 0
    /\ Send("prefetch", [type |-> "prefetch", lease |-> ag.prim])
    /\ UNCHANGED <<db, lapsed, ag, late>>

\* The answer arrives.  applyLeaseConfig ignores a configuration that is not
\* newer; syncConfig applies one of the same version again.
Receive(w) ==
    /\ call[w] # Idle /\ call[w].stage = "done"
    /\ LET c == call[w]
           a == IF ~c.ok THEN ag
                ELSE IF c.body.type = "usage" THEN [ag EXCEPT !.pend = @ \ c.body.batch]
                ELSE IF c.body.type = "retire" THEN [ag EXCEPT !.stop[c.body.lease] = "acked"]
                ELSE ag
       IN  ag' = IF c.cfg # NoConfig THEN Applied(a, c.cfg) ELSE a
    /\ call' = [call EXCEPT ![w] = Idle]
    /\ UNCHANGED <<db, lapsed, late>>

\* A timeout, a broken connection or a restart of the Agent.
GiveUp(w) ==
    /\ call[w] # Idle
    /\ call' = [call EXCEPT ![w] = Idle]
    /\ \/ UNCHANGED late
       \/ /\ call[w].stage # "done" /\ Cardinality(late) < MaxLate
          /\ late' = late \cup {call[w]}
    /\ UNCHANGED <<db, lapsed, ag>>

-----------------------------------------------------------------------------
(* The panel's handlers: the transaction that "stage" names, then the next *)

Refuse(c) == [db |-> db, call |-> [c EXCEPT !.stage = "done"]]

HintOf(c) ==
    IF db.prim = c.body.lease /\ c.body.lease \notin db.retired /\ c.body.used > 0
    THEN [retired |-> c.body.lease, successor |-> db.stby, ask |-> Ask] ELSE NoHint

\* First transaction of each handler.
Handle(c) ==
    LET b == c.body
        next == [c EXCEPT !.stage = "refresh", !.ok = TRUE]
    IN  CASE b.type = "usage" ->
               IF UsageOK(db, b.batch)
               THEN [db |-> Persist(db, b.batch), call |-> [c EXCEPT !.stage = "done", !.ok = TRUE]]
               ELSE Refuse(c)
          [] b.type = "retire" ->
               IF RetireOK(db, b.lease, b.used)
               THEN [db |-> Retire(db, b.lease), call |-> [next EXCEPT !.hint = HintOf(c)]]
               ELSE Refuse(c)
          [] b.type = "prefetch" ->
               IF PrefetchOK(db, b.lease, lapsed)
               THEN [db |-> Prefetch(db, Ask), call |-> next]
               ELSE Refuse(c)
          [] b.type = "config" ->
               [db |-> Refresh(db, lapsed, NoHint), call |-> [next EXCEPT !.stage = "snapshot"]]

Advance(c) ==
    CASE c.stage = "sent" -> Handle(c)
      [] c.stage = "refresh" ->
           [db |-> Refresh(db, lapsed, c.hint), call |-> [c EXCEPT !.stage = "snapshot"]]
      [] c.stage = "snapshot" ->
           [db |-> db, call |-> [c EXCEPT !.stage = "done", !.cfg = Snapshot(db, lapsed)]]

\* A transaction for a request its worker still waits for.
Serve(w) ==
    /\ call[w] # Idle /\ call[w].stage # "done"
    /\ db' = Advance(call[w]).db
    /\ call' = [call EXCEPT ![w] = Advance(call[w]).call]
    /\ UNCHANGED <<lapsed, ag, late>>

\* A transaction for an abandoned request; it may also come to nothing.
ServeLate(c) ==
    /\ db' = Advance(c).db
    /\ late' = (late \ {c}) \cup (IF Advance(c).call.stage = "done" THEN {} ELSE {Advance(c).call})
    /\ UNCHANGED <<lapsed, ag, call>>

Vanish(c) ==
    /\ late' = late \ {c}
    /\ UNCHANGED <<db, lapsed, ag, call>>

-----------------------------------------------------------------------------
(* The world *)

\* A lease's five minutes pass.
Lapse(l) ==
    /\ l \in Ending \ lapsed
    /\ lapsed' = lapsed \cup {l}
    /\ UNCHANGED <<db, ag, call, late>>

\* The owner buys again: leases of the old entitlement are no longer current.
SecondPurchase ==
    /\ db.ent + 1 \in Ents
    /\ db' = [db EXCEPT !.ent = @ + 1]
    /\ UNCHANGED <<lapsed, ag, call, late>>

\* The rule is switched off or on; the plan's limit leaves it out or lets it in.
Toggle ==
    /\ db.version < MaxVersion
    /\ \/ db' = [db EXCEPT !.enabled = ~@, !.version = @ + 1]
       \/ db' = [db EXCEPT !.allowed = ~@, !.version = @ + 1]
    /\ UNCHANGED <<lapsed, ag, call, late>>

Next ==
    \/ \E l \in Issued(db) : Use(l) \/ SendRetire(l) \/ Lapse(l)
    \/ StopPrimary \/ SendUsage \/ SendConfig \/ SendPrefetch \/ SecondPurchase \/ Toggle
    \/ \E w \in Workers : Serve(w) \/ Receive(w) \/ GiveUp(w)
    \/ \E c \in late : ServeLate(c) \/ Vanish(c)

Spec == Init /\ [][Next]_vars

\* runSync repeats every worker for ever, the panel handles what it gets, and
\* from some moment on no request or answer is lost.
Fairness ==
    /\ WF_vars(SendUsage \/ \E l \in Issued(db) : SendRetire(l)) /\ WF_vars(SendConfig)
    /\ \A w \in Workers : WF_vars(Serve(w)) /\ WF_vars(Receive(w))
    /\ <>[][\A w \in Workers : GiveUp(w) => Receive(w)]_vars

FairSpec == Spec /\ Fairness

-----------------------------------------------------------------------------
(* Properties *)

\* persistUsageBatch never refuses a fact the Agent still has to report, so no
\* record can block the batches behind it: its lease is open or it is a copy.
NoFactRefused == UsageOK(db, ag.pend)

\* A fact counts once however often it is sent: what a lease was charged is the
\* number of its facts, and a fact the Agent forgot is one the panel has.
SettledOnce ==
    \A l \in Issued(db) :
        /\ db.lease[l].used = Cardinality(Of(db.usage, l))
        /\ db.lease[l].used <= ag.made[l] /\ db.lease[l].used <= db.lease[l].bytes
        /\ {<<l, k>> : k \in 1..ag.made[l]} \subseteq db.usage \cup ag.pend

\* RetireLease gives budget back only when nothing of it can be used any more:
\* the Agent stopped the lease and the panel has all of its facts.
RefundFinal ==
    \A l \in db.retired : ag.stop[l] # "none" /\ db.lease[l].used = ag.made[l]

\* A fact counts once however often it is sent, and a lease gives budget back only
\* when nothing of it can be used any more (persistUsageBatch, RetireLease).
SettledExactly == SettledOnce /\ RefundFinal

\* An entitlement's allocated column is what its open leases may use and its
\* closed ones did use; a finite quota is never exceeded.
AllocationExact ==
    \A e \in Ents :
        /\ db.alloc[e] = MapThenSumSet(LAMBDA l : IF l \in db.retired THEN db.lease[l].used
                                                  ELSE db.lease[l].bytes,
                                       {l \in Issued(db) : db.lease[l].ent = e})
        /\ Quota[e] # 0 => db.alloc[e] <= Quota[e]

\* A lease the Agent stopped is settled and given back in the end, whatever was
\* lost, refused or handled late on the way.
GivenBack == \A l \in Ids : ag.stop[l] = "stopped" ~> ag.stop[l] = "acked"

\* The rule can spend again and again, unless it is off or nothing is left to
\* allocate: a stopped, lapsed or outdated lease is replaced in the end.
Replaced ==
    []<>(\/ ~db.enabled \/ ~db.allowed \/ Budget(db, Ask) = 0
         \/ \E l \in Config \ lapsed : ag.stop[l] = "none")

\* "Each lease remains bounded and reclaimable" (AllocateBudgetWithMultiplier):
\* an open lease is the rule's, the Agent's, or on its way to the Agent.
Reclaimable ==
    \A l \in OpenLeases(db) :
        \/ l \in {db.prim, db.stby} \/ l \in Config \/ ag.stop[l] # "none"
        \/ \E w \in Workers : call[w] # Idle /\ l \in {call[w].cfg.prim, call[w].cfg.stby}

=============================================================================
