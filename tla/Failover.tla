------------------------------ MODULE Failover ------------------------------
(***************************************************************************)
(* How an Agent picks one of a rule's candidates for a new connection, and  *)
(* takes a failing one out for a while (internal/agent/failover.go). The    *)
(* states of the candidates belong to the listener; connections dial at the *)
(* same time, outside its mutex, and Runtime.Apply may replace the states   *)
(* and cancel the dials between any two steps.                              *)
(*                                                                         *)
(* A candidate's cooldown is "none" (until is zero), "cooling" (until is in *)
(* the future) or "over".                                                   *)
(***************************************************************************)
EXTENDS Integers, FiniteSets

CONSTANTS
  Dials,       \* connections that dial
  Candidates,  \* positions of the rule's candidates: 1..n
  Weight,      \* Candidates -> weight, at least 1
  MaxFail,     \* failures in a row that start a cooldown
  MaxApplies   \* bound: configurations applied

ASSUME CandidatesAreNumbered == Candidates \subseteq Int

VARIABLES
  backends,  \* binding.backends: Candidates -> backendState
  dial,      \* Dials -> where dialCandidates is
  served,    \* the configuration still has the rule
  crashed,   \* the Agent has died of a nil pointer
  reloads    \* configurations applied

failoverVars == <<backends, dial, served, crashed, reloads>>

NoState == [known |-> FALSE, current |-> 0, failures |-> 0, until |-> "none", probing |-> FALSE]
NoDial == [pc |-> "idle", tried |-> {}, at |-> 0, live |-> FALSE]

FailoverInit ==
  /\ backends = [c \in Candidates |-> NoState]
  /\ dial = [d \in Dials |-> NoDial]
  /\ served = TRUE
  /\ crashed = FALSE
  /\ reloads = 0

Up == ~crashed
-----------------------------------------------------------------------------
\* A connection snapshots the rule and the context of its listener.
BeginDial(d) ==
  /\ Up /\ served
  /\ dial[d].pc = "idle"
  /\ dial' = [dial EXCEPT ![d] = [pc |-> "select", tried |-> {}, at |-> 0, live |-> TRUE]]
  /\ UNCHANGED <<backends, served, crashed, reloads>>

Ready(s) == s.until # "cooling" /\ ~s.probing

EligibleTargets(tried) == {c \in Candidates \ tried : Ready(backends[c])}

\* The greatest weight so far wins, the first of equals.
Best(E) ==
  CHOOSE b \in E :
    \A c \in E \ {b} :
      LET x == backends[b].current + Weight[b]
          y == backends[c].current + Weight[c]
      IN x > y \/ (x = y /\ b < c)

\* Mutation: the chosen one pays for the candidates that are out as well.
PaysForAll(S) == LET sum[n \in 0..Cardinality(Candidates)] == IF n = 0 THEN 0 ELSE sum[n-1] + Weight[n]
                 IN sum[Cardinality(Candidates)]

Total(S) == LET sum[n \in 0..Cardinality(Candidates)] == IF n = 0 THEN 0 ELSE sum[n-1] + (IF n \in S THEN Weight[n] ELSE 0)
            IN sum[Cardinality(Candidates)]

\* What one call of selectCandidate leaves: every candidate looked at has a state,
\* the eligible ones gain their weight and the chosen one pays for all.
Selected(tried) ==
  LET E == EligibleTargets(tried)
  IN [c \in Candidates |->
        LET s == backends[c]
            best == E # {} /\ c = Best(E)
        IN [s EXCEPT !.known = @ \/ c \notin tried,
                     !.current = IF c \in E THEN @ + Weight[c] - (IF best THEN Total(E) ELSE 0) ELSE @,
                     !.probing = @ \/ (best /\ s.failures > 0 /\ s.until # "none")]]

\* One turn of dialCandidates' loop up to the dial, or its end: every candidate
\* tried, or none eligible. Its two other returns are never taken: validate has
\* refused a candidate that is billed differently, and nobody passes a check.
SelectCandidate(d) ==
  /\ Up
  /\ dial[d].pc = "select"
  /\ IF dial[d].tried = Candidates
     THEN dial' = [dial EXCEPT ![d] = NoDial] /\ UNCHANGED backends
     ELSE LET E == EligibleTargets(dial[d].tried)
          IN /\ backends' = Selected(dial[d].tried)
             /\ dial' = [dial EXCEPT ![d] = IF E = {} THEN NoDial
                                            ELSE [@ EXCEPT !.pc = "dialling", !.at = Best(E), !.tried = dial[d].tried \cup {Best(E)}]]
  /\ UNCHANGED <<served, crashed, reloads>>

\* markCandidate: nothing when the state is gone. Only whether failures reached
\* MaxFail matters, so the count stops there.
Marked(s, failed) ==
  IF ~s.known THEN s
  ELSE IF ~failed THEN [s EXCEPT !.probing = FALSE, !.failures = 0, !.until = "none"]
  ELSE [s EXCEPT !.probing = FALSE,
                 !.failures = IF @ < MaxFail THEN @ + 1 ELSE @,
                 !.until = IF s.failures + 1 >= MaxFail THEN "cooling" ELSE @]

\* The dial succeeds, also when its context ends at the same moment.
DialSucceeds(d) ==
  /\ Up
  /\ dial[d].pc = "dialling"
  /\ backends' = [backends EXCEPT ![dial[d].at] = Marked(@, FALSE)]
  /\ dial' = [dial EXCEPT ![d] = NoDial]
  /\ UNCHANGED <<served, crashed, reloads>>

\* The attempt fails while the call's own context is good: the next candidate.
DialFails(d) ==
  /\ Up
  /\ dial[d].pc = "dialling" /\ dial[d].live
  /\ backends' = [backends EXCEPT ![dial[d].at] = Marked(@, TRUE)]
  /\ dial' = [dial EXCEPT ![d].pc = "select"]
  /\ UNCHANGED <<served, crashed, reloads>>

\* Mutation: a cancelled dial leaves the flag as it is.
GivesUpProbing(d) ==
  /\ Up
  /\ dial[d].pc = "dialling"
  /\ dial' = [dial EXCEPT ![d] = NoDial]
  /\ UNCHANGED <<backends, served, crashed, reloads>>

\* The context is over: the 15 seconds of the call, Apply, or StopLease. The
\* failure does not count. Writing to a state that is gone is a nil dereference.
DialCancelled(d) ==
  /\ Up
  /\ dial[d].pc = "dialling"
  /\ IF backends[dial[d].at].known
     THEN backends' = [backends EXCEPT ![dial[d].at].probing = FALSE] /\ UNCHANGED crashed
     ELSE crashed' = TRUE /\ UNCHANGED backends
  /\ dial' = [dial EXCEPT ![d] = NoDial]
  /\ UNCHANGED <<served, reloads>>

\* A cooldown ends.
CooldownEnds(c) ==
  /\ Up
  /\ backends[c].until = "cooling"
  /\ backends' = [backends EXCEPT ![c].until = "over"]
  /\ UNCHANGED <<dial, served, crashed, reloads>>
-----------------------------------------------------------------------------
CancelDials == dial' = [d \in Dials |-> [dial[d] EXCEPT !.live = FALSE]]

\* Runtime.Apply with a changed rule: a new map of states and a new context.
ApplyChanged ==
  /\ Up /\ reloads < MaxApplies
  /\ backends' = [c \in Candidates |-> NoState]
  /\ CancelDials
  /\ served' = TRUE
  /\ reloads' = reloads + 1
  /\ UNCHANGED crashed

\* updateIngressRoutes: a removed route is revoked and its states are deleted.
RouteRemoved ==
  /\ Up /\ served /\ reloads < MaxApplies
  /\ backends' = [c \in Candidates |-> NoState]
  /\ CancelDials
  /\ served' = FALSE
  /\ reloads' = reloads + 1
  /\ UNCHANGED crashed

\* StopLease: the context ends and the states stay.
LeaseStopped ==
  /\ Up /\ \E d \in Dials : dial[d].live
  /\ CancelDials
  /\ UNCHANGED <<backends, served, crashed, reloads>>

DialStep(d) == BeginDial(d) \/ SelectCandidate(d) \/ DialSucceeds(d) \/ DialFails(d) \/ DialCancelled(d)

FailoverNext ==
  \/ \E d \in Dials : DialStep(d)
  \/ \E c \in Candidates : CooldownEnds(c)
  \/ ApplyChanged \/ RouteRemoved \/ LeaseStopped

FailoverSpec == FailoverInit /\ [][FailoverNext]_failoverVars
-----------------------------------------------------------------------------
\* States and dials have the shapes of backendState and of the locals of dialCandidates.
FailoverTypeOK ==
  /\ backends \in [Candidates -> [known : BOOLEAN, current : Int, failures : 0..MaxFail, until : {"none", "cooling", "over"}, probing : BOOLEAN]]
  /\ dial \in [Dials -> [pc : {"idle", "select", "dialling"}, tried : SUBSET Candidates, at : Candidates \cup {0}, live : BOOLEAN]]
  /\ served \in BOOLEAN /\ crashed \in BOOLEAN /\ reloads \in Nat

\* A candidate marked as being probed is skipped by every connection, so somebody
\* must be there to clear the mark: a dial to it is in progress, whatever was
\* cancelled, replaced or answered late meanwhile (selectCandidate, dialCandidates).
ProbeOwned ==
  \A c \in Candidates : backends[c].probing => \E d \in Dials : dial[d].pc = "dialling" /\ dial[d].at = c

\* The weights given and taken balance over every history of failures, so that no
\* candidate gains on the others by having been out (selectCandidate).
WeightsBalance ==
  LET sum[n \in 0..Cardinality(Candidates)] == IF n = 0 THEN 0 ELSE sum[n-1] + backends[n].current
  IN sum[Cardinality(Candidates)] = 0

\* Revoking a rule's connections leaves the Agent running (docs/shared-tls-ingress.md:
\* deletion, disabling and changes of a rule close that rule's connections only).
OnlyAffectedRule == ~crashed
=============================================================================
