--------------------------- MODULE FailoverProofs ---------------------------
(***************************************************************************)
(* The mark that keeps connections away from a candidate while one of them *)
(* tries it is never left behind, with any number of candidates, dials and *)
(* configurations.  ProbeOwned is inductive together with one fact: a      *)
(* state that Apply has thrown away carries neither the mark nor a failure *)
(* that could lead to one, so that a late answer finds nothing to undo.    *)
(***************************************************************************)
EXTENDS Failover, TLAPS

\* States and dials are records of the fields the code gives them; N and P stand
\* for whatever numbers and positions there are (what the weights add up to is a
\* recursive sum, and does not matter here).
State(N) == [known : BOOLEAN, current : N, failures : N, until : {"none", "cooling", "over"}, probing : BOOLEAN]
Dial(P) == [pc : {"idle", "select", "dialling"}, tried : SUBSET P, at : P, live : BOOLEAN]
ShapedIn(N, P) == backends \in [Candidates -> State(N)] /\ dial \in [Dials -> Dial(P)] /\ 0 \in N /\ 0 \in P
Shaped == \E N, P : ShapedIn(N, P)

\* A state that is gone has no mark and no failures.
GoneIsClean == \A c \in Candidates : ~backends[c].known => ~backends[c].probing /\ backends[c].failures = 0

ProbeInv == Shaped /\ GoneIsClean /\ ProbeOwned
-----------------------------------------------------------------------------
\* Every step keeps the records' fields (backendState, dialCandidates).
LEMMA ShapeStep == Shaped /\ [FailoverNext]_failoverVars => Shaped'
<1> SUFFICES ASSUME NEW N, NEW P, ShapedIn(N, P), [FailoverNext]_failoverVars PROVE Shaped'
  BY DEF Shaped
<1>s. backends \in [Candidates -> State(N)] /\ dial \in [Dials -> Dial(P)] /\ 0 \in N /\ 0 \in P
  BY DEF ShapedIn
<1>a. ASSUME NEW V, NEW Q, backends' \in [Candidates -> State(V)], dial' \in [Dials -> Dial(Q)], 0 \in V, 0 \in Q
      PROVE  Shaped'
  BY <1>a DEF Shaped, ShapedIn
<1>n. NoDial \in Dial(P) /\ NoState \in State(N)
  BY <1>s DEF NoDial, NoState, State, Dial
<1>1. ASSUME NEW d \in Dials, BeginDial(d) PROVE Shaped'
  <2>1. [pc |-> "select", tried |-> {}, at |-> 0, live |-> TRUE] \in Dial(P)
    BY <1>s DEF Dial
  <2>2. dial' \in [Dials -> Dial(P)]
    BY <1>1, <1>s, <2>1 DEF BeginDial
  <2> QED BY <1>1, <1>s, <1>a, <2>2 DEF BeginDial
<1>2. ASSUME NEW d \in Dials, SelectCandidate(d) PROVE Shaped'
  <2> DEFINE E == EligibleTargets(dial[d].tried)
             V == N \cup {backends'[c].current : c \in Candidates}
             Q == P \cup {Best(E)}
             x == [dial[d] EXCEPT !.pc = "dialling", !.at = Best(E), !.tried = @ \cup {Best(E)}]
  <2>1. \A b \in State(N) : b \in State(V)
    BY DEF State
  <2>2. \A y \in Dial(P) : y \in Dial(Q)
    BY DEF Dial
  <2>3. x \in Dial(Q)
    BY <1>s DEF Dial
  <2>4. dial' \in [Dials -> Dial(Q)]
    <3> HIDE DEF x, Q
    <3>1. dial' = [dial EXCEPT ![d] = NoDial] \/ dial' = [dial EXCEPT ![d] = x]
      BY <1>2 DEF SelectCandidate, x
    <3> QED BY <3>1, <1>s, <1>n, <2>2, <2>3
  <2>5. backends' \in [Candidates -> State(V)]
    <3>1. CASE backends' = backends
      BY <3>1, <1>s, <2>1
    <3>2. CASE backends' = Selected(dial[d].tried)
      <4>1. DOMAIN backends' = Candidates /\ backends' = [c \in Candidates |-> backends'[c]]
        BY <3>2 DEF Selected
      <4>2. ASSUME NEW c \in Candidates PROVE backends'[c] \in State(V)
        <5> DEFINE best == E # {} /\ c = Best(E)
                   cur == IF c \in E THEN backends[c].current + Weight[c] - (IF best THEN Total(E) ELSE 0) ELSE backends[c].current
                   known == backends[c].known \/ c \notin dial[d].tried
                   probing == backends[c].probing \/ (best /\ backends[c].failures > 0 /\ backends[c].until # "none")
        <5>1. backends'[c] = [backends[c] EXCEPT !.known = known, !.current = cur, !.probing = probing]
          BY <3>2 DEF Selected
        <5> HIDE DEF cur
        <5>2. backends[c] \in State(N)
          BY <1>s
        <5>3. known \in BOOLEAN /\ probing \in BOOLEAN
          BY <5>2 DEF State
        <5> HIDE DEF known, probing
        <5>4. backends'[c].current = cur
          BY <5>1, <5>2 DEF State
        <5>5. cur \in V
          BY <5>4
        <5>6. N \subseteq V
          OBVIOUS
        <5> HIDE DEF V
        <5> QED BY <5>1, <5>2, <5>3, <5>5, <5>6 DEF State
      <4> HIDE DEF V
      <4> QED BY <4>1, <4>2
    <3> QED BY <1>2, <3>1, <3>2 DEF SelectCandidate
  <2>6. 0 \in V /\ 0 \in Q
    BY <1>s
  <2> HIDE DEF V, Q
  <2> QED BY <1>a, <2>4, <2>5, <2>6
<1>3. ASSUME NEW d \in Dials, DialSucceeds(d) \/ DialFails(d) PROVE Shaped'
  <2> DEFINE c == dial[d].at
             V == N \cup {backends[c].failures + 1}
  <2>1. \A b \in State(N) : b \in State(V)
    BY DEF State
  <2>2. ASSUME NEW b \in State(N), b = backends[c], NEW f \in BOOLEAN PROVE Marked(b, f) \in State(V)
    BY <2>2, <1>s DEF State, Marked
  <2>3. backends' \in [Candidates -> State(V)]
    <3> HIDE DEF V
    <3>1. PICK f \in BOOLEAN : backends' = [backends EXCEPT ![c] = Marked(@, f)]
      BY <1>3 DEF DialSucceeds, DialFails
    <3> QED BY <3>1, <1>s, <2>1, <2>2
  <2>4. dial' \in [Dials -> Dial(P)]
    <3>1. [dial[d] EXCEPT !.pc = "select"] \in Dial(P)
      BY <1>s DEF Dial
    <3>2. dial' = [dial EXCEPT ![d] = NoDial] \/ dial' = [dial EXCEPT ![d] = [dial[d] EXCEPT !.pc = "select"]]
      BY <1>3, <1>s DEF DialSucceeds, DialFails
    <3> QED BY <3>1, <3>2, <1>s, <1>n
  <2> QED BY <1>a, <1>s, <2>3, <2>4
<1>4. ASSUME NEW d \in Dials, DialCancelled(d) PROVE Shaped'
  <2> DEFINE c == dial[d].at
  <2>1. backends' \in [Candidates -> State(N)]
    <3>1. CASE c \notin Candidates
      BY <1>4, <1>s, <3>1 DEF DialCancelled
    <3>2. CASE c \in Candidates
      <4>1. [backends[c] EXCEPT !.probing = FALSE] \in State(N)
        BY <1>s, <3>2 DEF State
      <4>2. backends' = backends \/ backends' = [backends EXCEPT ![c] = [backends[c] EXCEPT !.probing = FALSE]]
        BY <1>4, <1>s, <3>2 DEF DialCancelled
      <4> QED BY <1>s, <4>1, <4>2
    <3> QED BY <3>1, <3>2
  <2> QED BY <1>4, <1>s, <1>n, <1>a, <2>1 DEF DialCancelled
<1>5. ASSUME NEW c \in Candidates, CooldownEnds(c) PROVE Shaped'
  <2>1. backends' \in [Candidates -> State(N)]
    BY <1>5, <1>s DEF CooldownEnds, State
  <2> QED BY <1>5, <1>s, <1>a, <2>1 DEF CooldownEnds
<1>6. CASE ApplyChanged \/ RouteRemoved \/ LeaseStopped
  <2>1. \A d \in Dials : [dial[d] EXCEPT !.live = FALSE] \in Dial(P)
    BY <1>s DEF Dial
  <2>2. dial' \in [Dials -> Dial(P)]
    BY <1>6, <1>s, <2>1 DEF ApplyChanged, RouteRemoved, LeaseStopped, CancelDials
  <2> QED BY <1>6, <1>s, <1>n, <1>a, <2>2 DEF ApplyChanged, RouteRemoved, LeaseStopped
<1>7. CASE UNCHANGED failoverVars
  BY <1>7, <1>s, <1>a DEF failoverVars
<1> QED BY <1>1, <1>2, <1>3, <1>4, <1>5, <1>6, <1>7 DEF FailoverNext, DialStep
-----------------------------------------------------------------------------
\* Whoever starts to try a candidate records where it is, and whoever stops clears
\* the mark or finds the state gone (selectCandidate, markCandidate, dialCandidates).
LEMMA ProbeStep == Shaped /\ GoneIsClean /\ ProbeOwned /\ [FailoverNext]_failoverVars => GoneIsClean' /\ ProbeOwned'
<1> SUFFICES ASSUME NEW N, NEW P, ShapedIn(N, P), GoneIsClean, ProbeOwned, [FailoverNext]_failoverVars
             PROVE  GoneIsClean' /\ ProbeOwned'
  BY DEF Shaped
<1>s. backends \in [Candidates -> State(N)] /\ dial \in [Dials -> Dial(P)]
  BY DEF ShapedIn
<1>g. \A c \in Candidates : backends[c] \in State(N) /\ (~backends[c].known => ~backends[c].probing /\ backends[c].failures = 0)
  BY <1>s DEF GoneIsClean
<1>o. ASSUME NEW c \in Candidates, backends[c].probing PROVE \E e \in Dials : dial[e].pc = "dialling" /\ dial[e].at = c
  BY <1>o DEF ProbeOwned
<1>1. ASSUME NEW d \in Dials, BeginDial(d) PROVE GoneIsClean' /\ ProbeOwned'
  BY <1>1, <1>s DEF BeginDial, GoneIsClean, ProbeOwned
<1>2. ASSUME NEW d \in Dials, SelectCandidate(d) PROVE GoneIsClean' /\ ProbeOwned'
  <2> DEFINE E == EligibleTargets(dial[d].tried)
  <2>1. CASE backends' = backends
    BY <1>2, <1>s, <2>1 DEF SelectCandidate, GoneIsClean, ProbeOwned
  <2>2. CASE /\ backends' = Selected(dial[d].tried)
             /\ dial' = [dial EXCEPT ![d] = IF E = {} THEN NoDial
                           ELSE [@ EXCEPT !.pc = "dialling", !.at = Best(E), !.tried = dial[d].tried \cup {Best(E)}]]
    <3>1. ASSUME NEW c \in Candidates
          PROVE  /\ backends[c].known => backends'[c].known
                 /\ backends'[c].failures = backends[c].failures
                 /\ backends'[c].probing => backends[c].probing \/ (E # {} /\ c = Best(E) /\ backends[c].failures > 0)
      <4> DEFINE best == E # {} /\ c = Best(E)
                 cur == IF c \in E THEN backends[c].current + Weight[c] - (IF best THEN Total(E) ELSE 0) ELSE backends[c].current
                 known == backends[c].known \/ c \notin dial[d].tried
                 probing == backends[c].probing \/ (best /\ backends[c].failures > 0 /\ backends[c].until # "none")
      <4>1. backends'[c] = [backends[c] EXCEPT !.known = known, !.current = cur, !.probing = probing]
        BY <2>2 DEF Selected
      <4> HIDE DEF cur, known, probing
      <4>2. backends'[c].known = known /\ backends'[c].failures = backends[c].failures /\ backends'[c].probing = probing
        BY <4>1, <1>g DEF State
      <4> QED BY <4>2 DEF known, probing
    <3>2. GoneIsClean'
      BY <3>1, <1>g DEF GoneIsClean
    <3>3. ASSUME NEW c \in Candidates, backends'[c].probing
          PROVE  \E e \in Dials : dial'[e].pc = "dialling" /\ dial'[e].at = c
      <4>1. CASE backends[c].probing
        <5>1. PICK e \in Dials : dial[e].pc = "dialling" /\ dial[e].at = c
          BY <4>1, <1>o
        <5>2. e # d
          BY <5>1, <1>2 DEF SelectCandidate
        <5>3. dial'[e] = dial[e]
          BY <2>2, <5>2, <1>s
        <5> QED BY <5>1, <5>3
      <4>2. CASE E # {} /\ c = Best(E)
        <5> DEFINE x == [dial[d] EXCEPT !.pc = "dialling", !.at = Best(E), !.tried = dial[d].tried \cup {Best(E)}]
        <5>1. dial'[d] = x
          BY <2>2, <4>2, <1>s
        <5>2. x.pc = "dialling" /\ x.at = Best(E)
          BY <1>s DEF Dial
        <5> QED BY <4>2, <5>1, <5>2
      <4> QED BY <3>1, <3>3, <4>1, <4>2
    <3>4. ProbeOwned'
      BY <3>3 DEF ProbeOwned
    <3> QED BY <3>2, <3>4
  <2> QED BY <1>2, <2>1, <2>2 DEF SelectCandidate
<1>3. ASSUME NEW d \in Dials, dial[d].pc = "dialling", NEW b,
             backends' = [backends EXCEPT ![dial[d].at] = b],
             dial[d].at \in Candidates => ~b.probing /\ (~b.known => b.failures = 0),
             \A e \in Dials \ {d} : dial'[e] = dial[e]
      PROVE  GoneIsClean' /\ ProbeOwned'
  <2>1. ASSUME NEW c \in Candidates PROVE IF c = dial[d].at THEN backends'[c] = b ELSE backends'[c] = backends[c]
    BY <1>3, <1>s
  <2>2. GoneIsClean'
    BY <1>3, <1>g, <2>1 DEF GoneIsClean
  <2>3. ASSUME NEW c \in Candidates, backends'[c].probing
        PROVE  \E e \in Dials : dial'[e].pc = "dialling" /\ dial'[e].at = c
    <3>1. c # dial[d].at /\ backends[c].probing
      BY <1>3, <2>1, <2>3
    <3>2. PICK e \in Dials : dial[e].pc = "dialling" /\ dial[e].at = c
      BY <3>1, <1>o
    <3> QED BY <1>3, <3>1, <3>2
  <2> QED BY <2>2, <2>3 DEF ProbeOwned
<1>4. ASSUME NEW d \in Dials, DialSucceeds(d) \/ DialFails(d) PROVE GoneIsClean' /\ ProbeOwned'
  <2> DEFINE c == dial[d].at
  <2>1. PICK f \in BOOLEAN : backends' = [backends EXCEPT ![c] = Marked(backends[c], f)]
    BY <1>4 DEF DialSucceeds, DialFails
  <2>2. c \in Candidates => /\ ~Marked(backends[c], f).probing
                            /\ ~Marked(backends[c], f).known => Marked(backends[c], f).failures = 0
    BY <1>g DEF Marked, State
  <2>3. dial[d].pc = "dialling" /\ \A e \in Dials \ {d} : dial'[e] = dial[e]
    BY <1>4, <1>s DEF DialSucceeds, DialFails
  <2> QED BY <1>3, <2>1, <2>2, <2>3
<1>5. ASSUME NEW d \in Dials, DialCancelled(d) PROVE GoneIsClean' /\ ProbeOwned'
  <2> DEFINE c == dial[d].at
             b == IF backends[c].known THEN [backends[c] EXCEPT !.probing = FALSE] ELSE backends[c]
  <2>1. backends' = [backends EXCEPT ![c] = b]
    BY <1>5, <1>s DEF DialCancelled
  <2>2. c \in Candidates => ~b.probing /\ (~b.known => b.failures = 0)
    BY <1>g DEF State
  <2>3. dial[d].pc = "dialling" /\ \A e \in Dials \ {d} : dial'[e] = dial[e]
    BY <1>5, <1>s DEF DialCancelled
  <2> HIDE DEF b
  <2> QED BY <1>3, <2>1, <2>2, <2>3
<1>6. ASSUME NEW c \in Candidates, CooldownEnds(c) PROVE GoneIsClean' /\ ProbeOwned'
  <2>1. ASSUME NEW e \in Candidates
        PROVE  /\ backends'[e].known = backends[e].known /\ backends'[e].probing = backends[e].probing
               /\ backends'[e].failures = backends[e].failures
    BY <1>6, <1>s DEF CooldownEnds, State
  <2> QED BY <1>6, <2>1, <1>g, <1>o DEF CooldownEnds, GoneIsClean, ProbeOwned
<1>7. CASE ApplyChanged \/ RouteRemoved
  BY <1>7 DEF ApplyChanged, RouteRemoved, NoState, GoneIsClean, ProbeOwned
<1>8. CASE LeaseStopped
  <2>1. ASSUME NEW e \in Dials PROVE dial'[e].pc = dial[e].pc /\ dial'[e].at = dial[e].at
    BY <1>8, <1>s DEF LeaseStopped, CancelDials, Dial
  <2> QED BY <1>8, <2>1, <1>g, <1>o DEF LeaseStopped, GoneIsClean, ProbeOwned
<1>9. CASE UNCHANGED failoverVars
  BY <1>9, <1>g, <1>o DEF failoverVars, GoneIsClean, ProbeOwned
<1> QED BY <1>1, <1>2, <1>4, <1>5, <1>6, <1>7, <1>8, <1>9 DEF FailoverNext, DialStep

\* A candidate that connections are kept away from because it is being tried is
\* being tried: with any number of dials, candidates, cancelled calls and applied
\* configurations, no candidate is left out for ever (selectCandidate, dialCandidates).
THEOREM ProbesAreOwned == FailoverSpec => []ProbeOwned
<1>1. FailoverInit => ProbeInv
  <2> SUFFICES ASSUME FailoverInit PROVE ProbeInv
    OBVIOUS
  <2>1. NoState \in State({0}) /\ NoDial \in Dial({0}) /\ 0 \in {0}
    BY DEF NoState, NoDial, State, Dial
  <2>2. ShapedIn({0}, {0})
    BY <2>1 DEF FailoverInit, ShapedIn
  <2> QED BY <2>2 DEF FailoverInit, ProbeInv, Shaped, GoneIsClean, ProbeOwned, NoState
<1>2. ProbeInv /\ [FailoverNext]_failoverVars => ProbeInv'
  BY ShapeStep, ProbeStep DEF ProbeInv
<1>3. ProbeInv => ProbeOwned
  BY DEF ProbeInv
<1> QED BY <1>1, <1>2, <1>3, PTL DEF FailoverSpec
=============================================================================
