----------------------------- MODULE BusinessGate -----------------------------
(***************************************************************************)
(* The inspection of a WebSocket inside the tunnel                          *)
(* (internal/tunnel/business_ws.go: wsInspectionState, wsClientGate,        *)
(* wsResponseGate, under Relay). The two directions of a connection are two *)
(* goroutines that wait for each other: the response is read after the      *)
(* request was checked, the client's frames after the response said 101.    *)
(* Undecided connections share a fixed number of inspection slots.          *)
(***************************************************************************)
EXTENDS Naturals, FiniteSets

CONSTANTS
  Gates,      \* connections
  MaxSlots,   \* businessInspectionSlots: 128 in the code
  MaxRaw      \* frames that may be held back: maxFrame bytes in the code

VARIABLES
  up,        \* Gates -> the reader of the client: where it is, frames held back, fragmented
  down,      \* Gates -> the reader of the target: new, reading, open, over
  state,     \* Gates -> [request, ready, err]: the channels closed so far, the first error
  slot,      \* Gates -> [held, closed]
  business,  \* slots taken
  passed,    \* Gates -> what has reached the target
  verdict    \* Gates -> what happened on the way: upgraded, allowed

gateVars == <<up, down, state, slot, business, passed, verdict>>

GateInit ==
  /\ up = [g \in Gates |-> [pc |-> "new", raw |-> 0, fragmented |-> FALSE]]
  /\ down = [g \in Gates |-> "new"]
  /\ state = [g \in Gates |-> [request |-> FALSE, ready |-> FALSE, err |-> FALSE]]
  /\ slot = [g \in Gates |-> [held |-> FALSE, closed |-> FALSE]]
  /\ business = 0
  /\ passed = [g \in Gates |-> {}]
  /\ verdict = [g \in Gates |-> {}]

Undecided == {"header", "waiting", "inspecting"}
-----------------------------------------------------------------------------
\* state.fail: the first error stays, and both channels are closed.
Fail(g) == state' = [state EXCEPT ![g] = [request |-> TRUE, ready |-> TRUE, err |-> TRUE]]

\* releaseSlot: given back once, and none is taken afterwards.
ReleaseSlot(g) ==
  /\ slot' = [slot EXCEPT ![g] = [held |-> FALSE, closed |-> TRUE]]
  /\ business' = IF slot[g].held THEN business - 1 ELSE business

\* denied: Read fails, and Relay closes both connections; both gates fail the state.
Denied(g) ==
  /\ up' = [up EXCEPT ![g] = [@ EXCEPT !.pc = "over", !.raw = 0]]
  /\ ReleaseSlot(g) /\ Fail(g)
  /\ UNCHANGED <<down, passed, verdict>>

\* The first Read: a slot, or the connection is refused.
AcquireSlot(g) ==
  /\ up[g].pc = "new"
  /\ IF slot[g].closed \/ business = MaxSlots THEN Denied(g)
     ELSE /\ slot' = [slot EXCEPT ![g].held = TRUE] /\ business' = business + 1
          /\ up' = [up EXCEPT ![g].pc = "header"]
          /\ UNCHANGED <<down, state, passed, verdict>>

\* The request: its header, its policy and its early data are checked; then the
\* reader of the target may begin, and the header is passed on.
ReadRequest(g) ==
  /\ up[g].pc = "header"
  /\ \/ Denied(g)
     \/ /\ state' = [state EXCEPT ![g].request = TRUE]
        /\ up' = [up EXCEPT ![g].pc = "waiting"]
        /\ passed' = [passed EXCEPT ![g] = @ \cup {"header"}]
        /\ UNCHANGED <<down, slot, business, verdict>>

\* Mutation: the client's frames are read as soon as the request is out.
AnyTime(g) == TRUE

\* wait(ready): five seconds, or the response's verdict.
IsReady(g) == state[g].ready

AwaitReady(g) ==
  /\ up[g].pc = "waiting"
  /\ \/ Denied(g)
     \/ /\ IsReady(g) /\ ~state[g].err
        /\ up' = [up EXCEPT ![g].pc = "inspecting"]
        /\ UNCHANGED <<down, state, slot, business, passed, verdict>>

\* The plan has decided to let the connection through: what was held back is passed on.
Allowed(g) ==
  /\ up' = [up EXCEPT ![g].pc = "decided", ![g].raw = 0]
  /\ ReleaseSlot(g)
  /\ passed' = [passed EXCEPT ![g] = @ \cup {"frames"}]
  /\ verdict' = [verdict EXCEPT ![g] = @ \cup {"allowed"}]
  /\ UNCHANGED <<down, state>>

\* readInspectionWSFrame: a control frame before any data is passed on as it is; a data
\* frame is held back until the plan has seen enough. An impossible order of fragments,
\* too much data or a refusal ends the connection.
ReadControl(g) ==
  /\ up[g].pc = "inspecting" /\ up[g].raw = 0
  /\ passed' = [passed EXCEPT ![g] = @ \cup {"control"}]
  /\ UNCHANGED <<up, down, state, slot, business, verdict>>

ReadData(g, continued, fin) ==
  /\ up[g].pc = "inspecting"
  /\ IF continued # up[g].fragmented \/ up[g].raw = MaxRaw THEN Denied(g)
     ELSE \/ Denied(g)
          \/ Allowed(g)
          \/ /\ up' = [up EXCEPT ![g].raw = @ + 1, ![g].fragmented = ~fin]
             /\ UNCHANGED <<down, state, slot, business, passed, verdict>>

\* The client ends, or is silent for five seconds: the plan decides on what there is.
\* With nothing to pass on the connection ends all the same.
ReadEnds(g) ==
  /\ up[g].pc = "inspecting"
  /\ Denied(g) \/ (up[g].raw > 0 /\ Allowed(g))

\* After the decision bytes pass, until the connection ends: its own end half-closes the
\* target, which does not touch the state.
Passes(g) ==
  /\ up[g].pc = "decided"
  /\ \/ Denied(g)
     \/ up' = [up EXCEPT ![g].pc = "over"] /\ UNCHANGED <<down, state, slot, business, passed, verdict>>
-----------------------------------------------------------------------------
\* The reader of the target waits for the request, five seconds.
AwaitRequest(g) ==
  /\ down[g] = "new"
  /\ \/ state[g].request /\ ~state[g].err /\ down' = [down EXCEPT ![g] = "reading"]
     \/ down' = [down EXCEPT ![g] = "failed"]
  /\ UNCHANGED <<up, state, slot, business, passed, verdict>>

Upgrades(g, ok) == ok

\* The response: a proper 101 opens the client's direction, anything else fails.
ReadResponse(g, ok) ==
  /\ down[g] = "reading"
  /\ IF Upgrades(g, ok)
     THEN /\ state' = [state EXCEPT ![g].ready = TRUE]
          /\ down' = [down EXCEPT ![g] = "open"]
     ELSE Fail(g) /\ down' = [down EXCEPT ![g] = "failed"]
  /\ verdict' = [verdict EXCEPT ![g] = IF ok THEN @ \cup {"upgraded"} ELSE @]
  /\ UNCHANGED <<up, slot, business, passed>>

\* The target's end: a clean one half-closes the client's gate, a failure closes it.
\* Both give back the slot and fail the state.
TargetEnds(g) ==
  /\ down[g] \in {"open", "failed"}
  /\ down' = [down EXCEPT ![g] = "over"]
  /\ ReleaseSlot(g) /\ Fail(g)
  /\ UNCHANGED <<up, passed, verdict>>

\* A denial has closed the target as well.
TargetClosed(g) ==
  /\ up[g].pc = "over" /\ down[g] \notin {"failed", "over"}
  /\ down' = [down EXCEPT ![g] = "failed"]
  /\ UNCHANGED <<up, state, slot, business, passed, verdict>>

GateNext ==
  \E g \in Gates :
    \/ AcquireSlot(g) \/ ReadRequest(g) \/ AwaitReady(g) \/ ReadControl(g) \/ ReadEnds(g) \/ Passes(g)
    \/ \E continued, fin \in BOOLEAN : ReadData(g, continued, fin)
    \/ AwaitRequest(g) \/ TargetEnds(g) \/ TargetClosed(g)
    \/ \E ok \in BOOLEAN : ReadResponse(g, ok)

GateSpec == GateInit /\ [][GateNext]_gateVars
-----------------------------------------------------------------------------
\* No frame of the client reaches the target before the response was a proper 101 ("before
\* the request reader releases any inner application frames"), and no application frame
\* before the plan allowed it, whatever the other direction does meanwhile.
GateKept ==
  \A g \in Gates :
    /\ passed[g] \cap {"control", "frames"} # {} => "upgraded" \in verdict[g]
    /\ "frames" \in passed[g] => "allowed" \in verdict[g]

\* The inspection slots are those of the connections that hold one; only a connection that
\* is still undecided does (acquireSlot, releaseSlot, from both goroutines).
SlotsReturned ==
  /\ business = Cardinality({g \in Gates : slot[g].held}) /\ business <= MaxSlots
  /\ \A g \in Gates : slot[g].held => up[g].pc \in Undecided
=============================================================================
