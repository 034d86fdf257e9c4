------------------------------ MODULE ByteRelay ------------------------------
(***************************************************************************)
(* One direction of a TCP connection through the tunnel (internal/tunnel:   *)
(* Relay, Session, writeFrame, readFrame, obfsConn and its strategies,      *)
(* wsConn): the entry's relay reads the client, charges, and writes frames; *)
(* each frame is one write to the carrier, which the obfuscation layer      *)
(* packs into one unit; the exit unpacks, reads within frames, and writes   *)
(* the target. Bytes are numbered in the order in which the client sends    *)
(* them. A frame's header is one item here, five bytes in the code.         *)
(***************************************************************************)
EXTENDS Naturals, Sequences, SequencesExt

CONSTANTS
  Layers,      \* configurations both ends may have, of those AcceptedLayers
  Bytes,       \* bytes the client sends before it half-closes
  EntryBuffer, \* what Relay reads at once: 32 KiB in the code
  ExitBuffer,  \* the same at the exit
  MaxFrame,    \* maxFrame
  MaxRecord,   \* maxTLSRecordPayload: 16384 in the code
  Width,       \* two to the width of the length field of a padded or mimicked unit
  Pads,        \* lengths of padding
  Window       \* units under way

VARIABLES
  layer,    \* the obfuscation both ends are configured with
  offered,  \* bytes of the client that have arrived at the entry
  fin,      \* the client has half-closed
  entry,    \* copyOne at the entry: [pc, buf]
  charged,  \* bytes charged
  carrier,  \* units on the wire
  ended,    \* the carrier: open, closed (after what is under way), broken
  plain,    \* obfsConn.readBuf at the exit
  session,  \* Session at the exit: [remaining, err]
  out,      \* bytes the target has received
  target,   \* open, half (closed for writing), closed
  cut,      \* a failure has closed the connection
  refused   \* the obfuscation layer has refused a write

relayVars == <<layer, offered, fin, entry, charged, carrier, ended, plain, session, out, target, cut, refused>>

\* newObfuscator, ValidateObfuscation: a delay may be a range of a single value.
AcceptedLayers == [strategy : {"none", "random-padding", "tls-mimic"}] \cup [strategy : {"timing-perturb"}, range : {0, 1}]

RelayInit ==
  /\ layer \in Layers \cap AcceptedLayers
  /\ offered = 0 /\ fin = FALSE /\ charged = 0
  /\ entry = [pc |-> "read", buf |-> <<>>]
  /\ carrier = <<>> /\ ended = "open" /\ plain = <<>>
  /\ session = [remaining |-> 0, err |-> "none"]
  /\ out = <<>> /\ target = "open" /\ cut = FALSE /\ refused = FALSE

\* The client's bytes first + 1 .. last.
Stream(first, last) == [i \in 1..(last - first) |-> <<"byte", first + i>>]

\* writeFrame: a header with kind and length, and the bytes.
Frame(kind, bytes) == <<<<kind, Len(bytes)>>>> \o bytes
-----------------------------------------------------------------------------
\* ObfuscateWrite, appendObfuscated: what a strategy takes.
Takes(items) ==
  CASE layer.strategy = "random-padding" -> Len(items) < Width
    [] layer.strategy = "tls-mimic" -> Len(items) <= MaxRecord
    [] layer.strategy = "timing-perturb" -> layer.range > 0
    [] OTHER -> TRUE

\* The unit on the wire: a length in a field of limited width, the items, padding.
Units(items) ==
  CASE layer.strategy = "random-padding" -> {<<<<"length", Len(items) % Width>>>> \o items \o [i \in 1..n |-> <<"pad", i>>] : n \in Pads}
    [] layer.strategy = "tls-mimic" -> {<<<<"length", Len(items) % Width>>>> \o items}
    [] OTHER -> {items}

\* Mutation: all that follows the field is taken for data.
UnpackedAll(unit) == IF layer.strategy \in {"random-padding", "tls-mimic"} THEN Tail(unit) ELSE unit

\* DeobfuscateRead: as many items as the field says; no unit says more than it has.
Unpacked(unit) == IF layer.strategy \in {"random-padding", "tls-mimic"} THEN SubSeq(unit, 2, 1 + unit[1][2]) ELSE unit

\* client.Close and target.Close: what is under way may still arrive.
ClosedDown == ended' = (IF ended = "open" THEN "closed" ELSE ended) /\ cut' = TRUE

ClientSends ==
  /\ offered < Bytes /\ ~fin
  /\ offered' = offered + 1
  /\ UNCHANGED <<layer, fin, entry, charged, carrier, ended, plain, session, out, target, cut, refused>>

ClientEnds ==
  /\ ~fin /\ fin' = TRUE
  /\ UNCHANGED <<layer, offered, entry, charged, carrier, ended, plain, session, out, target, cut, refused>>

\* Bytes of the client read so far are those charged, plus those in hand.
\* The entry reads what is there, as much as fits, and charges it; a refusal closes
\* both sides before a byte is sent.
ReadAndCharge ==
  /\ entry.pc = "read" /\ offered > charged
  /\ \/ \E n \in 1..EntryBuffer :
          /\ charged + n <= offered
          /\ entry' = [pc |-> "write", buf |-> Stream(charged, charged + n)]
          /\ charged' = charged + n
          /\ UNCHANGED <<ended, cut>>
     \/ entry' = [entry EXCEPT !.pc = "done"] /\ ClosedDown /\ UNCHANGED charged
  /\ UNCHANGED <<layer, offered, fin, carrier, plain, session, out, target, refused>>

\* What is left after one frame.
Rest(buf) == IF Len(buf) > MaxFrame THEN SubSeq(buf, MaxFrame + 1, Len(buf)) ELSE <<>>

\* Session.Write: the next frame, in one write to the carrier. A write fails when the
\* carrier is gone or the obfuscation layer does not take it; then both sides close.
WriteFrame ==
  /\ entry.pc = "write" /\ Len(carrier) < Window
  /\ LET buf == entry.buf
         frame == Frame("data", SubSeq(buf, 1, Len(buf) - Len(Rest(buf))))
     IN IF ended = "open" /\ Takes(frame)
        THEN /\ \E unit \in Units(frame) : carrier' = Append(carrier, unit)
             /\ entry' = [pc |-> IF Rest(buf) = <<>> THEN "read" ELSE "write", buf |-> Rest(buf)]
             /\ UNCHANGED <<ended, cut, refused>>
        ELSE /\ entry' = [pc |-> "done", buf |-> <<>>]
             /\ ClosedDown /\ refused' = (refused \/ ended = "open")
             /\ UNCHANGED carrier
  /\ UNCHANGED <<layer, offered, fin, charged, plain, session, out, target>>

\* The client's end of file: CloseWrite sends an end frame. Its error is not looked at.
WriteEnd ==
  /\ entry.pc = "read" /\ fin /\ offered = charged /\ Len(carrier) < Window
  /\ entry' = [entry EXCEPT !.pc = "done"]
  /\ IF ended = "open" /\ Takes(Frame("end", <<>>))
     THEN (\E unit \in Units(Frame("end", <<>>)) : carrier' = Append(carrier, unit)) /\ UNCHANGED refused
     ELSE refused' = (refused \/ ended = "open") /\ UNCHANGED carrier
  /\ UNCHANGED <<layer, offered, fin, charged, ended, plain, session, out, target, cut>>

\* The carrier breaks: some of what was under way is lost, at any place.
CarrierBreaks ==
  /\ ended # "broken" /\ ended' = "broken" /\ cut' = TRUE
  /\ \E n \in 0..Len(carrier) : carrier' = SubSeq(carrier, 1, n)
  /\ UNCHANGED <<layer, offered, fin, entry, charged, plain, session, out, target, refused>>

\* obfsConn.Read, wsConn.Read: the next unit.
Unpack ==
  /\ plain = <<>> /\ carrier # <<>> /\ session.err = "none"
  /\ plain' = Unpacked(Head(carrier)) /\ carrier' = Tail(carrier)
  /\ UNCHANGED <<layer, offered, fin, entry, charged, ended, session, out, target, cut, refused>>

\* Session.Read: a header first, then within the frame as much as the caller takes.
ReadHeader ==
  /\ session.remaining = 0 /\ session.err = "none" /\ plain # <<>>
  /\ plain' = Tail(plain)
  /\ session' = IF Head(plain)[1] = "data" THEN [session EXCEPT !.remaining = Head(plain)[2]]
                ELSE [session EXCEPT !.err = IF Head(plain)[1] = "end" THEN "EOF" ELSE "invalid"]
  /\ UNCHANGED <<layer, offered, fin, entry, charged, carrier, ended, out, target, cut, refused>>

ReadBody ==
  /\ session.remaining > 0 /\ session.err = "none" /\ plain # <<>> /\ target = "open"
  /\ LET n == CHOOSE m \in 1..ExitBuffer : m <= session.remaining /\ (m = ExitBuffer \/ m = session.remaining)
     IN /\ out' = out \o SubSeq(plain, 1, n)
        /\ plain' = SubSeq(plain, n + 1, Len(plain))
        /\ session' = [session EXCEPT !.remaining = @ - n]
  /\ UNCHANGED <<layer, offered, fin, entry, charged, carrier, ended, target, cut, refused>>

\* Nothing more will come: the end of file within a frame is not a clean one.
CarrierEnds ==
  /\ ended # "open" /\ carrier = <<>> /\ plain = <<>> /\ session.err = "none"
  /\ \E err \in IF session.remaining = 0 /\ ended = "closed" THEN {"EOF"} ELSE {"unexpected"} :
       session' = [session EXCEPT !.err = err]
  /\ UNCHANGED <<layer, offered, fin, entry, charged, carrier, ended, plain, out, target, cut, refused>>

\* The exit's relay passes the end on: half-close, or close.
PassEnd ==
  /\ session.err # "none" /\ target = "open"
  /\ target' = IF session.err = "EOF" THEN "half" ELSE "closed"
  /\ UNCHANGED <<layer, offered, fin, entry, charged, carrier, ended, plain, session, out, cut, refused>>

\* The target fails to take what is written: both sides close.
TargetFails ==
  /\ target # "closed" /\ target' = "closed" /\ cut' = TRUE
  /\ ended' = "broken" /\ carrier' = <<>>
  /\ UNCHANGED <<layer, offered, fin, entry, charged, plain, session, out, refused>>

RelayNext ==
  \/ ClientSends \/ ClientEnds \/ ReadAndCharge \/ WriteFrame \/ WriteEnd
  \/ CarrierBreaks \/ Unpack \/ ReadHeader \/ ReadBody \/ CarrierEnds \/ PassEnd \/ TargetFails

RelaySpec == RelayInit /\ [][RelayNext]_relayVars
-----------------------------------------------------------------------------
\* The target receives what the client sent, in order and without a gap, none of it before
\* it was charged ("charge reserves bytes durably before sending"); and unless the
\* connection was cut or a write refused, it sees the end, and only after the last byte.
BytesIntact ==
  /\ IsPrefix(out, Stream(0, Bytes)) /\ Len(out) <= charged
  /\ target = "closed" => cut
  /\ target = "half" /\ ~cut /\ ~refused => fin /\ Len(out) = offered

\* The obfuscation layer takes what the Session layer writes, in every configuration that
\* is accepted (agent-README: it is completely transparent to the Session protocol).
Transparent == ~refused
=============================================================================
