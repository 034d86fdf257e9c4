------------------------------ MODULE AgentWAL ------------------------------
(***************************************************************************)
(* The durable ledger of a forwarding Agent (internal/agent/wal.go): an    *)
(* append-only log of numbered events, a checkpoint that carries the state *)
(* after the event numbered "sequence", and the rotation that replaces the *)
(* log once the checkpoint is on disk.                                     *)
(*                                                                         *)
(* The state an event sequence produces is abstracted to the sequence      *)
(* itself, kept as an image: a function from event numbers to events.      *)
(* Two files are visible under their names (ckpt, wal).  Until the         *)
(* directory is synchronised a power failure may bring back the file the   *)
(* name had before the rename (ckptOld, walOld), and until the log is      *)
(* synchronised it may lose any suffix of the records written since.       *)
(*                                                                         *)
(* The file system is one with an ordered metadata journal (ext4, XFS): a  *)
(* successful fsync of a file also commits the renames made before it.     *)
(***************************************************************************)
EXTENDS Integers

CONSTANTS Events,      \* what a record can carry
          NoEvent,     \* the place of a record that is not there
          MaxSeq,      \* bound on event numbers
          MaxBatch,    \* bound on the events of one appendEvents call
          CrashKinds   \* the failures that happen: "kill", "power"

ASSUME WALConstants ==
    /\ NoEvent \notin Events
    /\ MaxSeq \in Nat
    /\ MaxBatch \in Nat \ {0}
    /\ CrashKinds \subseteq {"kill", "power"}

VARIABLES mode,      \* "down" | "up" | "failed" | "refused"
          step,      \* where the single writer stands in an append or a checkpoint
          mem,       \* events applied in memory; a dead process leaves its last value
          ckpt, ckptOld,
          wal, walOld,
          promised   \* what the last successful fsync promised to callers

vars == <<mode, step, mem, ckpt, ckptOld, wal, walOld, promised>>
disk == <<ckpt, ckptOld, wal, walOld>>

Numbers == 1..MaxSeq
Image   == [Numbers -> Events \cup {NoEvent}]
Empty   == [n \in Numbers |-> NoEvent]

Applied == [seq : 0..MaxSeq, img : Image]
Checkpoint == [exists : BOOLEAN, seq : 0..MaxSeq, img : Image]
Log == [exists : BOOLEAN, base : 0..MaxSeq, end : 0..MaxSeq, synced : 0..MaxSeq, rec : Image]

\* One type invariant: the ranges of the file headers, record numbers and
\* writer positions.
TypeOK ==
    /\ mode \in {"down", "up", "failed", "refused"}
    /\ step \in {"idle", "written", "ckptRenamed", "ckptSynced", "walRenamed"}
    /\ mem \in Applied
    /\ ckpt \in Checkpoint /\ ckptOld \in Checkpoint
    /\ wal \in Log /\ walOld \in Log
    /\ promised \in Applied

Nothing == [seq |-> 0, img |-> Empty]
NoCheckpoint == [exists |-> FALSE, seq |-> 0, img |-> Empty]
NoLog == [exists |-> FALSE, base |-> 0, end |-> 0, synced |-> 0, rec |-> Empty]

\* A fresh state directory: neither file exists and no process runs.
Init ==
    /\ mode = "down" /\ step = "idle"
    /\ mem = Nothing /\ promised = Nothing
    /\ ckpt = NoCheckpoint /\ ckptOld = NoCheckpoint
    /\ wal = NoLog /\ walOld = NoLog

-----------------------------------------------------------------------------
(* Reading the files back *)

\* A log holding only its header, whose first record will be base + 1.
FreshLog(base) == [exists |-> TRUE, base |-> base, end |-> base, synced |-> base, rec |-> Empty]

\* The log cut after record n, as truncateTail or a lost tail leaves it.
Cut(w, n) == [w EXCEPT !.end = n, !.rec = [i \in Numbers |-> IF i <= n THEN w.rec[i] ELSE NoEvent]]

\* Records must be numbered base+1, base+2, ... without a gap.
Contiguous(w) == \A i \in (w.base + 1)..w.end : w.rec[i] # NoEvent

\* What openDurable accepts: a versioned checkpoint needs its log, the log may
\* not start after the checkpoint, and record numbers are contiguous.
Accepts(c, w) ==
    IF w.exists THEN w.base <= c.seq /\ Contiguous(w) ELSE ~c.exists

\* State after replay: checkpoint first, then the records numbered above it.
Replayed(c, w) ==
    [seq |-> IF w.end > c.seq THEN w.end ELSE c.seq,
     img |-> [i \in Numbers |-> IF i <= c.seq THEN c.img[i]
                                ELSE IF i <= w.end THEN w.rec[i] ELSE NoEvent]]

-----------------------------------------------------------------------------
(* OpenStore *)

\* A write changes the file the name stands for; while a rename is pending the
\* file that a power failure would bring back is another one.
SameFile(new) == walOld' = IF walOld = wal THEN new ELSE walOld

\* Names are committed by any successful sync.
NamesCommitted(w) == ckptOld' = ckpt /\ walOld' = w

\* Replay succeeds.  A torn tail is truncated and that truncation is synced;
\* a clean tail is used without a sync.
Open ==
    /\ mode = "down" /\ wal.exists /\ Accepts(ckpt, wal)
    /\ mem' = Replayed(ckpt, wal)
    /\ mode' = "up"
    /\ \/ wal' = [wal EXCEPT !.synced = wal.end] /\ NamesCommitted(wal')
       \/ UNCHANGED <<wal, walOld, ckptOld>>
    /\ UNCHANGED <<step, ckpt, promised>>

\* No log and no versioned checkpoint: replaceWAL creates the first log.
OpenFresh ==
    /\ mode = "down" /\ ~wal.exists /\ Accepts(ckpt, wal)
    /\ mem' = Nothing
    /\ mode' = "up" /\ step' = "walRenamed"
    /\ wal' = FreshLog(0) /\ walOld' = wal
    /\ UNCHANGED <<ckpt, ckptOld, promised>>

\* openDurable or replay returns an error: the Agent does not start.
OpenRefused ==
    /\ mode = "down" /\ ~Accepts(ckpt, wal)
    /\ mode' = "refused"
    /\ UNCHANGED <<step, mem, disk, promised>>

-----------------------------------------------------------------------------
(* appendEvents *)

\* A batch of k events is handed to the file, numbered from seq + 1.
AppendWrite(k, batch) ==
    /\ mode = "up" /\ step = "idle"
    /\ mem.seq + k <= MaxSeq
    /\ wal' = [wal EXCEPT !.end = mem.seq + k,
                          !.rec = [i \in Numbers |->
                                     IF i > mem.seq /\ i <= mem.seq + k
                                     THEN batch[i - mem.seq] ELSE wal.rec[i]]]
    /\ SameFile(wal')
    /\ step' = "written"
    /\ UNCHANGED <<mode, mem, ckpt, ckptOld, promised>>

\* Mutation: the events are acknowledged without waiting for the fsync.
AppendNoSync ==
    /\ mode = "up" /\ step = "written"
    /\ mem' = [seq |-> wal.end,
               img |-> [i \in Numbers |-> IF i <= mem.seq THEN mem.img[i] ELSE wal.rec[i]]]
    /\ promised' = mem'
    /\ step' = "idle"
    /\ UNCHANGED <<mode, disk>>

\* fsync succeeded: seq advances, the events are applied and the callers are
\* told that their events are durable.
AppendSync ==
    /\ mode = "up" /\ step = "written"
    /\ wal' = [wal EXCEPT !.synced = wal.end]
    /\ NamesCommitted(wal')
    /\ mem' = [seq |-> wal.end,
               img |-> [i \in Numbers |-> IF i <= mem.seq THEN mem.img[i] ELSE wal.rec[i]]]
    /\ promised' = mem'
    /\ step' = "idle"
    /\ UNCHANGED <<mode, ckpt>>

-----------------------------------------------------------------------------
(* checkpointLocked and replaceWAL *)

\* The temporary file is complete and synced, then renamed over the checkpoint.
CheckpointRename ==
    /\ mode = "up" /\ step = "idle"
    /\ ckpt' = [exists |-> TRUE, seq |-> mem.seq, img |-> mem.img]
    /\ ckptOld' = ckpt /\ walOld' = wal
    /\ step' = "ckptRenamed"
    /\ UNCHANGED <<mode, mem, wal, promised>>

\* Mutation: rotation goes ahead without synchronising the directory.
CheckpointNoDirSync ==
    /\ mode = "up" /\ step = "ckptRenamed"
    /\ step' = "ckptSynced"
    /\ UNCHANGED <<mode, mem, disk, promised>>

\* The directory is synchronised: the new checkpoint survives a power failure.
CheckpointDirSync ==
    /\ mode = "up" /\ step = "ckptRenamed"
    /\ NamesCommitted(wal)
    /\ step' = "ckptSynced"
    /\ UNCHANGED <<mode, mem, ckpt, wal, promised>>

\* replaceWAL: the new header is synced, then renamed over the log.
RotateRename ==
    /\ mode = "up" /\ step = "ckptSynced"
    /\ wal' = FreshLog(mem.seq) /\ walOld' = wal
    /\ step' = "walRenamed"
    /\ UNCHANGED <<mode, mem, ckpt, ckptOld, promised>>

\* The directory is synchronised and the new log opened for appending.
RotateDirSync ==
    /\ mode = "up" /\ step = "walRenamed"
    /\ NamesCommitted(wal)
    /\ step' = "idle"
    /\ UNCHANGED <<mode, mem, ckpt, wal, promised>>

-----------------------------------------------------------------------------
(* Failures *)

\* Any write, sync, rename or directory sync may report an error.  process then
\* marks the store failed: every later request is refused until a restart.
IOError ==
    /\ mode = "up"
    /\ mode' = "failed"
    /\ UNCHANGED <<step, mem, disk, promised>>

\* The process dies, is killed or closes.  Written bytes stay readable; of a
\* batch that was being written a prefix of the records is complete.
Kill ==
    /\ "kill" \in CrashKinds
    /\ mode \in {"up", "failed"}
    /\ mode' = "down" /\ step' = "idle"
    /\ IF step = "written"
       THEN \E n \in mem.seq..wal.end : wal' = Cut(wal, n) /\ SameFile(wal')
       ELSE UNCHANGED <<wal, walOld>>
    /\ UNCHANGED <<mem, ckpt, ckptOld, promised>>

\* The machine loses power.  A rename whose directory was not synced may be
\* undone and any suffix of unsynced records may be gone.
PowerLoss ==
    /\ "power" \in CrashKinds
    /\ mode # "refused"
    /\ mode' = "down" /\ step' = "idle"
    /\ \E c \in {ckpt, ckptOld} : ckpt' = c /\ ckptOld' = c
    /\ \E w \in {wal, walOld} : \E n \in w.synced..w.end :
          /\ wal' = [Cut(w, n) EXCEPT !.synced = n]
          /\ walOld' = wal'
    /\ UNCHANGED <<mem, promised>>

-----------------------------------------------------------------------------
Next ==
    \/ Open \/ OpenFresh \/ OpenRefused
    \/ \E k \in 1..MaxBatch : \E batch \in [1..k -> Events] : AppendWrite(k, batch)
    \/ AppendSync
    \/ CheckpointRename \/ CheckpointDirSync \/ RotateRename \/ RotateDirSync
    \/ IOError \/ Kill \/ PowerLoss

Spec == Init /\ [][Next]_vars

-----------------------------------------------------------------------------
(* Properties *)

\* Two states agree on the events numbered up to n.
Agree(x, y, n) == \A i \in 1..n : x[i] = y[i]

\* An event whose fsync was reported to a caller is never lost or replaced: the
\* running store always contains every promised event, in its place, whatever
\* crashes happened between the steps of appendEvents, checkpointLocked and
\* replaceWAL.
PromisesKept ==
    mode = "up" => /\ mem.seq >= promised.seq
                   /\ Agree(mem.img, promised.img, promised.seq)

\* Either the old or the new log can survive a crash and both replay from the
\* checkpoint's sequence: openDurable never refuses a directory that only
\* crashes have touched.
RestartAccepted == mode # "refused"

\* A step that brings the store up: what the previous incarnation had applied
\* (and may have acted on: usage reported, a configuration acknowledged) is
\* still applied.
KeepsApplied ==
    mode = "down" /\ mode' = "up" =>
        /\ mem'.seq >= mem.seq
        /\ Agree(mem'.img, mem.img, mem.seq)
=============================================================================
