--------------------------- MODULE AgentWALProofs ---------------------------
(***************************************************************************)
(* For every event set, every bound and every mix of crashes, the Agent    *)
(* ledger keeps what it promised.  PromisesKept speaks of a running store  *)
(* only; it is made inductive by saying what every disk image that a crash *)
(* can leave behind holds (DiskKeeps) and that the visible files mirror    *)
(* what the running store has applied (Mirrored).                          *)
(***************************************************************************)
EXTENDS AgentWAL, TLAPS

\* Checkpoint c together with log w, read up to record n, holds the first k
\* events of image x.
Holds(c, w, n, x, k) ==
    \A i \in 1..k : \/ i <= c.seq /\ c.img[i] = x[i]
                    \/ i > c.seq /\ i <= n /\ w.rec[i] = x[i]

\* Every pair of files a power failure can leave holds what was promised.
DiskKeeps ==
    \A c \in {ckpt, ckptOld}, w \in {wal, walOld} :
        Holds(c, w, w.synced, promised.img, promised.seq)

\* The visible files hold everything the running store has applied.
Mirrored ==
    mode = "up" => /\ ckpt.seq <= mem.seq /\ wal.exists
                   /\ Holds(ckpt, wal, wal.end, mem.img, mem.seq)

\* Between the two renames the checkpoint equals the state in memory, so
\* a rotation drops only records that the checkpoint carries.
Phases ==
    /\ wal.synced <= wal.end /\ walOld.synced <= walOld.end
    /\ mode = "up" /\ step \in {"ckptRenamed", "ckptSynced"} =>
          ckpt.seq = mem.seq /\ ckpt.img = mem.img
    /\ mode = "up" /\ step = "ckptSynced" => ckptOld = ckpt
    /\ mode = "down" => step = "idle"
    /\ step = "written" => mem.seq <= wal.end /\ wal.synced <= mem.seq
    /\ mode = "up" /\ step # "written" => wal.end <= mem.seq
    /\ \A c \in {ckpt, ckptOld} : c.exists \/ c.seq = 0
    /\ \A w \in {wal, walOld} : w.exists \/ w.end = 0

IInv == TypeOK /\ PromisesKept /\ DiskKeeps /\ Mirrored /\ Phases

-----------------------------------------------------------------------------
\* Cutting a log (truncateTail, a lost tail) and syncing it give logs again.
LEMMA LogForms ==
  ASSUME NEW w \in Log, NEW n \in 0..MaxSeq
  PROVE  /\ Cut(w, n) \in Log
         /\ [w EXCEPT !.synced = n] \in Log
         /\ [Cut(w, n) EXCEPT !.synced = n] \in Log
<1>1. Cut(w, n) \in Log
  <2>1. [i \in Numbers |-> IF i <= n THEN w.rec[i] ELSE NoEvent] \in Image
    BY DEF Log, Image, Numbers
  <2> QED BY <2>1 DEF Cut, Log
<1>2. \A v \in Log : [v EXCEPT !.synced = n] \in Log
  BY DEF Log
<1> QED BY <1>1, <1>2

\* Replaying a log over a checkpoint gives a state in range.
LEMMA ReplayForm ==
  ASSUME NEW c \in Checkpoint, NEW w \in Log
  PROVE  Replayed(c, w) \in Applied
<1>1. [i \in Numbers |-> IF i <= c.seq THEN c.img[i]
                         ELSE IF i <= w.end THEN w.rec[i] ELSE NoEvent] \in Image
  BY DEF Checkpoint, Log, Image, Numbers
<1>2. (IF w.end > c.seq THEN w.end ELSE c.seq) \in 0..MaxSeq
  BY DEF Checkpoint, Log
<1> QED BY <1>1, <1>2 DEF Replayed, Applied

\* Every step keeps file headers, record numbers and writer positions in range
\* (appendEvents, checkpointLocked, replaceWAL, openDurable).
LEMMA TypeStep == TypeOK /\ [Next]_vars => TypeOK'
<1> SUFFICES ASSUME TypeOK, [Next]_vars PROVE TypeOK'
  OBVIOUS
<1> USE WALConstants DEF TypeOK
<1>1. CASE Open
  <2>1. mem' \in Applied
    BY <1>1, ReplayForm DEF Open
  <2>2. wal' \in Log /\ walOld' \in Log /\ ckptOld' \in Checkpoint
    <3>1. [wal EXCEPT !.synced = wal.end] \in Log
      BY DEF Log
    <3> QED BY <1>1, <3>1 DEF Open, NamesCommitted
  <2> QED BY <1>1, <2>1, <2>2 DEF Open
<1>2. CASE OpenFresh
  BY <1>2 DEF OpenFresh, FreshLog, Nothing, Empty, Applied, Log, Image, Numbers
<1>3. CASE OpenRefused
  BY <1>3 DEF OpenRefused, disk
<1>4. ASSUME NEW k \in 1..MaxBatch, NEW batch \in [1..k -> Events], AppendWrite(k, batch)
      PROVE TypeOK'
  <2> DEFINE r == [i \in Numbers |-> IF i > mem.seq /\ i <= mem.seq + k
                                     THEN batch[i - mem.seq] ELSE wal.rec[i]]
  <2>0. mem.seq \in 0..MaxSeq /\ k \in Nat /\ mem.seq + k <= MaxSeq
    BY <1>4 DEF AppendWrite, Applied
  <2>1. mem.seq + k \in 0..MaxSeq /\ r \in Image
    <3>1. ASSUME NEW i \in Numbers PROVE r[i] \in Events \cup {NoEvent}
      <4>1. CASE i > mem.seq /\ i <= mem.seq + k
        <5>1. i - mem.seq \in 1..k
          BY <2>0, <4>1 DEF Numbers
        <5> QED BY <4>1, <5>1
      <4>2. CASE ~(i > mem.seq /\ i <= mem.seq + k)
        BY <4>2 DEF Log, Image
      <4> QED BY <4>1, <4>2
    <3>2. r \in Image
      BY <3>1 DEF Image
    <3> QED BY <2>0, <3>2
  <2>2. wal' = [wal EXCEPT !.end = mem.seq + k, !.rec = r]
    BY <1>4 DEF AppendWrite
  <2>3. wal' \in Log
    <3> HIDE DEF r
    <3> QED BY <2>1, <2>2 DEF Log
  <2> QED BY <1>4, <2>3 DEF AppendWrite, SameFile
<1>5. CASE AppendSync
  <2>1. wal' \in Log
    BY <1>5, LogForms DEF AppendSync, Log
  <2>2. mem' \in Applied
    BY <1>5 DEF AppendSync, Applied, Log, Image, Numbers
  <2> QED BY <1>5, <2>1, <2>2 DEF AppendSync, NamesCommitted
<1>6. CASE CheckpointRename
  BY <1>6 DEF CheckpointRename, Checkpoint, Applied
<1>7. CASE CheckpointDirSync
  BY <1>7 DEF CheckpointDirSync, NamesCommitted
<1>8. CASE RotateRename
  BY <1>8 DEF RotateRename, FreshLog, Empty, Log, Applied, Image, Numbers
<1>9. CASE RotateDirSync
  BY <1>9 DEF RotateDirSync, NamesCommitted
<1>10. CASE IOError
  BY <1>10 DEF IOError, disk
<1>11. CASE Kill
  <2>1. CASE step = "written"
    <3>1. PICK n \in mem.seq..wal.end : wal' = Cut(wal, n) /\ SameFile(wal')
      BY <1>11, <2>1 DEF Kill
    <3>2. n \in 0..MaxSeq
      BY DEF Applied, Log
    <3>3. wal' \in Log
      BY <3>1, <3>2, LogForms
    <3> QED BY <1>11, <3>1, <3>3 DEF Kill, SameFile
  <2> QED BY <1>11, <2>1 DEF Kill
<1>12. CASE PowerLoss
  <2>1. PICK w \in {wal, walOld} : \E n \in w.synced..w.end :
                   wal' = [Cut(w, n) EXCEPT !.synced = n] /\ walOld' = wal'
    BY <1>12 DEF PowerLoss
  <2>2. PICK n \in w.synced..w.end : wal' = [Cut(w, n) EXCEPT !.synced = n] /\ walOld' = wal'
    BY <2>1
  <2>3. w \in Log /\ n \in 0..MaxSeq
    BY DEF Log
  <2>4. wal' \in Log
    BY <2>2, <2>3, LogForms
  <2> QED BY <1>12, <2>2, <2>4 DEF PowerLoss
<1>13. CASE UNCHANGED vars
  BY <1>13 DEF vars
<1> QED
  BY <1>1, <1>2, <1>3, <1>4, <1>5, <1>6, <1>7, <1>8, <1>9, <1>10, <1>11, <1>12, <1>13 DEF Next

\* Spec keeps every variable in its type.
THEOREM TypeCorrect == Spec => []TypeOK
<1>1. Init => TypeOK
  BY WALConstants DEF Init, TypeOK, Nothing, NoCheckpoint, NoLog, Empty, Applied, Checkpoint,
     Log, Image, Numbers
<1> QED BY <1>1, TypeStep, PTL DEF Spec

-----------------------------------------------------------------------------
\* Each step of appendEvents, checkpointLocked, replaceWAL and openDurable, and
\* each crash between them, preserves the inductive invariant.
LEMMA InvStep == IInv /\ [Next]_vars => IInv'
<1> SUFFICES ASSUME IInv, [Next]_vars PROVE IInv'
  OBVIOUS
<1>t. TypeOK'
  BY TypeStep DEF IInv
<1>n. /\ mem.seq \in Nat /\ wal.end \in Nat /\ wal.synced \in Nat /\ ckpt.seq \in Nat
      /\ walOld.end \in Nat /\ walOld.synced \in Nat /\ ckptOld.seq \in Nat
      /\ promised.seq \in Nat /\ promised.seq <= MaxSeq /\ MaxSeq \in Nat
      /\ mem.seq <= MaxSeq /\ wal.end <= MaxSeq /\ ckpt.seq <= MaxSeq
  BY WALConstants DEF IInv, TypeOK, Applied, Log, Checkpoint
<1>h. PromisesKept /\ DiskKeeps /\ Mirrored /\ Phases
  BY DEF IInv
<1>1. CASE Open
  <2>1. /\ mem'.seq = IF wal.end > ckpt.seq THEN wal.end ELSE ckpt.seq
        /\ \A i \in Numbers : mem'.img[i] = IF i <= ckpt.seq THEN ckpt.img[i]
                               ELSE IF i <= wal.end THEN wal.rec[i] ELSE NoEvent
    BY <1>1 DEF Open, Replayed
  <2>2. /\ wal'.rec = wal.rec /\ wal'.end = wal.end /\ wal'.synced \in {wal.synced, wal.end}
        /\ wal'.exists
    BY <1>1 DEF Open, IInv, TypeOK, Log
  <2>3. /\ walOld' \in {walOld, wal'} /\ ckptOld' \in {ckpt, ckptOld}
        /\ ckpt' = ckpt /\ promised' = promised /\ step' = step /\ mode' = "up"
    BY <1>1 DEF Open, NamesCommitted
  <2>4. PromisesKept'
    BY <1>n, <1>h, <2>1, <2>3 DEF PromisesKept, Agree, DiskKeeps, Holds, Phases, Numbers
  <2>5. Mirrored'
    BY <1>n, <2>1, <2>2, <2>3 DEF Mirrored, Holds, Numbers
  <2>6. DiskKeeps'
    BY <1>n, <1>h, <2>2, <2>3 DEF DiskKeeps, Holds, Phases
  <2>7. Phases'
    BY <1>n, <1>h, <1>1, <2>1, <2>2, <2>3 DEF Phases, Open
  <2> QED BY <1>t, <2>4, <2>5, <2>6, <2>7 DEF IInv
<1>2. CASE OpenFresh
  <2>1. /\ mem'.seq = 0 /\ ckpt.seq = 0 /\ wal'.exists
        /\ wal'.synced = 0 /\ wal'.end = 0
    BY <1>2, <1>h DEF OpenFresh, Accepts, Nothing, FreshLog, Phases
  <2>2. wal.synced = 0
    BY <1>2, <1>n, <1>h DEF OpenFresh, Phases
  <2>3. promised.seq = 0
    BY <1>n, <1>h, <2>1, <2>2 DEF DiskKeeps, Holds
  <2>4. PromisesKept' /\ DiskKeeps' /\ Mirrored'
    BY <1>2, <1>n, <2>1, <2>3 DEF OpenFresh, PromisesKept, Agree, DiskKeeps, Mirrored, Holds
  <2>5. Phases'
    BY <1>2, <1>n, <1>h, <2>1 DEF OpenFresh, Phases
  <2> QED BY <1>t, <2>4, <2>5 DEF IInv
<1>3. CASE OpenRefused
  BY <1>3, <1>t, <1>h DEF OpenRefused, disk, IInv, PromisesKept, DiskKeeps, Mirrored, Phases, Holds
<1>4. ASSUME NEW k \in 1..MaxBatch, NEW batch \in [1..k -> Events], AppendWrite(k, batch)
      PROVE  IInv'
  <2>1. /\ wal'.end = mem.seq + k /\ wal'.synced = wal.synced /\ wal'.exists = wal.exists
        /\ \A i \in Numbers : i <= mem.seq => wal'.rec[i] = wal.rec[i]
    BY <1>4, <1>n DEF AppendWrite, IInv, TypeOK, Log, Numbers
  <2>2. walOld' \in {walOld, wal'}
    BY <1>4 DEF AppendWrite, SameFile
  <2>3. /\ mem' = mem /\ ckpt' = ckpt /\ ckptOld' = ckptOld /\ promised' = promised
        /\ mode' = mode /\ mode = "up" /\ step' = "written" /\ k \in Nat
    BY <1>4 DEF AppendWrite
  <2>4. PromisesKept'
    BY <1>h, <2>3 DEF PromisesKept, Agree
  <2>5. DiskKeeps'
    <3>1. promised.seq <= mem.seq /\ \A i \in 1..promised.seq : wal'.rec[i] = wal.rec[i]
      BY <1>n, <1>h, <2>1, <2>3 DEF PromisesKept, Numbers
    <3>2. \A c \in {ckpt, ckptOld} : Holds(c, wal', wal'.synced, promised.img, promised.seq)
      BY <1>n, <1>h, <2>1, <3>1 DEF DiskKeeps, Holds
    <3> QED BY <1>h, <2>2, <2>3, <3>2 DEF DiskKeeps
  <2>6. Mirrored'
    BY <1>n, <1>h, <2>1, <2>3 DEF Mirrored, Holds, Numbers
  <2>7. Phases'
    <3>1. wal.synced <= mem.seq
      BY <1>4, <1>n, <1>h DEF Phases, AppendWrite
    <3> QED BY <1>n, <1>h, <2>1, <2>2, <2>3, <3>1 DEF Phases, Mirrored
  <2> QED BY <1>t, <2>4, <2>5, <2>6, <2>7 DEF IInv
<1>5. CASE AppendSync
  <2>1. /\ wal'.end = wal.end /\ wal'.synced = wal.end /\ wal'.exists = wal.exists
        /\ wal'.rec = wal.rec
    BY <1>5 DEF AppendSync, IInv, TypeOK, Log
  <2>2. /\ walOld' = wal' /\ ckptOld' = ckpt /\ ckpt' = ckpt /\ promised' = mem'
        /\ mode' = "up" /\ step' = "idle" /\ mode = "up" /\ step = "written"
    BY <1>5 DEF AppendSync, NamesCommitted
  <2>3. /\ mem'.seq = wal.end
        /\ \A i \in Numbers : mem'.img[i] = IF i <= mem.seq THEN mem.img[i] ELSE wal.rec[i]
    BY <1>5 DEF AppendSync
  <2>4. mem.seq <= wal.end /\ ckpt.seq <= mem.seq
    BY <1>h, <2>2 DEF Phases, Mirrored
  <2>5. Holds(ckpt, wal, wal.end, mem'.img, mem'.seq)
    BY <1>n, <1>h, <2>2, <2>3, <2>4 DEF Mirrored, Holds, Numbers
  <2>6. PromisesKept'
    BY <1>n, <2>2, <2>3 DEF PromisesKept, Agree
  <2>7. DiskKeeps' /\ Mirrored'
    BY <1>n, <1>h, <2>1, <2>2, <2>3, <2>4, <2>5 DEF DiskKeeps, Mirrored, Holds
  <2>8. Phases'
    BY <1>n, <1>h, <2>1, <2>2, <2>3 DEF Phases
  <2> QED BY <1>t, <2>6, <2>7, <2>8 DEF IInv
<1>6. CASE CheckpointRename
  <2>1. /\ ckpt'.exists /\ ckpt'.seq = mem.seq /\ ckpt'.img = mem.img
        /\ ckptOld' = ckpt /\ walOld' = wal /\ wal' = wal /\ mem' = mem
        /\ promised' = promised /\ mode' = "up" /\ mode = "up" /\ step = "idle"
        /\ step' = "ckptRenamed"
    BY <1>6 DEF CheckpointRename
  <2>2. PromisesKept' /\ Mirrored'
    BY <1>n, <1>h, <2>1 DEF PromisesKept, Agree, Mirrored, Holds
  <2>3. DiskKeeps'
    BY <1>n, <1>h, <2>1 DEF PromisesKept, Agree, DiskKeeps, Holds
  <2>4. Phases'
    BY <1>h, <2>1 DEF Phases
  <2> QED BY <1>t, <2>2, <2>3, <2>4 DEF IInv
<1>7. CASE CheckpointDirSync
  <2>1. PromisesKept' /\ Mirrored' /\ DiskKeeps'
    BY <1>7, <1>h DEF CheckpointDirSync, NamesCommitted, PromisesKept, Agree, Mirrored, DiskKeeps, Holds
  <2>2. Phases'
    BY <1>7, <1>h DEF CheckpointDirSync, NamesCommitted, Phases
  <2> QED BY <1>t, <2>1, <2>2 DEF IInv
<1>8. CASE RotateRename
  <2>1. /\ wal'.exists /\ wal'.end = mem.seq /\ wal'.synced = mem.seq
        /\ ckptOld' = ckpt /\ walOld' = wal /\ ckpt' = ckpt /\ mem' = mem
        /\ promised' = promised /\ mode' = "up" /\ mode = "up" /\ step = "ckptSynced"
        /\ step' = "walRenamed"
    BY <1>8, <1>h DEF RotateRename, FreshLog, Phases
  <2>2. ckpt.seq = mem.seq /\ ckpt.img = mem.img
    BY <1>h, <2>1 DEF Phases
  <2>3. PromisesKept' /\ Mirrored'
    BY <1>n, <1>h, <2>1, <2>2 DEF PromisesKept, Agree, Mirrored, Holds
  <2>4. DiskKeeps'
    BY <1>n, <1>h, <2>1, <2>2 DEF PromisesKept, Agree, DiskKeeps, Holds
  <2>5. Phases'
    BY <1>n, <1>h, <2>1 DEF Phases
  <2> QED BY <1>t, <2>3, <2>4, <2>5 DEF IInv
<1>9. CASE RotateDirSync
  <2>1. PromisesKept' /\ Mirrored'
    BY <1>9, <1>h DEF RotateDirSync, NamesCommitted, PromisesKept, Agree, Mirrored
  <2>2. DiskKeeps'
    BY <1>9, <1>h DEF RotateDirSync, NamesCommitted, DiskKeeps, Holds
  <2>3. Phases'
    BY <1>9, <1>h DEF RotateDirSync, NamesCommitted, Phases
  <2> QED BY <1>t, <2>1, <2>2, <2>3 DEF IInv
<1>10. CASE IOError
  BY <1>10, <1>t, <1>h DEF IOError, disk, IInv, PromisesKept, DiskKeeps, Mirrored, Phases, Holds
<1>11. CASE Kill
  <2>1. /\ mode' = "down" /\ step' = "idle" /\ mem' = mem /\ ckpt' = ckpt /\ ckptOld' = ckptOld
        /\ promised' = promised
    BY <1>11 DEF Kill
  <2>2. /\ wal'.exists = wal.exists /\ wal'.synced = wal.synced
        /\ wal'.synced <= wal'.end /\ wal'.end \in Nat /\ wal'.end <= wal.end
        /\ \A i \in Numbers : i <= wal'.end => wal'.rec[i] = wal.rec[i]
        /\ walOld' \in {walOld, wal'}
    <3>1. CASE step = "written"
      <4>1. PICK n \in mem.seq..wal.end : wal' = Cut(wal, n) /\ SameFile(wal')
        BY <1>11, <3>1 DEF Kill
      <4> QED BY <1>n, <1>h, <3>1, <4>1 DEF Cut, SameFile, Phases, IInv, TypeOK, Log
    <3>2. CASE step # "written"
      BY <1>11, <1>n, <1>h, <3>2 DEF Kill, Phases
    <3> QED BY <3>1, <3>2
  <2>3. DiskKeeps'
    BY <1>n, <1>h, <2>1, <2>2 DEF DiskKeeps, Holds, Numbers
  <2>4. PromisesKept' /\ Mirrored'
    BY <2>1 DEF PromisesKept, Mirrored
  <2>5. Phases'
    BY <1>n, <1>h, <2>1, <2>2 DEF Phases
  <2> QED BY <1>t, <2>3, <2>4, <2>5 DEF IInv
<1>12. CASE PowerLoss
  <2>1. /\ mode' = "down" /\ step' = "idle" /\ mem' = mem /\ promised' = promised
        /\ ckpt' \in {ckpt, ckptOld} /\ ckptOld' = ckpt' /\ walOld' = wal'
    BY <1>12 DEF PowerLoss
  <2>2. PICK w \in {wal, walOld} : \E n \in w.synced..w.end : wal' = [Cut(w, n) EXCEPT !.synced = n]
    BY <1>12 DEF PowerLoss
  <2>3. PICK n \in w.synced..w.end : wal' = [Cut(w, n) EXCEPT !.synced = n]
    BY <2>2
  <2>4. w \in Log /\ w.synced \in Nat /\ w.end \in Nat /\ n \in Nat
    BY <1>n DEF IInv, TypeOK
  <2>5. /\ wal'.exists = w.exists /\ wal'.synced = n /\ wal'.end = n
        /\ \A i \in Numbers : i <= n => wal'.rec[i] = w.rec[i]
    BY <2>3, <2>4 DEF Cut, Log
  <2>6. Holds(ckpt', w, w.synced, promised.img, promised.seq)
    BY <1>h, <2>1 DEF DiskKeeps
  <2>7. Holds(ckpt', wal', wal'.synced, promised.img, promised.seq)
    BY <1>n, <2>1, <2>4, <2>5, <2>6 DEF Holds, Numbers
  <2>8. DiskKeeps'
    BY <2>1, <2>7 DEF DiskKeeps
  <2>9. PromisesKept' /\ Mirrored'
    BY <2>1 DEF PromisesKept, Mirrored
  <2>10. Phases'
    BY <1>h, <2>1, <2>4, <2>5 DEF Phases
  <2> QED BY <1>t, <2>8, <2>9, <2>10 DEF IInv
<1>13. CASE UNCHANGED vars
  BY <1>13, <1>t, <1>h DEF vars, IInv, PromisesKept, Agree, DiskKeeps, Mirrored, Phases, Holds
<1> QED
  BY <1>1, <1>2, <1>3, <1>4, <1>5, <1>6, <1>7, <1>8, <1>9, <1>10, <1>11, <1>12, <1>13 DEF Next

\* For every number of events, batch size and mix of kills and power failures,
\* a running store holds every event whose fsync appendEvents reported.
THEOREM PromisesAlwaysKept == Spec => []PromisesKept
<1>1. Init => IInv
  <2> SUFFICES ASSUME Init PROVE IInv
    OBVIOUS
  <2>1. TypeOK
    BY WALConstants DEF Init, TypeOK, Nothing, NoCheckpoint, NoLog, Empty, Applied, Checkpoint,
       Log, Image, Numbers
  <2>2. PromisesKept /\ DiskKeeps /\ Mirrored /\ Phases
    BY DEF Init, PromisesKept, DiskKeeps, Mirrored, Phases, Holds, Nothing, NoCheckpoint, NoLog
  <2> QED BY <2>1, <2>2 DEF IInv
<1>2. IInv => PromisesKept
  BY DEF IInv
<1> QED BY <1>1, <1>2, InvStep, PTL DEF Spec
=============================================================================
