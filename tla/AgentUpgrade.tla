---------------------------- MODULE AgentUpgrade ----------------------------
(***************************************************************************)
(* Remote upgrade of one Agent: the panel's operation queue, the worker's  *)
(* control loop (internal/agent/operations.go), and the supervisor that    *)
(* swaps the executable and keeps the previous one until the replacement   *)
(* has proved itself (internal/agent/upgrade.go).                          *)
(*                                                                         *)
(* Every operation targets the one signed release "new"; the node starts   *)
(* with "old".  A file write of the source is a rename followed by a       *)
(* directory sync and is one durable step here.  Removals are durable only *)
(* after the next sync of the directory: `undo' holds what a power failure *)
(* may bring back.                                                         *)
(***************************************************************************)
EXTENDS Naturals, Sequences, FiniteSets

CONSTANTS MaxOps,      \* operations created for the node
          MaxClaims,   \* claims the panel issues
          MaxCrashes   \* kills and power failures of the node

VARIABLES ops,      \* panel: cp_node_operations of the node, oldest first
          issued,   \* panel: claims handed out so far
          host,     \* executable, backups, journal, .result and .health
          undo,     \* removed files whose removal is not yet synced
          sup,      \* the supervisor: where it is, and whether it tests a candidate
          work,     \* the worker process and its control loop
          crashes,  \* bound
          proven,   \* ghost: the executable installed last completed a real cycle
          installs  \* ghost: how often each operation replaced the executable

vars  == <<ops, issued, host, undo, sup, work, crashes, proven, installs>>
panel == <<ops, issued>>
files == <<host, undo>>
ghost == <<crashes, proven, installs>>

NoFile == [op |-> 0]
Present(file) == file.op # 0
Journal(job, phase) == [op |-> job.op, claim |-> job.claim, phase |-> phase]
Result(job, status) == [op |-> job.op, claim |-> job.claim, status |-> status]
Phase(p) == Present(host.journal) /\ host.journal.phase = p

NoUndo == [journal |-> NoFile, result |-> NoFile]
Down   == [pc |-> "down", version |-> "none", current |-> NoFile,
           stage |-> "idle", finished |-> NoFile, result |-> NoFile]
Fresh(version) == [Down EXCEPT !.pc = "report", !.version = version]
At(pc) == [pc |-> pc, candidate |-> FALSE, status |-> "none"]

Init ==
  /\ ops = <<>>
  /\ issued = 0
  /\ host = [bin |-> "old", next |-> "none", previous |-> "none",
             journal |-> NoFile, result |-> NoFile, health |-> 0]
  /\ undo = NoUndo
  /\ sup = At("boot")
  /\ work = Down
  /\ crashes = 0
  /\ proven = FALSE
  /\ installs = [k \in 1..MaxOps |-> 0]
-----------------------------------------------------------------------------
(* The panel's queue. *)

NewOperation(automatic) ==
  [status |-> "pending", claim |-> 0, automatic |-> automatic]

Waiting(op) == op.status \in {"pending", "running"}

\* Time is read where the panel reads it: `lapsed' are the operations whose ten
\* minutes are over at that moment.
Expired(o, lapsed) ==
  [k \in DOMAIN o |-> IF Waiting(o[k]) /\ k \in lapsed
                      THEN [o[k] EXCEPT !.status = "expired"] ELSE o[k]]

\* An administrator requests an upgrade: lapsed requests are closed first, and
\* none may then be open.
CreateOperation(lapsed) ==
  /\ Len(ops) < MaxOps
  /\ LET closed == Expired(ops, lapsed)
     IN  /\ \A k \in DOMAIN closed : ~Waiting(closed[k])
         /\ ops' = Append(closed, NewOperation(FALSE))
  /\ UNCHANGED <<issued, files, sup, work, ghost>>

\* The rollout retries a failed or expired attempt, three times in all, and
\* leaves a node alone that has any unexpired operation.  The version last
\* reported by the node and the retry delay are left open.
EnqueueAutomatic(lapsed) ==
  LET attempts == {k \in DOMAIN ops : ops[k].automatic}
  IN  /\ Len(ops) < MaxOps
      /\ Cardinality(attempts) < 3
      /\ \A k \in attempts : (\A j \in attempts : j <= k)
                               => ops[k].status \in {"failed", "expired"}
      /\ \A k \in DOMAIN ops :
           Waiting(ops[k]) \/ ops[k].status = "staged" => k \in lapsed
      /\ ops' = Append(ops, NewOperation(TRUE))
      /\ UNCHANGED <<issued, files, sup, work, ghost>>

CancelOperation(k) ==
  /\ Waiting(ops[k])
  /\ ops' = [ops EXCEPT ![k].status = "cancelled"]
  /\ UNCHANGED <<issued, files, sup, work, ghost>>

\* What POST /agent/control/result does with a result: whether it answers 2xx,
\* and the operations afterwards.
Accepts(o, r) ==
  /\ o[r.op].claim # 0 /\ o[r.op].claim = r.claim
  /\ \/ o[r.op].status \in {r.status, "cancelled", "expired", "running"}
     \/ o[r.op].status = "staged" /\ r.status \in {"succeeded", "rolled_back"}

AfterResult(o, r) ==
  IF Accepts(o, r) /\ o[r.op].status \in {"running", "staged"}
  THEN [o EXCEPT ![r.op].status = r.status] ELSE o

\* POST /agent/control: claims of which nothing was heard for thirty seconds go
\* back to the queue, operations that lapsed or lost their authorisation
\* expire, and the first one still pending is handed out under a new claim.
Requeued(o, quiet) ==
  [k \in DOMAIN o |-> IF o[k].status = "running" /\ k \in quiet
                      THEN [o[k] EXCEPT !.status = "pending", !.claim = 0] ELSE o[k]]

Handed(o) ==
  LET able == {k \in DOMAIN o : o[k].status = "pending"}
  IN  {k \in able : \A j \in able : k <= j}

Claimed(o) ==
  [k \in DOMAIN o |-> IF k \in Handed(o)
                      THEN [o[k] EXCEPT !.status = "running", !.claim = issued + 1]
                      ELSE o[k]]
-----------------------------------------------------------------------------
(* The worker's control loop.  A request is lost before the panel sees it  *)
(* ("lost"), answered but the answer lost ("unheard"), or answered.        *)

Fates == {"lost", "unheard", "heard"}

\* The first thing of every round: tell the panel the stored outcome, and
\* remove the file once the panel took it.
Report(fate) ==
  /\ work.pc = "report"
  /\ work' = [work EXCEPT !.pc = "result"]
  /\ IF ~Present(host.result) THEN fate = "lost" /\ UNCHANGED <<panel, files>>
     ELSE /\ ops' = IF fate = "lost" THEN ops ELSE AfterResult(ops, host.result)
          /\ IF fate = "heard" /\ Accepts(ops, host.result)
             THEN /\ host' = [host EXCEPT !.result = NoFile]
                  /\ undo' = [undo EXCEPT !.result = host.result]
             ELSE UNCHANGED files
          /\ UNCHANGED issued
  /\ UNCHANGED <<sup, ghost>>

\* Then the outcome of the last task; a staged upgrade that the panel took ends
\* the worker, so that the supervisor can replace it.
PostResult(fate) ==
  /\ work.pc = "result"
  /\ IF ~Present(work.result)
     THEN /\ fate = "lost"
          /\ work' = [work EXCEPT !.pc = "control"] /\ UNCHANGED ops
     ELSE /\ ops' = IF fate = "lost" THEN ops ELSE AfterResult(ops, work.result)
          /\ work' = IF fate = "heard" /\ Accepts(ops, work.result)
                     THEN IF work.result.status = "staged" THEN Down
                          ELSE [work EXCEPT !.pc = "control", !.result = NoFile]
                     ELSE [work EXCEPT !.pc = "control"]
  /\ UNCHANGED <<issued, files, sup, ghost>>

\* Then the poll.  An operation handed out while a task or a result is pending
\* is answered "failed" at once (`told': that answer arrives); otherwise its
\* task starts.
Poll(quiet, lapsed, heard, told) ==
  LET queue == Expired(Requeued(ops, quiet), lapsed)
      given == Handed(queue)
      job(k) == [op |-> k, claim |-> issued + 1]
      ready == ~Present(work.current) /\ ~Present(work.result)
      started == {k \in given : heard /\ ready}
      refused == {k \in given : heard /\ ~ready /\ k # work.current.op}
  IN  /\ work.pc = "control"
      /\ given # {} => issued < MaxClaims
      /\ told => refused # {}
      /\ ops' = IF told
                THEN AfterResult(Claimed(queue), Result(job(CHOOSE k \in refused : TRUE), "failed"))
                ELSE Claimed(queue)
      /\ issued' = issued + Cardinality(given)
      /\ work' = IF started = {} THEN [work EXCEPT !.pc = "wait"]
                 ELSE [work EXCEPT !.pc = "wait", !.stage = "check",
                                   !.current = job(CHOOSE k \in started : TRUE)]
      /\ UNCHANGED <<files, sup, ghost>>

PollLost ==
  /\ work.pc = "control"
  /\ work' = [work EXCEPT !.pc = "wait"]
  /\ UNCHANGED <<panel, files, sup, ghost>>

\* The round ends when the task finishes or the ticker fires.
Collect ==
  /\ work.pc = "wait" /\ Present(work.finished)
  /\ work' = [work EXCEPT !.pc = "report", !.current = NoFile,
                          !.finished = NoFile, !.result = work.finished]
  /\ UNCHANGED <<panel, files, sup, ghost>>

Tick ==
  /\ work.pc = "wait"
  /\ work' = [work EXCEPT !.pc = "report"]
  /\ UNCHANGED <<panel, files, sup, ghost>>
-----------------------------------------------------------------------------
(* The upgrade task of the worker, and its health report. *)

Finish(status) ==
  work' = [work EXCEPT !.stage = "idle", !.finished = Result(work.current, status)]

\* Stage refuses the version it runs, a pending journal and an unreported
\* result; download and verification may fail, also because of cancellation.
StageBlocked ==
  \/ work.version = "new" \/ Present(host.journal) \/ Present(host.result)

StageCheck ==
  /\ work.stage = "check"
  /\ IF StageBlocked THEN Finish("failed")
                     ELSE work' = [work EXCEPT !.stage = "download"]
  /\ UNCHANGED <<panel, files, sup, ghost>>

StageFails ==
  /\ work.stage = "download"
  /\ Finish("failed")
  /\ UNCHANGED <<panel, files, sup, ghost>>

StageDownload ==
  /\ work.stage = "download"
  /\ host' = [host EXCEPT !.next = "new"]
  /\ work' = [work EXCEPT !.stage = "save"]
  /\ UNCHANGED <<panel, undo, sup, ghost>>

StageSave ==
  /\ work.stage = "save"
  /\ host' = [host EXCEPT !.journal = Journal(work.current, "staged")]
  /\ undo' = NoUndo
  /\ Finish("staged")
  /\ UNCHANGED <<panel, sup, ghost>>

\* After a full configuration, acknowledgement, usage and probe cycle.
Healthy ==
  /\ work.pc # "down" /\ Phase("testing") /\ work.version = "new"
  /\ host.health # host.journal.op
  /\ host' = [host EXCEPT !.health = host.journal.op]
  /\ undo' = NoUndo
  /\ proven' = TRUE
  /\ UNCHANGED <<panel, sup, work, crashes, installs>>

WorkerDies ==
  /\ work.pc # "down"
  /\ work' = Down
  /\ UNCHANGED <<panel, files, sup, ghost>>
-----------------------------------------------------------------------------
(* The supervisor. *)

Goto(pc) == sup' = At(pc)

\* Mutation: only a candidate under test is undone at start.
BootTestingOnly ==
  /\ sup.pc = "boot"
  /\ Goto(IF Phase("testing") THEN "restore" ELSE "load")
  /\ UNCHANGED <<panel, files, work, ghost>>

\* A replacement that was interrupted is undone before anything is started.
Boot ==
  /\ sup.pc = "boot"
  /\ Goto(IF Phase("installing") \/ Phase("testing") THEN "restore" ELSE "load")
  /\ UNCHANGED <<panel, files, work, ghost>>

Load ==
  /\ sup.pc = "load"
  /\ Goto(IF ~Present(host.journal) THEN "exec"
          ELSE IF Phase("staged") THEN "backup" ELSE "off")
  /\ UNCHANGED <<panel, files, work, ghost>>

\* install: back up, mark, replace, mark.
Backup ==
  /\ sup.pc = "backup"
  /\ host' = [host EXCEPT !.previous = host.bin]
  /\ Goto("mark")
  /\ UNCHANGED <<panel, undo, work, ghost>>

MarkInstalling ==
  /\ sup.pc = "mark"
  /\ host' = [host EXCEPT !.journal.phase = "installing"]
  /\ undo' = NoUndo
  /\ Goto("replace")
  /\ UNCHANGED <<panel, work, ghost>>

Replace ==
  /\ sup.pc = "replace"
  /\ host' = [host EXCEPT !.bin = host.next, !.next = "none"]
  /\ installs' = [installs EXCEPT ![host.journal.op] = @ + 1]
  /\ proven' = FALSE
  /\ Goto("test")
  /\ UNCHANGED <<panel, undo, work, crashes>>

MarkTesting ==
  /\ sup.pc = "test"
  /\ host' = [host EXCEPT !.journal.phase = "testing"]
  /\ undo' = NoUndo
  /\ sup' = [At("exec") EXCEPT !.candidate = TRUE]
  /\ UNCHANGED <<panel, work, ghost>>

\* A step of install fails: before "installing" is on disk the upgrade has
\* failed, afterwards it is rolled back.
InstallFails ==
  /\ sup.pc \in {"backup", "mark", "replace", "test"}
  /\ sup' = IF Phase("staged") THEN [At("settle") EXCEPT !.status = "failed"]
                               ELSE At("restore")
  /\ UNCHANGED <<panel, files, work, ghost>>

Exec ==
  /\ sup.pc = "exec"
  /\ work' = Fresh(host.bin)
  /\ sup' = [sup EXCEPT !.pc = "run"]
  /\ UNCHANGED <<panel, files, ghost>>

ExecFails ==
  /\ sup.pc = "exec"
  /\ Goto(IF sup.candidate THEN "restore" ELSE "off")
  /\ UNCHANGED <<panel, files, work, ghost>>

\* The worker has exited.  Without a candidate the loop goes on, or the
\* supervisor ends and its service manager starts it again: both load anew.
WorkerGone ==
  /\ sup.pc = "run" /\ work.pc = "down"
  /\ Goto(IF sup.candidate THEN "restore" ELSE "boot")
  /\ UNCHANGED <<panel, files, work, ghost>>

\* Sixty seconds, or the supervisor is asked to stop, before the candidate
\* reported healthy.
Deadline ==
  /\ sup.pc = "run" /\ sup.candidate
  /\ work' = Down
  /\ Goto("restore")
  /\ UNCHANGED <<panel, files, ghost>>

SeesHealth ==
  /\ sup.pc = "run" /\ sup.candidate
  /\ Present(host.journal) /\ host.health = host.journal.op
  /\ sup' = [At("settle") EXCEPT !.status = "succeeded"]
  /\ UNCHANGED <<panel, files, work, ghost>>

\* Mutation: an error while the backup is copied back is not noticed.
RestoreSkipped ==
  /\ sup.pc = "restore"
  /\ sup' = [At("settle") EXCEPT !.status = "rolled_back"]
  /\ UNCHANGED <<panel, files, work, ghost>>

Restore ==
  /\ sup.pc = "restore"
  /\ host' = [host EXCEPT !.bin = host.previous]
  /\ sup' = [At("settle") EXCEPT !.status = "rolled_back"]
  /\ UNCHANGED <<panel, undo, work, ghost>>

\* finish: record the outcome, remove the journal, sync the removal.
WriteResult ==
  /\ sup.pc = "settle"
  /\ host' = [host EXCEPT !.result = Result(host.journal, sup.status)]
  /\ undo' = NoUndo
  /\ sup' = [sup EXCEPT !.pc = "unlink"]
  /\ UNCHANGED <<panel, work, ghost>>

RemoveJournal ==
  /\ sup.pc = "unlink"
  /\ host' = [host EXCEPT !.journal = NoFile, !.health = 0]
  /\ undo' = [undo EXCEPT !.journal = host.journal]
  /\ sup' = [sup EXCEPT !.pc = "sync"]
  /\ UNCHANGED <<panel, work, ghost>>

SyncRemoval ==
  /\ sup.pc = "sync"
  /\ undo' = NoUndo
  /\ Goto(IF sup.status = "succeeded" THEN "run" ELSE "load")
  /\ UNCHANGED <<panel, host, work, ghost>>

\* The supervisor ended or was killed; its service manager starts it again.
Restart ==
  /\ sup.pc = "off"
  /\ Goto("boot")
  /\ UNCHANGED <<panel, files, work, ghost>>

\* A kill of the unit keeps the files as they are; a power failure may also
\* bring back files whose removal was not synced.
Crash(back) ==
  /\ crashes < MaxCrashes
  /\ sup.pc # "off"
  /\ \A f \in back : Present(undo[f])
  /\ host' = [host EXCEPT
                !.journal = IF "journal" \in back THEN undo.journal ELSE @,
                !.result  = IF "result"  \in back THEN undo.result  ELSE @]
  /\ undo' = [f \in DOMAIN undo |-> IF f \in back THEN NoFile ELSE undo[f]]
  /\ Goto("off")
  /\ work' = Down
  /\ crashes' = crashes + 1
  /\ UNCHANGED <<panel, proven, installs>>
-----------------------------------------------------------------------------
Panel ==
  \/ \E lapsed \in SUBSET DOMAIN ops : CreateOperation(lapsed) \/ EnqueueAutomatic(lapsed)
  \/ \E k \in DOMAIN ops : CancelOperation(k)

Worker ==
  \/ \E fate \in Fates : Report(fate) \/ PostResult(fate)
  \/ \E quiet, lapsed \in SUBSET {k \in DOMAIN ops : Waiting(ops[k])}, heard, told \in BOOLEAN :
       Poll(quiet, lapsed, heard, told)
  \/ PollLost \/ Collect \/ Tick
  \/ StageCheck \/ StageFails \/ StageDownload \/ StageSave
  \/ Healthy \/ WorkerDies

Install == Backup \/ MarkInstalling \/ Replace \/ MarkTesting \/ InstallFails
Settle  == Restore \/ WriteResult \/ RemoveJournal \/ SyncRemoval
Watch   == Exec \/ ExecFails \/ WorkerGone \/ Deadline \/ SeesHealth

Supervisor == Boot \/ Load \/ Install \/ Watch \/ Settle \/ Restart

Next == Panel \/ Worker \/ Supervisor \/ \E back \in SUBSET DOMAIN undo : Crash(back)

Spec == Init /\ [][Next]_vars

\* The supervisor is a process of its own: it keeps running when it can, is
\* restarted by its service manager, and its timer fires.
FairSpec == Spec /\ WF_vars(Supervisor)
-----------------------------------------------------------------------------
Jobs == [op : 1..MaxOps, claim : 1..MaxClaims]
Journals == {NoFile} \cup [op : 1..MaxOps, claim : 1..MaxClaims,
                           phase : {"staged", "installing", "testing"}]
Results == {NoFile} \cup [op : 1..MaxOps, claim : 1..MaxClaims,
                          status : {"failed", "staged", "succeeded", "rolled_back"}]
OpStates == {"pending", "running", "staged", "succeeded", "failed",
             "rolled_back", "cancelled", "expired"}

\* Every variable keeps its type; the steps of a replacement find the backup and
\* the journal they work with.
TypeOK ==
  /\ Len(ops) <= MaxOps
  /\ \A k \in DOMAIN ops :
       ops[k] \in [status : OpStates, claim : 0..MaxClaims, automatic : BOOLEAN]
  /\ issued \in 0..MaxClaims
  /\ host \in [bin : {"old", "new"}, next : {"none", "new"},
               previous : {"none", "old", "new"}, journal : Journals,
               result : Results, health : 0..MaxOps]
  /\ undo \in [journal : Journals, result : Results]
  /\ sup.candidate \in BOOLEAN
  /\ work.version \in {"none", "old", "new"}
  /\ work.current \in {NoFile} \cup Jobs
  /\ work.finished \in Results /\ work.result \in Results
  /\ crashes \in 0..MaxCrashes /\ proven \in BOOLEAN
  /\ sup.pc \in {"mark", "replace", "test", "restore"}
       => Present(host.journal) /\ host.previous # "none"

\* An executable is only left in place without a journal entry watching over it
\* if the previous one is still there or the new one completed a real
\* configuration and reporting cycle under the supervisor's eyes: no crash
\* between the steps of install, test and finish keeps an untried release.
UntriedNotKept ==
  host.bin = "new" /\ ~Present(host.journal) => proven

\* Once the journal is gone the stored outcome tells the truth about the
\* executable on disk, whatever crash interrupted the replacement or the
\* rollback.
OutcomeTrue ==
  Present(host.result) /\ ~Present(host.journal)
    => (host.bin = "new") = (host.result.status = "succeeded")

\* No operation replaces the executable twice, although the panel hands an
\* operation out again when its claim stays quiet and the request that reports
\* the outcome may be lost.
InstalledOnce == \A k \in DOMAIN installs : installs[k] <= 1

\* A replacement that has begun ends: the candidate proves itself or the
\* previous executable comes back, and the journal is cleared.
ReplacementEnds ==
  (Phase("installing") \/ Phase("testing")) ~> ~Present(host.journal)

\* The stored outcome is one the panel accepts, so that it is reported as soon
\* as the panel is reachable and the next upgrade can be staged.
OutcomeReportable == Present(host.result) => Accepts(ops, host.result)
=============================================================================
