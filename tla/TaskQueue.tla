------------------------------ MODULE TaskQueue ------------------------------
(***************************************************************************)
(* Rule import and export tasks (internal/platform/tasks.go). A task is a   *)
(* row of cp_tasks; several panel processes run the loop RunTasks over the  *)
(* one database. A worker takes back what went quiet, lists what waits,     *)
(* claims one row after the other and runs it. An import runs one           *)
(* transaction per rule, guarded by the claim, and leaves a checkpoint row  *)
(* in cp_task_items, so that another worker can go on where it stopped.     *)
(*                                                                         *)
(* The database is the one variable db: a transaction moves it from a value *)
(* to the next. Store.Write can return the caller's timeout while the       *)
(* transaction is still committing; late holds that transaction, which then *)
(* commits or rolls back before any other writes the rows it has locked.    *)
(***************************************************************************)
EXTENDS Naturals, FiniteSets

CONSTANTS
  Panels,      \* panel processes, each with one task loop
  Tasks,       \* task ids in the order of ORDER BY created_at, id
  Rules,       \* rules in an import: items 1..Rules
  MaxActive,   \* unfinished tasks a user may have (10 in the code)
  MaxCrashes,  \* bound: panel processes killed
  MaxEarly     \* bound: tasks that look abandoned while their worker lives

ASSUME RulesAreCounted == Rules \in Nat

VARIABLES
  db,       \* the rows: task, items, made (rules created per item), enabled (the owner), issued
  run,      \* per panel, the local variables of RunTasks
  late,     \* {} or the database after a transaction whose caller timed out
  crashes,
  early

vars == <<db, run, late, crashes, early>>

Items == 1..Rules
Results == {"none", "ok", "rejected", "listed"}
Ends == {"completed", "completed_with_errors", "failed", "canceled"}
Nothing == [i \in Items |-> "none"]
Listing == [i \in Items |-> "listed"]

Active(d) == {t \in Tasks : d.task[t].status \in {"pending", "running"}}
Idle == [pc |-> "idle", todo |-> {}, id |-> 0, claim |-> 0, item |-> 1, snap |-> Nothing, end |-> "failed"]

Init ==
  /\ db = [task |-> [t \in Tasks |-> [kind |-> "import", status |-> "absent", claim |-> 0,
                                      cancel |-> FALSE, result |-> Nothing, quiet |-> FALSE]],
           items |-> [t \in Tasks |-> Nothing],
           made |-> [t \in Tasks |-> [i \in Items |-> 0]],
           enabled |-> TRUE, issued |-> 0]
  /\ run = [w \in Panels |-> Idle]
  /\ late = {}
  /\ crashes = 0
  /\ early = 0

\* One transaction: nothing else writes while a late commit holds its rows.
Commit(d) == late = {} /\ db' = d
-----------------------------------------------------------------------------
(* What users do. *)

\* A key that exists gives back its task and changes nothing.
CreateTask(t) ==
  \E k \in {"import", "export"} :
     /\ db.enabled
     /\ db.task[t].status = "absent"
     /\ \A u \in Tasks : u < t => db.task[u].status # "absent"
     /\ Cardinality(Active(db)) < MaxActive
     /\ Commit([db EXCEPT !.task[t].kind = k, !.task[t].status = "pending"])
     /\ UNCHANGED <<run, late, crashes, early>>

CancelTask(t) ==
  /\ t \in Active(db)
  /\ ~db.task[t].cancel
  /\ Commit([db EXCEPT !.task[t].cancel = TRUE])
  /\ UNCHANGED <<run, late, crashes, early>>

\* The owner is disabled, or loses the role the task was created with.
Revoke ==
  /\ db.enabled
  /\ Active(db) # {}
  /\ Commit([db EXCEPT !.enabled = FALSE])
  /\ UNCHANGED <<run, late, crashes, early>>
-----------------------------------------------------------------------------
(* RunTasks *)

Held(t) == \E w \in Panels : run[w].pc # "idle" /\ run[w].id = t /\ run[w].claim = db.task[t].claim

\* Five minutes without an update of the row. The worker's own limit is four, so
\* a row whose worker lives goes quiet only when the end of the run is slow.
GoesQuiet(t) ==
  /\ db.task[t].status = "running"
  /\ ~db.task[t].quiet
  /\ Held(t) => early < MaxEarly
  /\ early' = IF Held(t) THEN early + 1 ELSE early
  /\ Commit([db EXCEPT !.task[t].quiet = TRUE])
  /\ UNCHANGED <<run, late, crashes>>

\* Mutation: only rows that lost their claim are put back.
ReclaimUnclaimed(w) ==
  /\ run[w].pc = "idle"
  /\ Commit([db EXCEPT !.task = [t \in Tasks |->
               IF @[t].status = "running" /\ @[t].quiet /\ @[t].claim = 0
               THEN [@[t] EXCEPT !.status = "pending", !.quiet = FALSE]
               ELSE @[t]]])
  /\ run' = [run EXCEPT ![w].pc = "list"]
  /\ UNCHANGED <<late, crashes, early>>

\* What went quiet is put back in the queue and its claim is dropped.
Reclaim(w) ==
  /\ run[w].pc = "idle"
  /\ Commit([db EXCEPT !.task = [t \in Tasks |->
               IF @[t].status = "running" /\ @[t].quiet
               THEN [@[t] EXCEPT !.status = "pending", !.claim = 0, !.quiet = FALSE]
               ELSE @[t]]])
  /\ run' = [run EXCEPT ![w].pc = "list"]
  /\ UNCHANGED <<late, crashes, early>>

\* Where a worker goes with the ids that are left of its list.
Onward(ids) == IF ids = {} THEN Idle ELSE [Idle EXCEPT !.pc = "next", !.todo = ids]

\* The ids are read outside any transaction.
List(w) ==
  /\ run[w].pc = "list"
  /\ run' = [run EXCEPT ![w] = Onward({t \in Tasks : db.task[t].status = "pending"})]
  /\ UNCHANGED <<db, late, crashes, early>>

\* The oldest id comes first; a row another worker has claimed meanwhile is passed
\* over.
Claim(w) ==
  /\ run[w].pc = "next"
  /\ \E t \in run[w].todo :
       /\ \A u \in run[w].todo : t <= u
       /\ IF db.task[t].status = "pending"
          THEN LET c == db.issued + 1 IN
               /\ Commit([db EXCEPT !.task[t] = [db.task[t] EXCEPT !.status = "running", !.claim = c, !.quiet = FALSE],
                                    !.issued = c])
               /\ run' = [run EXCEPT ![w] = [Idle EXCEPT !.pc = "work", !.todo = run[w].todo \ {t}, !.id = t, !.claim = c]]
          ELSE Commit(db) /\ run' = [run EXCEPT ![w] = Onward(run[w].todo \ {t})]
  /\ UNCHANGED <<late, crashes, early>>
-----------------------------------------------------------------------------
(* runTask, runImportTask and finishTask *)

Mine(w) == db.task[run[w].id].status = "running" /\ db.task[run[w].id].claim = run[w].claim

TaskGuard(w) == db.enabled /\ Mine(w) /\ ~db.task[run[w].id].cancel

\* Mutation: no look at the checkpoint of an earlier run.
ImportedAnew(t, i) ==
  {[db EXCEPT !.items[t][i] = o, !.made[t][i] = IF o = "ok" THEN @ + 1 ELSE @,
              !.task[t].quiet = FALSE] : o \in {"ok", "rejected"}}

\* The database after the transaction of one item: a rule and its checkpoint, or
\* the checkpoint of a refused rule; what has a checkpoint is left alone.
Imported(t, i) ==
  IF db.items[t][i] # "none" THEN {db}
  ELSE {[db EXCEPT !.items[t][i] = o, !.made[t][i] = IF o = "ok" THEN @ + 1 ELSE @,
                   !.task[t].quiet = FALSE] : o \in {"ok", "rejected"}}

\* Mutation: the row is ended whoever holds it.
FinishedUnheld(w, end) ==
  LET t == run[w].id
  IN [db EXCEPT !.task[t].status = IF db.task[t].cancel THEN "canceled" ELSE end, !.task[t].result = run[w].snap]

\* The database after finishTask; a canceled export keeps no result.
Finished(w, end) ==
  LET t == run[w].id
      row == db.task[t]
  IN IF ~Mine(w) THEN db
     ELSE [db EXCEPT !.task[t].status = IF row.cancel THEN "canceled" ELSE end,
                     !.task[t].result = IF row.cancel /\ row.kind = "export" THEN Nothing ELSE run[w].snap]

Working(w, kind) == run[w].pc = "work" /\ db.task[run[w].id].kind = kind

Export(w) ==
  /\ Working(w, "export")
  /\ TaskGuard(w)
  /\ Commit(db)
  /\ run' = [run EXCEPT ![w].pc = "finish", ![w].snap = Listing, ![w].end = "completed"]
  /\ UNCHANGED <<late, crashes, early>>

ImportItem(w) ==
  /\ Working(w, "import")
  /\ run[w].item <= Rules
  /\ TaskGuard(w)
  /\ \E d \in Imported(run[w].id, run[w].item) : Commit(d)
  /\ run' = [run EXCEPT ![w].item = @ + 1]
  /\ UNCHANGED <<late, crashes, early>>

\* The caller's four minutes are over while the item commits.
ItemTimesOut(w) ==
  /\ Working(w, "import")
  /\ run[w].item <= Rules
  /\ TaskGuard(w)
  /\ late = {}
  /\ \E d \in Imported(run[w].id, run[w].item) : late' = {d}
  /\ run' = [run EXCEPT ![w].pc = "failing", ![w].end = "failed"]
  /\ UNCHANGED <<db, crashes, early>>

GuardFails(w) ==
  /\ run[w].pc = "work"
  /\ Working(w, "import") => run[w].item <= Rules
  /\ ~TaskGuard(w)
  /\ Commit(db)
  /\ run' = [run EXCEPT ![w].pc = "failing",
                        ![w].end = IF db.enabled /\ Mine(w) THEN "canceled" ELSE "failed"]
  /\ UNCHANGED <<late, crashes, early>>

\* importResult reads all checkpoints, outside any transaction.
ImportResult(w) ==
  /\ Working(w, "import")
  /\ run[w].item > Rules
  /\ LET got == db.items[run[w].id]
     IN run' = [run EXCEPT ![w].pc = "finish", ![w].snap = got,
                           ![w].end = IF \E i \in Items : got[i] = "rejected"
                                      THEN "completed_with_errors" ELSE "completed"]
  /\ UNCHANGED <<db, late, crashes, early>>

\* finishTask under the task's own deadline; an error makes RunTasks fail the task.
Finish(w) ==
  /\ run[w].pc = "finish"
  /\ Commit(Finished(w, run[w].end))
  /\ run' = [run EXCEPT ![w] = IF Mine(w) THEN Onward(run[w].todo) ELSE [@ EXCEPT !.pc = "failing", !.end = "failed"]]
  /\ UNCHANGED <<late, crashes, early>>

FinishTimesOut(w) ==
  /\ run[w].pc = "finish"
  /\ late = {}
  /\ late' = {Finished(w, run[w].end)}
  /\ run' = [run EXCEPT ![w].pc = "failing", ![w].end = "failed"]
  /\ UNCHANGED <<db, crashes, early>>

\* RunTasks after an error: the checkpoints there are, then finishTask again.
FailingResult(w) ==
  /\ run[w].pc = "failing"
  /\ run' = [run EXCEPT ![w].pc = "fail", ![w].snap = db.items[run[w].id]]
  /\ UNCHANGED <<db, late, crashes, early>>

\* A refusal here ends the whole round.
Fail(w) ==
  /\ run[w].pc = "fail"
  /\ Commit(Finished(w, run[w].end))
  /\ run' = [run EXCEPT ![w] = IF Mine(w) THEN Onward(run[w].todo) ELSE Idle]
  /\ UNCHANGED <<late, crashes, early>>

LateCommits == db' \in late /\ late' = {} /\ UNCHANGED <<run, crashes, early>>
LateRollsBack == late # {} /\ late' = {} /\ UNCHANGED <<db, run, crashes, early>>

\* The process ends, or its context does, anywhere in a round.
Crash(w) ==
  /\ crashes < MaxCrashes
  /\ run[w].pc # "idle"
  /\ crashes' = crashes + 1
  /\ run' = [run EXCEPT ![w] = Idle]
  /\ UNCHANGED <<db, late, early>>

\* Seven days later the checkpoints and the result go, the row stays.
PruneTaskResults(t) ==
  /\ db.task[t].status \in Ends
  /\ db.task[t].result # Nothing \/ db.items[t] # Nothing
  /\ Commit([db EXCEPT !.items[t] = Nothing, !.task[t].result = Nothing])
  /\ UNCHANGED <<run, late, crashes, early>>
-----------------------------------------------------------------------------
Worker(w) ==
  \/ Reclaim(w) \/ List(w) \/ Claim(w)
  \/ Export(w) \/ ImportItem(w) \/ ItemTimesOut(w) \/ GuardFails(w) \/ ImportResult(w)
  \/ Finish(w) \/ FinishTimesOut(w) \/ FailingResult(w) \/ Fail(w)

Next ==
  \/ \E t \in Tasks : CreateTask(t) \/ CancelTask(t) \/ GoesQuiet(t) \/ PruneTaskResults(t)
  \/ Revoke
  \/ \E w \in Panels : Worker(w) \/ Crash(w)
  \/ LateCommits \/ LateRollsBack

\* A transaction ends, and time passes over an abandoned row.
Elapse == LateCommits \/ LateRollsBack \/ \E t \in Tasks : ~Held(t) /\ GoesQuiet(t)

\* The loops tick and time passes.
Fairness ==
  /\ \A w \in Panels : WF_vars(Worker(w))
  /\ WF_vars(Elapse)

Spec == Init /\ [][Next]_vars /\ Fairness
-----------------------------------------------------------------------------
\* Rows, checkpoints and workers have the shapes the code gives them; every claim
\* in use was issued, and checkpoints are of this task's items only.
TypeOK ==
  /\ \A t \in Tasks :
       /\ db.task[t].kind \in {"import", "export"}
       /\ db.task[t].status \in {"absent", "pending", "running"} \cup Ends
       /\ db.task[t].claim \in 0..db.issued
       /\ db.task[t].status \notin Ends => (db.task[t].status = "running" <=> db.task[t].claim # 0)
       /\ db.task[t].result \in [Items -> Results]
       /\ db.items[t] \in [Items -> Results \ {"listed"}]
       /\ db.task[t].kind = "export" => db.items[t] = Nothing
  /\ \A w \in Panels : run[w].item \in 1..(Rules + 1) /\ run[w].claim \in 0..db.issued
  /\ Cardinality(late) <= 1

\* Whatever is killed, times out or is taken over by another panel, a rule of an
\* import is created at most once (taskGuard's claim and the checkpoint row), and
\* a checkpoint that says "ok" has its rule.
ImportedOnce ==
  \A t \in Tasks, i \in Items :
    /\ db.made[t][i] <= 1
    /\ db.items[t][i] = "ok" => db.made[t][i] = 1

\* An import that reports "completed" created every rule; one that reports
\* "completed_with_errors" handled every rule and refused at least one
\* (importResult, finishTask), also when several workers each did a part.
CompletedIsTrue ==
  \A t \in Tasks :
    db.task[t].kind = "import" =>
      /\ db.task[t].status = "completed" => \A i \in Items : db.made[t][i] = 1
      /\ db.task[t].status = "completed_with_errors" => \E i \in Items : db.made[t][i] = 0

\* A task that ended stays as it ended and creates no more rules: a worker that
\* lost its claim, or whose timed-out transaction commits late, cannot reopen it
\* or end it differently (finishTask, taskGuard).
EndIsFinal ==
  \A t \in Tasks : db.task[t].status \in Ends =>
    /\ db'.task[t].status = db.task[t].status
    /\ db'.made[t] = db.made[t]

\* Once a cancel request is stored no further rule is created, and the task can
\* end only as canceled (cancelTask, taskGuard, finishTask).
CancelHolds ==
  \A t \in Tasks : db.task[t].cancel =>
    /\ db'.made[t] = db.made[t]
    /\ db'.task[t].status \in Ends => db'.task[t].status = "canceled"

\* Rows and loops of the task queue keep their shape; an import creates its rules
\* once however often its task is taken up again, and a task that says completed
\* is (RunTasks, runImportTask, finishTask).
TasksTrue == TypeOK /\ ImportedOnce /\ CompletedIsTrue

\* What is over stays over: a task that ended keeps its end and its rules, and one
\* that was cancelled gets no more of them (finishTask, taskGuard).
NothingReopens == [][EndIsFinal /\ CancelHolds]_vars

\* Every task that was accepted ends, across crashes, timeouts and lost claims
\* (the five-minute takeover in RunTasks).
TasksEnd == \A t \in Tasks : db.task[t].status = "pending" ~> db.task[t].status \in Ends
=============================================================================
