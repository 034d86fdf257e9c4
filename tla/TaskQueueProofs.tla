--------------------------- MODULE TaskQueueProofs ---------------------------
(***************************************************************************)
(* Proofs about TaskQueue: an import creates each of its rules at most once *)
(* and reports only what it did, and what ended or was cancelled stays so,  *)
(* for any number of panels, tasks and rules, however often a worker is     *)
(* killed, overtaken or timed out.                                          *)
(*                                                                         *)
(* The argument has two layers. RowOK says what one task's row, checkpoints *)
(* and rules look like; RowFollows says what a transaction may do to them.  *)
(* A worker's knowledge of the row it claimed (Knows) is only about rows     *)
(* that still carry its claim, and such a row a transaction can only take   *)
(* forward: so a worker that lost its claim knows nothing and can do        *)
(* nothing, and a transaction that commits late is one that follows.        *)
(***************************************************************************)
EXTENDS TaskQueue, FiniteSetTheorems, TLAPS

Row == [kind : {"import", "export"}, status : {"absent", "pending", "running"} \cup Ends,
        claim : Nat, cancel : BOOLEAN, result : [Items -> Results], quiet : BOOLEAN]
Checkpoints == [Items -> Results \ {"listed"}]
Counts == [Items -> Nat]
Local == [pc : {"idle", "list", "next", "work", "finish", "failing", "fail"}, todo : SUBSET Tasks,
          id : Tasks \cup {0}, claim : Nat, item : 1..(Rules + 1), snap : [Items -> Results], end : Ends]

Rows(d) == d \in [task : [Tasks -> Row], items : [Tasks -> Checkpoints], made : [Tasks -> Counts],
                  enabled : BOOLEAN, issued : Nat]

\* A task's row, checkpoints and rules, when n claims were issued.
RowOK(row, its, md, n) ==
  /\ row.claim <= n
  /\ row.status \notin Ends => (row.status = "running" <=> row.claim # 0)
  /\ row.kind = "export" \/ row.status = "absent" => its = Nothing
  /\ row.cancel /\ row.status \in Ends => row.status = "canceled"
  /\ \A i \in Items :
       /\ md[i] <= 1
       /\ its[i] = "ok" => md[i] = 1
       /\ row.status \notin Ends /\ its[i] # "ok" => md[i] = 0
  /\ row.kind = "import" =>
       /\ row.status = "completed" => \A i \in Items : md[i] = 1
       /\ row.status = "completed_with_errors" => \E i \in Items : md[i] = 0

\* What a transaction may do to a task when n claims were issued before it.
RowFollows(row, its, md, row2, its2, md2, n) ==
  /\ row.status \in Ends => row2.status = row.status /\ md2 = md
  /\ row.cancel => md2 = md /\ (row2.status \in Ends => row2.status = "canceled")
  /\ row2.status = "running" /\ row2.claim <= n =>
       /\ row.status = "running" /\ row.claim = row2.claim /\ row.kind = row2.kind
       /\ \A i \in Items : its[i] # "none" => its2[i] = its[i]

DbOK(d) == Rows(d) /\ \A t \in Tasks : RowOK(d.task[t], d.items[t], d.made[t], d.issued)

Follows(d, e) ==
  /\ d.issued <= e.issued
  /\ \A t \in Tasks : RowFollows(d.task[t], d.items[t], d.made[t], e.task[t], e.items[t], e.made[t], d.issued)

\* What a worker knows of the row its, when that row still carries its claim.
Knows(row, its, r) ==
  row.status = "running" /\ row.claim = r.claim /\ row.kind = "import" =>
    /\ r.pc = "work" => \A j \in Items : j < r.item => its[j] # "none"
    /\ r.pc = "finish" =>
         \/ r.end = "completed" /\ \A i \in Items : its[i] = "ok"
         \/ r.end = "completed_with_errors" /\ \E i \in Items : its[i] = "rejected"

RunOK(d, r) ==
  /\ r \in Local
  /\ r.claim <= d.issued
  /\ r.pc \in {"work", "finish", "failing", "fail"} =>
       /\ r.id \in Tasks
       /\ Knows(d.task[r.id], d.items[r.id], r)
  /\ r.pc \in {"failing", "fail"} => r.end \in {"failed", "canceled"}

TaskInv ==
  /\ DbOK(db)
  /\ run \in [Panels -> Local]
  /\ \A w \in Panels : RunOK(db, run[w])
  /\ \A d \in late : DbOK(d) /\ Follows(db, d)
  /\ Cardinality(late) <= 1
-----------------------------------------------------------------------------
\* Transactions: what happens to one row happens to the database.
LEMMA OneRow ==
  ASSUME NEW d, NEW e, DbOK(d), Rows(e), d.issued <= e.issued, NEW t \in Tasks,
         \A u \in Tasks : u # t => /\ e.task[u] = d.task[u]
                                   /\ e.items[u] = d.items[u]
                                   /\ e.made[u] = d.made[u],
         RowOK(e.task[t], e.items[t], e.made[t], e.issued),
         RowFollows(d.task[t], d.items[t], d.made[t], e.task[t], e.items[t], e.made[t], d.issued)
  PROVE  DbOK(e) /\ Follows(d, e)
<1> SUFFICES ASSUME NEW u \in Tasks, u # t
             PROVE  /\ RowOK(e.task[u], e.items[u], e.made[u], e.issued)
                    /\ RowFollows(d.task[u], d.items[u], d.made[u], e.task[u], e.items[u], e.made[u], d.issued)
  BY DEF DbOK, Follows
<1>1. d.issued \in Nat /\ e.issued \in Nat /\ d.task[u] \in Row
  BY DEF DbOK, Rows
<1>2. d.task[u].claim \in Nat
  BY <1>1 DEF Row
<1>3. RowOK(d.task[u], d.items[u], d.made[u], d.issued)
  BY DEF DbOK
<1> QED
  BY <1>1, <1>2, <1>3 DEF RowOK, RowFollows

\* A transaction that changes nothing.
LEMMA NoRow ==
  ASSUME NEW d, DbOK(d)
  PROVE  Follows(d, d)
<1> SUFFICES ASSUME NEW u \in Tasks
             PROVE  RowFollows(d.task[u], d.items[u], d.made[u], d.task[u], d.items[u], d.made[u], d.issued)
  BY DEF Follows, DbOK, Rows
<1> QED
  BY DEF RowFollows, RowOK, DbOK

\* What a worker knows stays true under whatever a transaction does.
LEMMA KnowledgeKept ==
  ASSUME NEW d, NEW e, NEW r, Rows(d), Rows(e), Follows(d, e), RunOK(d, r)
  PROVE  RunOK(e, r)
<1>1. r.claim \in Nat /\ d.issued \in Nat /\ e.issued \in Nat /\ r.claim <= e.issued
  BY DEF RunOK, Local, Follows, Rows
<1>2. ASSUME r.id \in Tasks, Knows(d.task[r.id], d.items[r.id], r)
      PROVE  Knows(e.task[r.id], e.items[r.id], r)
  <2>1. RowFollows(d.task[r.id], d.items[r.id], d.made[r.id], e.task[r.id], e.items[r.id], e.made[r.id], d.issued)
    BY <1>2 DEF Follows
  <2>2. r.claim <= d.issued
    BY DEF RunOK
  <2> QED
    BY <1>2, <2>1, <2>2 DEF Knows, RowFollows
<1> QED
  BY <1>1, <1>2 DEF RunOK
-----------------------------------------------------------------------------
(* The database after each transaction, as the actions of TaskQueue write it. *)

AfterCreate(t, k) == [db EXCEPT !.task[t].kind = k, !.task[t].status = "pending"]
AfterCancel(t) == [db EXCEPT !.task[t].cancel = TRUE]
AfterRevoke == [db EXCEPT !.enabled = FALSE]
AfterQuiet(t) == [db EXCEPT !.task[t].quiet = TRUE]
AfterClaim(t, c) == [db EXCEPT !.task[t] = [db.task[t] EXCEPT !.status = "running", !.claim = c, !.quiet = FALSE],
                               !.issued = c]
AfterReclaim == [db EXCEPT !.task = [t \in Tasks |->
                   IF @[t].status = "running" /\ @[t].quiet
                   THEN [@[t] EXCEPT !.status = "pending", !.claim = 0, !.quiet = FALSE]
                   ELSE @[t]]]
AfterFinish(t, last, kept) == [db EXCEPT !.task[t].status = last, !.task[t].result = kept]
AfterPrune(t) == [db EXCEPT !.items[t] = Nothing, !.task[t].result = Nothing]

LEMMA CreateTx ==
  ASSUME DbOK(db), NEW t \in Tasks, NEW k \in {"import", "export"}, db.task[t].status = "absent",
         NEW e, e = AfterCreate(t, k)
  PROVE  DbOK(e) /\ Follows(db, e)
<1>1. Rows(db) /\ RowOK(db.task[t], db.items[t], db.made[t], db.issued) /\ db.task[t] \in Row
  BY DEF DbOK, Rows
<1>2. Rows(e)
  BY <1>1 DEF Rows, Row, AfterCreate
<1>3. /\ e.issued = db.issued /\ e.items = db.items /\ e.made = db.made
      /\ \A u \in Tasks : u # t => e.task[u] = db.task[u]
      /\ e.task[t].kind = k /\ e.task[t].status = "pending"
      /\ e.task[t].claim = db.task[t].claim /\ e.task[t].cancel = db.task[t].cancel
  BY <1>1 DEF Rows, Row, AfterCreate
<1>4. RowOK(e.task[t], e.items[t], e.made[t], e.issued)
  BY <1>1, <1>3 DEF RowOK, Ends
<1>5. RowFollows(db.task[t], db.items[t], db.made[t], e.task[t], e.items[t], e.made[t], db.issued)
  BY <1>1, <1>3 DEF RowFollows, Ends
<1>6. db.issued <= e.issued
  BY <1>1, <1>3 DEF Rows
<1>7. \A u \in Tasks : u # t => /\ e.task[u] = db.task[u]
                              /\ e.items[u] = db.items[u]
                              /\ e.made[u] = db.made[u]
  BY <1>3
<1> QED
  BY <1>2, <1>4, <1>5, <1>6, <1>7, OneRow

LEMMA CancelTx ==
  ASSUME DbOK(db), NEW t \in Tasks, t \in Active(db),
         NEW e, e = AfterCancel(t)
  PROVE  DbOK(e) /\ Follows(db, e)
<1>1. Rows(db) /\ RowOK(db.task[t], db.items[t], db.made[t], db.issued) /\ db.task[t] \in Row
  BY DEF DbOK, Rows
<1>2. Rows(e)
  BY <1>1 DEF Rows, Row, AfterCancel
<1>3. /\ e.issued = db.issued /\ e.items = db.items /\ e.made = db.made
      /\ \A u \in Tasks : u # t => e.task[u] = db.task[u]
      /\ e.task[t].kind = db.task[t].kind /\ e.task[t].status = db.task[t].status
      /\ e.task[t].claim = db.task[t].claim
      /\ e.task[t].status \in {"pending", "running"}
  BY <1>1 DEF Rows, Row, Active, AfterCancel
<1>4. RowOK(e.task[t], e.items[t], e.made[t], e.issued)
  BY <1>1, <1>3 DEF RowOK, Ends
<1>5. RowFollows(db.task[t], db.items[t], db.made[t], e.task[t], e.items[t], e.made[t], db.issued)
  BY <1>1, <1>3 DEF RowFollows, Ends
<1>6. db.issued <= e.issued
  BY <1>1, <1>3 DEF Rows
<1>7. \A u \in Tasks : u # t => /\ e.task[u] = db.task[u]
                              /\ e.items[u] = db.items[u]
                              /\ e.made[u] = db.made[u]
  BY <1>3
<1> QED
  BY <1>2, <1>4, <1>5, <1>6, <1>7, OneRow

LEMMA QuietTx ==
  ASSUME DbOK(db), NEW t \in Tasks, db.task[t].status = "running",
         NEW e, e = AfterQuiet(t)
  PROVE  DbOK(e) /\ Follows(db, e)
<1>1. Rows(db) /\ RowOK(db.task[t], db.items[t], db.made[t], db.issued) /\ db.task[t] \in Row
  BY DEF DbOK, Rows
<1>2. Rows(e)
  BY <1>1 DEF Rows, Row, AfterQuiet
<1>3. /\ e.issued = db.issued /\ e.items = db.items /\ e.made = db.made
      /\ \A u \in Tasks : u # t => e.task[u] = db.task[u]
      /\ e.task[t].kind = db.task[t].kind /\ e.task[t].status = "running"
      /\ e.task[t].claim = db.task[t].claim /\ e.task[t].cancel = db.task[t].cancel
  BY <1>1 DEF Rows, Row, AfterQuiet
<1>4. RowOK(e.task[t], e.items[t], e.made[t], e.issued)
  BY <1>1, <1>3 DEF RowOK, Ends
<1>5. RowFollows(db.task[t], db.items[t], db.made[t], e.task[t], e.items[t], e.made[t], db.issued)
  BY <1>1, <1>3 DEF RowFollows, Ends
<1>6. db.issued <= e.issued
  BY <1>1, <1>3 DEF Rows
<1>7. \A u \in Tasks : u # t => /\ e.task[u] = db.task[u]
                              /\ e.items[u] = db.items[u]
                              /\ e.made[u] = db.made[u]
  BY <1>3
<1> QED
  BY <1>2, <1>4, <1>5, <1>6, <1>7, OneRow

LEMMA ClaimTx ==
  ASSUME DbOK(db), NEW t \in Tasks, db.task[t].status = "pending", NEW c, c = db.issued + 1,
         NEW e, e = AfterClaim(t, c)
  PROVE  DbOK(e) /\ Follows(db, e) /\ e.issued = c
<1>1. Rows(db) /\ RowOK(db.task[t], db.items[t], db.made[t], db.issued) /\ db.task[t] \in Row /\ c \in Nat
  BY DEF DbOK, Rows
<1> DEFINE row == [db.task[t] EXCEPT !.status = "running", !.claim = c, !.quiet = FALSE]
           task == [db.task EXCEPT ![t] = row]
<1>e. e = [db EXCEPT !.task = task, !.issued = c]
  BY Zenon DEF AfterClaim
<1>r. /\ row \in Row /\ row.kind = db.task[t].kind /\ row.status = "running" /\ row.claim = c
      /\ row.cancel = db.task[t].cancel
  BY <1>1 DEF Row
<1> HIDE DEF row
<1>t. task \in [Tasks -> Row] /\ task[t] = row /\ \A u \in Tasks : u # t => task[u] = db.task[u]
  BY <1>1, <1>r DEF Rows
<1> HIDE DEF task
<1>2. Rows(e)
  BY <1>1, <1>e, <1>t, Zenon DEF Rows
<1>f. e.task = task /\ e.issued = c /\ e.items = db.items /\ e.made = db.made
  BY <1>1, <1>e DEF Rows
<1>3. /\ e.issued = c /\ e.items = db.items /\ e.made = db.made
      /\ \A u \in Tasks : u # t => e.task[u] = db.task[u]
      /\ e.task[t].kind = db.task[t].kind /\ e.task[t].status = "running"
      /\ e.task[t].claim = c /\ e.task[t].cancel = db.task[t].cancel
  BY <1>f, <1>r, <1>t
<1>i. db.issued \in Nat
  BY <1>1 DEF Rows
<1>4. RowOK(e.task[t], e.items[t], e.made[t], e.issued)
  <2>1. c # 0 /\ c <= c
    BY <1>i
  <2>2. "running" \notin Ends /\ "running" # "absent" /\ "pending" \notin Ends
    BY DEF Ends
  <2>3. /\ db.task[t].kind = "export" => db.items[t] = Nothing
        /\ \A i \in Items : /\ db.made[t][i] <= 1
                            /\ db.items[t][i] = "ok" => db.made[t][i] = 1
                            /\ db.items[t][i] # "ok" => db.made[t][i] = 0
    BY <1>1, <2>2 DEF RowOK
  <2> QED
    BY <1>3, <2>1, <2>2, <2>3 DEF RowOK, Ends
<1>5. RowFollows(db.task[t], db.items[t], db.made[t], e.task[t], e.items[t], e.made[t], db.issued)
  BY <1>1, <1>3, <1>i DEF RowFollows, Ends
<1>6. db.issued <= e.issued
  BY <1>1, <1>3 DEF Rows
<1>7. \A u \in Tasks : u # t => /\ e.task[u] = db.task[u]
                              /\ e.items[u] = db.items[u]
                              /\ e.made[u] = db.made[u]
  BY <1>3
<1>8. DbOK(e) /\ Follows(db, e)
  BY <1>2, <1>4, <1>5, <1>6, <1>7, OneRow
<1> QED
  BY <1>3, <1>8

\* Seven days after its end a task's checkpoints go; its rules stay.
LEMMA PruneTx ==
  ASSUME DbOK(db), NEW t \in Tasks, db.task[t].status \in Ends,
         NEW e, e = AfterPrune(t)
  PROVE  DbOK(e) /\ Follows(db, e)
<1>1. Rows(db) /\ RowOK(db.task[t], db.items[t], db.made[t], db.issued) /\ db.task[t] \in Row
  BY DEF DbOK, Rows
<1>0. Nothing \in [Items -> Results] /\ Nothing \in Checkpoints
  BY DEF Nothing, Results, Checkpoints
<1>2. Rows(e)
  BY <1>0, <1>1 DEF Rows, Row, AfterPrune
<1>3. /\ e.issued = db.issued /\ e.items[t] = Nothing /\ e.made = db.made
      /\ \A u \in Tasks : u # t => e.task[u] = db.task[u] /\ e.items[u] = db.items[u]
      /\ e.task[t].kind = db.task[t].kind /\ e.task[t].status = db.task[t].status
      /\ e.task[t].claim = db.task[t].claim /\ e.task[t].cancel = db.task[t].cancel
  BY <1>1 DEF Rows, Row, AfterPrune
<1>4. RowOK(e.task[t], e.items[t], e.made[t], e.issued)
  BY <1>1, <1>3 DEF RowOK, Ends, Nothing
<1>5. RowFollows(db.task[t], db.items[t], db.made[t], e.task[t], e.items[t], e.made[t], db.issued)
  BY <1>1, <1>3 DEF RowFollows, RowOK, Ends
<1>6. db.issued <= e.issued
  BY <1>1, <1>3 DEF Rows
<1>7. \A u \in Tasks : u # t => /\ e.task[u] = db.task[u]
                              /\ e.items[u] = db.items[u]
                              /\ e.made[u] = db.made[u]
  BY <1>3
<1> QED
  BY <1>2, <1>4, <1>5, <1>6, <1>7, OneRow

\* A rule and its checkpoint are one transaction, under the guard of a row that runs
\* and is not cancelled.
LEMMA ImportTx ==
  ASSUME DbOK(db), NEW t \in Tasks, NEW i \in Items, db.task[t].status = "running",
         db.task[t].kind = "import", ~db.task[t].cancel, NEW e \in Imported(t, i)
  PROVE  DbOK(e) /\ Follows(db, e) /\ e.items[t][i] # "none"
<1>1. Rows(db) /\ RowOK(db.task[t], db.items[t], db.made[t], db.issued) /\ db.task[t] \in Row
  BY DEF DbOK, Rows
<1>2. CASE db.items[t][i] # "none"
  BY <1>2, NoRow DEF Imported
<1>3. CASE db.items[t][i] = "none"
  <2>1. PICK o \in {"ok", "rejected"} :
          e = [db EXCEPT !.items[t][i] = o, !.made[t][i] = IF o = "ok" THEN db.made[t][i] + 1 ELSE db.made[t][i],
                         !.task[t].quiet = FALSE]
    BY <1>3 DEF Imported
  <2>2. Rows(e)
    <3> DEFINE its == [db.items[t] EXCEPT ![i] = o]
               md == [db.made[t] EXCEPT ![i] = IF o = "ok" THEN db.made[t][i] + 1 ELSE db.made[t][i]]
               row == [db.task[t] EXCEPT !.quiet = FALSE]
    <3>1. its \in Checkpoints
      BY <1>1 DEF Rows, Checkpoints, Results
    <3>2. md \in Counts
      BY <1>1 DEF Rows, Counts
    <3>3. row \in Row
      BY <1>1 DEF Row
    <3>4. /\ e.items = [db.items EXCEPT ![t] = its]
          /\ e.made = [db.made EXCEPT ![t] = md]
          /\ e.task = [db.task EXCEPT ![t] = row]
          /\ e = [db EXCEPT !.items = e.items, !.made = e.made, !.task = e.task]
      BY <1>1, <2>1 DEF Rows
    <3> HIDE DEF its, md, row
    <3>5. /\ e.items \in [Tasks -> Checkpoints]
          /\ e.made \in [Tasks -> Counts]
          /\ e.task \in [Tasks -> Row]
      BY <1>1, <3>1, <3>2, <3>3, <3>4 DEF Rows
    <3> QED
      BY <1>1, <3>4, <3>5 DEF Rows
  <2>3. /\ e.issued = db.issued
        /\ \A u \in Tasks : u # t => e.task[u] = db.task[u] /\ e.items[u] = db.items[u] /\ e.made[u] = db.made[u]
        /\ e.task[t].kind = db.task[t].kind /\ e.task[t].status = db.task[t].status
        /\ e.task[t].claim = db.task[t].claim /\ e.task[t].cancel = db.task[t].cancel
    BY <1>1, <2>1 DEF Rows, Row
  <2>4. /\ e.items[t][i] = o /\ \A j \in Items : j # i => e.items[t][j] = db.items[t][j]
        /\ e.made[t][i] = IF o = "ok" THEN db.made[t][i] + 1 ELSE db.made[t][i]
        /\ \A j \in Items : j # i => e.made[t][j] = db.made[t][j]
    BY <1>1, <2>1 DEF Rows, Checkpoints, Counts
  <2>5. db.made[t][i] = 0
    BY <1>1, <1>3 DEF RowOK, Ends
  <2>6. RowOK(e.task[t], e.items[t], e.made[t], e.issued)
    BY <1>1, <2>3, <2>4, <2>5 DEF RowOK, Ends
  <2>7. RowFollows(db.task[t], db.items[t], db.made[t], e.task[t], e.items[t], e.made[t], db.issued)
    BY <1>1, <1>3, <2>3, <2>4 DEF RowFollows, Ends
  <2>8. db.issued <= e.issued
    BY <1>1, <2>3 DEF Rows
  <2>9. e.items[t][i] # "none"
    BY <2>4
  <2> QED
    BY <2>2, <2>3, <2>6, <2>7, <2>8, <2>9, OneRow
<1> QED
  BY <1>2, <1>3

LEMMA RevokeTx ==
  ASSUME DbOK(db), NEW e, e = AfterRevoke
  PROVE  DbOK(e) /\ Follows(db, e)
<1>1. Rows(db)
  BY DEF DbOK
<1>2. Rows(e) /\ e.task = db.task /\ e.items = db.items /\ e.made = db.made /\ e.issued = db.issued
  BY <1>1 DEF Rows, AfterRevoke
<1>3. DbOK(e)
  BY <1>2 DEF DbOK
<1>4. Follows(db, db)
  BY NoRow
<1> QED
  BY <1>2, <1>3, <1>4 DEF Follows

Returned(row) ==
  IF row.status = "running" /\ row.quiet
  THEN [row EXCEPT !.status = "pending", !.claim = 0, !.quiet = FALSE]
  ELSE row

LEMMA PutBack ==
  ASSUME NEW row \in Row, NEW row2, row2 = Returned(row)
  PROVE  /\ row2 \in Row
         /\ row2.kind = row.kind /\ row2.cancel = row.cancel
         /\ \/ row2.status = row.status /\ row2.claim = row.claim
            \/ row.status = "running" /\ row2.status = "pending" /\ row2.claim = 0
BY DEF Row, Returned

LEMMA ReclaimFields ==
  ASSUME Rows(db),
         NEW e, e = AfterReclaim
  PROVE  /\ e.items = db.items /\ e.made = db.made /\ e.issued = db.issued /\ e.enabled = db.enabled
         /\ e = [db EXCEPT !.task = e.task]
         /\ e.task = [t \in Tasks |-> e.task[t]]
         /\ \A t \in Tasks : e.task[t] = Returned(db.task[t])
BY DEF Rows, AfterReclaim, Returned

\* A row that went quiet is put back without its claim: nobody's row follows it.
LEMMA ReclaimTx ==
  ASSUME DbOK(db), NEW e,
         e.items = db.items, e.made = db.made, e.issued = db.issued,
         e = [db EXCEPT !.task = e.task], e.task = [t \in Tasks |-> e.task[t]],
         \A t \in Tasks :
           /\ e.task[t] \in Row
           /\ e.task[t].kind = db.task[t].kind /\ e.task[t].cancel = db.task[t].cancel
           /\ \/ e.task[t].status = db.task[t].status /\ e.task[t].claim = db.task[t].claim
              \/ db.task[t].status = "running" /\ e.task[t].status = "pending" /\ e.task[t].claim = 0
  PROVE  DbOK(e) /\ Follows(db, e)
<1>1. Rows(db)
  BY DEF DbOK
<1>2. Rows(e)
  <2>1. e.task \in [Tasks -> Row]
    OBVIOUS
  <2> QED
    BY <1>1, <2>1 DEF Rows
<1>3. ASSUME NEW t \in Tasks
      PROVE  /\ RowOK(e.task[t], e.items[t], e.made[t], e.issued)
             /\ RowFollows(db.task[t], db.items[t], db.made[t], e.task[t], e.items[t], e.made[t], db.issued)
  <2>1. RowOK(db.task[t], db.items[t], db.made[t], db.issued) /\ db.issued \in Nat
    BY <1>1 DEF DbOK, Rows
  <2>2. RowOK(e.task[t], e.items[t], e.made[t], e.issued)
    BY <2>1 DEF RowOK, Ends
  <2>3. RowFollows(db.task[t], db.items[t], db.made[t], e.task[t], e.items[t], e.made[t], db.issued)
    BY <2>1 DEF RowOK, RowFollows, Ends
  <2> QED
    BY <2>2, <2>3
<1>4. db.issued <= e.issued
  BY <1>1 DEF Rows
<1> QED
  BY <1>2, <1>3, <1>4 DEF DbOK, Follows

LEMMA EndFields ==
  ASSUME Rows(db), NEW t \in Tasks, NEW last \in Ends, NEW kept \in [Items -> Results],
         NEW e, e = AfterFinish(t, last, kept)
  PROVE  /\ Rows(e)
         /\ e.issued = db.issued /\ e.items = db.items /\ e.made = db.made
         /\ \A u \in Tasks : u # t => e.task[u] = db.task[u]
         /\ e.task[t].kind = db.task[t].kind /\ e.task[t].status = last
         /\ e.task[t].claim = db.task[t].claim /\ e.task[t].cancel = db.task[t].cancel
<1>1. db.task[t] \in Row
  BY DEF Rows
<1>2. Rows(e)
  BY <1>1 DEF Rows, Row, AfterFinish
<1> QED
  BY <1>1, <1>2 DEF Rows, Row, AfterFinish

\* finishTask ends a row that still carries the worker's claim, and only as the
\* worker's knowledge of its checkpoints allows.
LEMMA FinishTx ==
  ASSUME DbOK(db), NEW w \in Panels, RunOK(db, run[w]), run[w].pc \in {"finish", "fail"},
         NEW e, e = Finished(w, run[w].end)
  PROVE  DbOK(e) /\ Follows(db, e)
<1> DEFINE t == run[w].id
           row == db.task[t]
           last == IF row.cancel THEN "canceled" ELSE run[w].end
           kept == IF row.cancel /\ row.kind = "export" THEN Nothing ELSE run[w].snap
<1>1. t \in Tasks /\ Rows(db) /\ run[w] \in Local
  BY DEF RunOK, DbOK
<1>2. RowOK(row, db.items[t], db.made[t], db.issued) /\ row \in Row /\ Knows(row, db.items[t], run[w])
  BY <1>1 DEF DbOK, Rows, RunOK
<1>3. CASE ~Mine(w)
  BY <1>3, NoRow DEF Finished
<1>4. CASE Mine(w)
  <2>0. row.status = "running" /\ row.claim = run[w].claim
    BY <1>4 DEF Mine
  <2>1. e = AfterFinish(t, last, kept)
    BY <1>4 DEF Finished, AfterFinish
  <2>2. last \in Ends /\ kept \in [Items -> Results] /\ (row.cancel => last = "canceled") /\ (~row.cancel => last = run[w].end)
    BY <1>1, <1>2 DEF Local, Ends, Nothing, Results, Row
  <2> HIDE DEF last, kept, t
  <2>3. Rows(e)
    BY <1>1, <2>1, <2>2, EndFields
  <2>4. /\ e.issued = db.issued /\ e.items = db.items /\ e.made = db.made
        /\ \A u \in Tasks : u # t => e.task[u] = db.task[u]
        /\ e.task[t].kind = row.kind /\ e.task[t].status = last
        /\ e.task[t].claim = row.claim /\ e.task[t].cancel = row.cancel
    BY <1>1, <2>1, <2>2, EndFields
  <2>5. row.kind = "import" =>
          /\ last = "completed" => \A i \in Items : db.made[t][i] = 1
          /\ last = "completed_with_errors" => \E i \in Items : db.made[t][i] = 0
    <3> SUFFICES ASSUME row.kind = "import", ~row.cancel, last = run[w].end,
                        run[w].end \in {"completed", "completed_with_errors"}
                 PROVE  /\ last = "completed" => \A i \in Items : db.made[t][i] = 1
                        /\ last = "completed_with_errors" => \E i \in Items : db.made[t][i] = 0
      BY <1>2, <2>2 DEF Row
    <3>1. run[w].pc = "finish"
      BY DEF RunOK
    <3>2. \/ run[w].end = "completed" /\ \A i \in Items : db.items[t][i] = "ok"
          \/ run[w].end = "completed_with_errors" /\ \E i \in Items : db.items[t][i] = "rejected"
      BY <1>2, <2>0, <3>1 DEF Knows
    <3>3. \A i \in Items : (db.items[t][i] = "ok" => db.made[t][i] = 1) /\ (db.items[t][i] # "ok" => db.made[t][i] = 0)
      BY <1>2, <2>0 DEF RowOK, Ends
    <3> QED
      BY <3>2, <3>3
  <2>6. RowOK(e.task[t], e.items[t], e.made[t], e.issued)
    BY <1>2, <2>0, <2>2, <2>4, <2>5 DEF RowOK, Ends
  <2>7. RowFollows(row, db.items[t], db.made[t], e.task[t], e.items[t], e.made[t], db.issued)
    BY <1>2, <2>0, <2>2, <2>4 DEF RowFollows, Ends
  <2>8. db.issued <= e.issued
    BY <1>1, <2>4 DEF Rows
  <2>9. \A u \in Tasks : u # t => /\ e.task[u] = db.task[u]
                                /\ e.items[u] = db.items[u]
                                /\ e.made[u] = db.made[u]
    BY <2>4
  <2> HIDE DEF t, row
  <2> QED
    BY <1>1, <2>3, <2>6, <2>7, <2>8, <2>9, OneRow DEF row
<1> QED
  BY <1>3, <1>4
-----------------------------------------------------------------------------
(* The steps. *)

\* An item's transaction, committed at once or late.
LEMMA ItemTx ==
  ASSUME TaskInv, NEW w \in Panels, Working(w, "import"), run[w].item <= Rules, TaskGuard(w),
         NEW d \in Imported(run[w].id, run[w].item)
  PROVE  DbOK(d) /\ Follows(db, d) /\ d.items[run[w].id][run[w].item] # "none"
<1>1. RunOK(db, run[w]) /\ DbOK(db)
  BY DEF TaskInv
<1>2. run[w].id \in Tasks
  BY <1>1 DEF RunOK, Working
<1>3. run[w].item \in Items
  BY <1>1, RulesAreCounted DEF RunOK, Local, Items
<1>4. db.task[run[w].id].status = "running" /\ db.task[run[w].id].kind = "import" /\ ~db.task[run[w].id].cancel
  BY DEF TaskGuard, Mine, Working
<1> QED
  BY <1>1, <1>2, <1>3, <1>4, ImportTx

LEMMA EndTx ==
  ASSUME TaskInv, NEW w \in Panels, run[w].pc \in {"finish", "fail"}
  PROVE  DbOK(Finished(w, run[w].end)) /\ Follows(db, Finished(w, run[w].end))
BY FinishTx DEF TaskInv

\* Every step takes the database to one that follows it.
LEMMA DbStep ==
  ASSUME TaskInv, [Next]_vars
  PROVE  DbOK(db') /\ Follows(db, db')
<1>0. DbOK(db) /\ Follows(db, db)
  BY NoRow DEF TaskInv
<1>1. CASE UNCHANGED db
  BY <1>0, <1>1
<1>2. ASSUME NEW t \in Tasks, CreateTask(t)
      PROVE  DbOK(db') /\ Follows(db, db')
  <2>1. PICK k \in {"import", "export"} : db.task[t].status = "absent" /\ db' = AfterCreate(t, k)
    BY <1>2 DEF CreateTask, Commit, AfterCreate
  <2> QED
    BY <1>0, <2>1, CreateTx
<1>3. ASSUME NEW t \in Tasks, CancelTask(t)
      PROVE  DbOK(db') /\ Follows(db, db')
  <2>1. t \in Active(db) /\ db' = AfterCancel(t)
    BY <1>3 DEF CancelTask, Commit, AfterCancel
  <2> QED
    BY <1>0, <2>1, CancelTx
<1>4. ASSUME NEW t \in Tasks, GoesQuiet(t)
      PROVE  DbOK(db') /\ Follows(db, db')
  <2>1. db.task[t].status = "running" /\ db' = AfterQuiet(t)
    BY <1>4 DEF GoesQuiet, Commit, AfterQuiet
  <2> QED
    BY <1>0, <2>1, QuietTx
<1>5. ASSUME NEW t \in Tasks, PruneTaskResults(t)
      PROVE  DbOK(db') /\ Follows(db, db')
  <2>1. db.task[t].status \in Ends /\ db' = AfterPrune(t)
    BY <1>5 DEF PruneTaskResults, Commit, AfterPrune
  <2> QED
    BY <1>0, <2>1, PruneTx
<1>6. CASE Revoke
  <2>1. db' = AfterRevoke
    BY <1>6 DEF Revoke, Commit, AfterRevoke
  <2> QED
    BY <1>0, <2>1, RevokeTx
<1>7. CASE LateCommits
  BY <1>7 DEF LateCommits, TaskInv
<1>8. ASSUME NEW w \in Panels, Reclaim(w)
      PROVE  DbOK(db') /\ Follows(db, db')
  <2>1. db' = AfterReclaim
    BY <1>8 DEF Reclaim, Commit, AfterReclaim
  <2>2. Rows(db)
    BY <1>0 DEF DbOK
  <2>3. /\ db'.items = db.items /\ db'.made = db.made /\ db'.issued = db.issued
        /\ db' = [db EXCEPT !.task = db'.task]
        /\ db'.task = [t \in Tasks |-> db'.task[t]]
    BY <2>1, <2>2, ReclaimFields
  <2>4. ASSUME NEW t \in Tasks
        PROVE  /\ db'.task[t] \in Row
               /\ db'.task[t].kind = db.task[t].kind /\ db'.task[t].cancel = db.task[t].cancel
               /\ \/ db'.task[t].status = db.task[t].status /\ db'.task[t].claim = db.task[t].claim
                  \/ db.task[t].status = "running" /\ db'.task[t].status = "pending" /\ db'.task[t].claim = 0
    <3>1. db.task[t] \in Row
      BY <2>2 DEF Rows
    <3>2. db'.task[t] = Returned(db.task[t])
      BY <2>1, <2>2, ReclaimFields
    <3> QED
      BY <3>1, <3>2, PutBack
  <2> QED
    BY <1>0, <2>3, <2>4, ReclaimTx
<1>9. ASSUME NEW w \in Panels, Claim(w)
      PROVE  DbOK(db') /\ Follows(db, db')
  <2>1. PICK t \in run[w].todo : \/ db.task[t].status = "pending" /\ db' = AfterClaim(t, db.issued + 1)
                                 \/ db' = db
    BY <1>9 DEF Claim, Commit, AfterClaim
  <2>2. t \in Tasks
    BY DEF TaskInv, Local
  <2> QED
    BY <1>0, <2>1, <2>2, ClaimTx
<1>10. ASSUME NEW w \in Panels, ImportItem(w)
       PROVE  DbOK(db') /\ Follows(db, db')
  BY <1>10, ItemTx DEF ImportItem, Commit
<1>11. ASSUME NEW w \in Panels, Finish(w) \/ Fail(w)
       PROVE  DbOK(db') /\ Follows(db, db')
  <2>1. run[w].pc \in {"finish", "fail"} /\ db' = Finished(w, run[w].end)
    BY <1>11 DEF Finish, Fail, Commit
  <2> QED
    BY <2>1, EndTx
<1>12. ASSUME NEW w \in Panels,
              List(w) \/ Export(w) \/ ItemTimesOut(w) \/ GuardFails(w) \/ ImportResult(w)
                \/ FinishTimesOut(w) \/ FailingResult(w) \/ Crash(w)
       PROVE  UNCHANGED db
  BY <1>12 DEF List, Export, ItemTimesOut, GuardFails, ImportResult, FinishTimesOut, FailingResult, Crash, Commit
<1>13. CASE LateRollsBack \/ UNCHANGED vars
  BY <1>1, <1>13 DEF LateRollsBack, vars
<1> QED
  BY <1>1, <1>2, <1>3, <1>4, <1>5, <1>6, <1>7, <1>8, <1>9, <1>10, <1>11, <1>12, <1>13 DEF Next, Worker

\* Between two tasks a worker knows nothing and needs nothing.
LEMMA OnwardOK ==
  ASSUME NEW d, Rows(d), NEW ids \in SUBSET Tasks
  PROVE  RunOK(d, Onward(ids)) /\ RunOK(d, Idle)
<1>1. Nothing \in [Items -> Results]
  BY DEF Nothing, Results
<1>2. 1 \in 1..(Rules + 1) /\ d.issued \in Nat /\ "failed" \in Ends
  BY RulesAreCounted DEF Rows, Ends
<1>3. Idle \in Local /\ Idle.claim = 0 /\ Idle.pc = "idle"
  BY <1>1, <1>2 DEF Idle, Local
<1>4. [Idle EXCEPT !.pc = "next", !.todo = ids] \in Local
  BY <1>1, <1>2 DEF Idle, Local
<1>5. [Idle EXCEPT !.pc = "next", !.todo = ids].claim = 0 /\ [Idle EXCEPT !.pc = "next", !.todo = ids].pc = "next"
  BY DEF Idle
<1> QED
  BY <1>2, <1>3, <1>4, <1>5 DEF Onward, RunOK

\* A worker that has just claimed t.
TakenUp(ids, t, c) == [Idle EXCEPT !.pc = "work", !.todo = ids, !.id = t, !.claim = c]

LEMMA ClaimedLocal ==
  ASSUME NEW ids \in SUBSET Tasks, NEW t \in Tasks, NEW c \in Nat,
         NEW r, r = TakenUp(ids, t, c)
  PROVE  r \in Local /\ r.claim = c /\ r.pc = "work" /\ r.id = t /\ r.item = 1
<1>1. Nothing \in [Items -> Results] /\ 1 \in 1..(Rules + 1) /\ "failed" \in Ends
  BY RulesAreCounted DEF Nothing, Results, Ends
<1> QED
  BY <1>1 DEF Idle, Local, TakenUp

\* The worker that steps ends up with true knowledge of its row.
LEMMA ActorStep ==
  ASSUME TaskInv, DbOK(db'), Follows(db, db'), NEW w \in Panels, Worker(w) \/ Crash(w)
  PROVE  /\ \E r : run' = [run EXCEPT ![w] = r]
         /\ RunOK(db', run'[w])
<1>1. /\ run \in [Panels -> Local] /\ run[w] \in Local /\ RunOK(db, run[w]) /\ Rows(db) /\ Rows(db')
      /\ RunOK(db', run[w])
  BY KnowledgeKept DEF TaskInv, DbOK
<1>2. run[w].pc \in {"work", "finish", "failing", "fail"} => run[w].id \in Tasks
  BY <1>1 DEF RunOK
<1>3. CASE Reclaim(w)
  <2>1. run' = [run EXCEPT ![w] = [run[w] EXCEPT !.pc = "list"]]
    BY <1>3 DEF Reclaim
  <2>2. [run[w] EXCEPT !.pc = "list"] \in Local /\ [run[w] EXCEPT !.pc = "list"].pc = "list"
        /\ [run[w] EXCEPT !.pc = "list"].claim = run[w].claim
    BY <1>1 DEF Local
  <2>3. RunOK(db', [run[w] EXCEPT !.pc = "list"])
    BY <1>1, <2>2 DEF RunOK
  <2> QED
    BY <1>1, <2>1, <2>3
<1>4. CASE List(w)
  <2> DEFINE ids == {t \in Tasks : db.task[t].status = "pending"}
  <2>1. run' = [run EXCEPT ![w] = Onward(ids)] /\ ids \in SUBSET Tasks
    BY <1>4 DEF List
  <2> HIDE DEF ids
  <2>2. RunOK(db', Onward(ids))
    BY <1>1, <2>1, OnwardOK
  <2> QED
    BY <1>1, <2>1, <2>2
<1>5. CASE Claim(w)
  <2>1. PICK t \in run[w].todo :
          \/ /\ db.task[t].status = "pending" /\ db' = AfterClaim(t, db.issued + 1)
             /\ run' = [run EXCEPT ![w] = TakenUp(run[w].todo \ {t}, t, db.issued + 1)]
          \/ run' = [run EXCEPT ![w] = Onward(run[w].todo \ {t})]
    BY <1>5 DEF Claim, Commit, AfterClaim, TakenUp
  <2>2. t \in Tasks /\ run[w].todo \ {t} \in SUBSET Tasks
    BY <1>1 DEF Local
  <2>3. CASE run' = [run EXCEPT ![w] = Onward(run[w].todo \ {t})]
    <3>1. RunOK(db', Onward(run[w].todo \ {t}))
      BY <1>1, <2>2, OnwardOK
    <3> QED
      BY <1>1, <2>3, <3>1
  <2>4. CASE /\ db.task[t].status = "pending" /\ db' = AfterClaim(t, db.issued + 1)
             /\ run' = [run EXCEPT ![w] = TakenUp(run[w].todo \ {t}, t, db.issued + 1)]
    <3> DEFINE r == TakenUp(run[w].todo \ {t}, t, db.issued + 1)
    <3>1. DbOK(db) /\ db.issued \in Nat
      BY <1>1 DEF TaskInv, Rows
    <3>2. db'.issued = db.issued + 1
      BY <2>2, <2>4, <3>1, ClaimTx, Zenon
    <3>3. db.issued + 1 \in Nat
      BY <3>1
    <3>4. r \in Local /\ r.claim = db.issued + 1 /\ r.pc = "work" /\ r.id = t /\ r.item = 1
      BY <2>2, <3>3, ClaimedLocal
    <3>5. run' = [run EXCEPT ![w] = r]
      BY <2>4
    <3> HIDE DEF r
    <3>6. \A j \in Items : ~(j < 1)
      BY RulesAreCounted DEF Items
    <3>7. RunOK(db', r)
      BY <2>2, <3>1, <3>2, <3>4, <3>6 DEF RunOK, Knows
    <3> QED
      BY <1>1, <3>5, <3>7
  <2> QED
    BY <2>1, <2>3, <2>4
\* A worker that goes to "failing" or "fail" needs to know nothing.
<1>6. ASSUME NEW r, r \in Local, r.id = run[w].id, r.claim = run[w].claim, run[w].id \in Tasks,
             r.pc \in {"failing", "fail"}, r.end \in {"failed", "canceled"}
      PROVE  RunOK(db', r)
  BY <1>1, <1>6 DEF RunOK, Knows
<1>7. CASE Export(w)
  <2> DEFINE r == [run[w] EXCEPT !.pc = "finish", !.snap = Listing, !.end = "completed"]
  <2>1. run' = [run EXCEPT ![w] = r] /\ db' = db /\ run[w].pc = "work" /\ db.task[run[w].id].kind = "export"
    BY <1>1, <1>7 DEF Export, Commit, Working
  <2>2. Listing \in [Items -> Results] /\ "completed" \in Ends
    BY DEF Listing, Results, Ends
  <2>3. r \in Local /\ r.claim = run[w].claim /\ r.pc = "finish" /\ r.id = run[w].id
    BY <1>1, <2>2 DEF Local
  <2> HIDE DEF r
  <2>4. RunOK(db', r)
    BY <1>1, <1>2, <2>1, <2>3 DEF RunOK, Knows
  <2> QED
    BY <1>1, <2>1, <2>4
<1>8. CASE ImportItem(w)
  <2> DEFINE r == [run[w] EXCEPT !.item = run[w].item + 1]
  <2>1. run' = [run EXCEPT ![w] = r] /\ run[w].pc = "work" /\ run[w].item <= Rules
    BY <1>1, <1>8 DEF ImportItem, Working
  <2>2. db'.items[run[w].id][run[w].item] # "none"
    BY <1>8, ItemTx DEF ImportItem, Commit
  <2>3. r \in Local /\ r.claim = run[w].claim /\ r.pc = "work" /\ r.id = run[w].id /\ r.item = run[w].item + 1
    <3>1. run[w].item \in 1..(Rules + 1) /\ run[w].item + 1 \in 1..(Rules + 1)
      BY <1>1, <2>1, RulesAreCounted DEF Local
    <3> QED
      BY <1>1, <2>1, <3>1 DEF Local
  <2> HIDE DEF r
  <2>4. \A j \in Items : j < r.item => j < run[w].item \/ j = run[w].item
    BY <1>1, <2>3, RulesAreCounted DEF Local, Items
  <2>5. Knows(db'.task[run[w].id], db'.items[run[w].id], run[w])
    BY <1>1, <2>1 DEF RunOK
  <2>6. Knows(db'.task[run[w].id], db'.items[run[w].id], r)
    BY <2>1, <2>2, <2>3, <2>4, <2>5 DEF Knows
  <2>7. RunOK(db', r)
    BY <1>1, <1>2, <2>1, <2>3, <2>6 DEF RunOK
  <2> QED
    BY <1>1, <2>1, <2>7
<1>9. CASE ItemTimesOut(w) \/ FinishTimesOut(w)
  <2> DEFINE r == [run[w] EXCEPT !.pc = "failing", !.end = "failed"]
  <2>1. run' = [run EXCEPT ![w] = r] /\ run[w].pc \in {"work", "finish"}
    BY <1>1, <1>9 DEF ItemTimesOut, FinishTimesOut, Working
  <2>2. r \in Local /\ r.claim = run[w].claim /\ r.pc = "failing" /\ r.id = run[w].id /\ r.end = "failed"
    BY <1>1 DEF Local, Ends
  <2> HIDE DEF r
  <2>3. RunOK(db', r)
    BY <1>2, <1>6, <2>1, <2>2
  <2> QED
    BY <1>1, <2>1, <2>3
<1>10. CASE GuardFails(w)
  <2> DEFINE last == IF db.enabled /\ Mine(w) THEN "canceled" ELSE "failed"
             r == [run[w] EXCEPT !.pc = "failing", !.end = last]
  <2>1. run' = [run EXCEPT ![w] = r] /\ run[w].pc = "work"
    BY <1>1, <1>10 DEF GuardFails
  <2>2. last \in {"failed", "canceled"}
    OBVIOUS
  <2> HIDE DEF last
  <2>3. r \in Local /\ r.claim = run[w].claim /\ r.pc = "failing" /\ r.id = run[w].id /\ r.end = last
    BY <1>1, <2>2 DEF Local, Ends
  <2> HIDE DEF r
  <2>4. RunOK(db', r)
    BY <1>2, <1>6, <2>1, <2>2, <2>3
  <2> QED
    BY <1>1, <2>1, <2>4
<1>11. CASE ImportResult(w)
  <2> DEFINE got == db.items[run[w].id]
             last == IF \E i \in Items : got[i] = "rejected" THEN "completed_with_errors" ELSE "completed"
             r == [run[w] EXCEPT !.pc = "finish", !.snap = got, !.end = last]
  <2>1. /\ run' = [run EXCEPT ![w] = r] /\ db' = db
        /\ run[w].pc = "work" /\ db.task[run[w].id].kind = "import" /\ run[w].item > Rules
    BY <1>1, <1>11 DEF ImportResult, Working
  <2>2. got \in Checkpoints /\ got \in [Items -> Results] /\ last \in Ends
    BY <1>1, <1>2, <2>1 DEF Rows, Checkpoints, Ends
  <2>3. \/ last = "completed_with_errors" /\ \E i \in Items : got[i] = "rejected"
        \/ last = "completed" /\ \A i \in Items : got[i] # "rejected"
    OBVIOUS
  <2> HIDE DEF got, last
  <2>4. r \in Local /\ r.claim = run[w].claim /\ r.pc = "finish" /\ r.id = run[w].id /\ r.end = last
    BY <1>1, <2>2 DEF Local
  <2> HIDE DEF r
  <2>5. Knows(db.task[run[w].id], got, r)
    <3> SUFFICES ASSUME db.task[run[w].id].status = "running", db.task[run[w].id].claim = run[w].claim,
                        last = "completed", \A i \in Items : got[i] # "rejected",
                        NEW i \in Items
                 PROVE  got[i] = "ok"
      BY <2>3, <2>4 DEF Knows
    <3>1. Knows(db.task[run[w].id], got, run[w])
      BY <1>1, <2>1 DEF RunOK, got
    <3>2. i < run[w].item
      BY <1>1, <2>1, RulesAreCounted DEF Items, Local
    <3>3. got[i] # "none"
      BY <2>1, <3>1, <3>2 DEF Knows
    <3>4. got[i] \in {"none", "ok", "rejected"}
      BY <2>2 DEF Checkpoints, Results
    <3> QED
      BY <3>3, <3>4
  <2>6. RunOK(db', r)
    BY <1>1, <1>2, <2>1, <2>4, <2>5 DEF RunOK, got
  <2> QED
    BY <1>1, <2>1, <2>6
<1>12. CASE Finish(w) \/ Fail(w)
  <2> DEFINE r == [run[w] EXCEPT !.pc = "failing", !.end = "failed"]
  <2>1. run[w].todo \in SUBSET Tasks /\ {} \in SUBSET Tasks
    BY <1>1 DEF Local
  <2>2. RunOK(db', Onward(run[w].todo)) /\ RunOK(db', Idle)
    BY <1>1, <2>1, OnwardOK
  <2>3. run[w].pc \in {"finish", "fail"} /\ (\/ run' = [run EXCEPT ![w] = Onward(run[w].todo)]
                                            \/ run' = [run EXCEPT ![w] = Idle]
                                            \/ run' = [run EXCEPT ![w] = r])
    BY <1>1, <1>12 DEF Finish, Fail
  <2>4. r \in Local /\ r.claim = run[w].claim /\ r.pc = "failing" /\ r.id = run[w].id /\ r.end = "failed"
    BY <1>1 DEF Local, Ends
  <2> HIDE DEF r
  <2>5. RunOK(db', r)
    BY <1>2, <1>6, <2>3, <2>4
  <2> QED
    BY <1>1, <2>2, <2>3, <2>5
<1>13. CASE FailingResult(w)
  <2> DEFINE r == [run[w] EXCEPT !.pc = "fail", !.snap = db.items[run[w].id]]
  <2>1. run' = [run EXCEPT ![w] = r] /\ run[w].pc = "failing" /\ run[w].end \in {"failed", "canceled"}
    BY <1>1, <1>13 DEF FailingResult, RunOK
  <2>2. db.items[run[w].id] \in [Items -> Results]
    BY <1>1, <1>2, <2>1 DEF Rows, Checkpoints
  <2>3. r \in Local /\ r.claim = run[w].claim /\ r.pc = "fail" /\ r.id = run[w].id /\ r.end = run[w].end
    BY <1>1, <2>2 DEF Local
  <2> HIDE DEF r
  <2>4. RunOK(db', r)
    BY <1>2, <1>6, <2>1, <2>3
  <2> QED
    BY <1>1, <2>1, <2>4
<1>14. CASE Crash(w)
  <2>1. RunOK(db', Idle)
    BY <1>1, OnwardOK
  <2> QED
    BY <1>1, <1>14, <2>1 DEF Crash
<1> QED
  BY <1>3, <1>4, <1>5, <1>7, <1>8, <1>9, <1>10, <1>11, <1>12, <1>13, <1>14 DEF Worker

\* Every worker's knowledge survives every step.
LEMMA RunStep ==
  ASSUME TaskInv, [Next]_vars, DbOK(db'), Follows(db, db')
  PROVE  run' \in [Panels -> Local] /\ \A w \in Panels : RunOK(db', run'[w])
<1>0. \A w \in Panels : RunOK(db', run[w])
  BY KnowledgeKept DEF TaskInv, DbOK
<1>1. CASE UNCHANGED run
  BY <1>0, <1>1 DEF TaskInv
<1>2. ASSUME NEW w \in Panels, Worker(w) \/ Crash(w)
      PROVE  run' \in [Panels -> Local] /\ \A v \in Panels : RunOK(db', run'[v])
  <2>1. PICK r : run' = [run EXCEPT ![w] = r]
    BY <1>2, ActorStep
  <2>2. RunOK(db', run'[w])
    BY <1>2, ActorStep
  <2>3. run \in [Panels -> Local] /\ run'[w] = r
    BY <2>1 DEF TaskInv
  <2>4. r \in Local
    BY <2>2, <2>3 DEF RunOK
  <2>5. \A v \in Panels : v # w => run'[v] = run[v]
    BY <2>1, <2>3
  <2> QED
    BY <1>0, <2>1, <2>2, <2>3, <2>4, <2>5
<1>3. ASSUME NEW t \in Tasks, CreateTask(t) \/ CancelTask(t) \/ GoesQuiet(t) \/ PruneTaskResults(t)
      PROVE  UNCHANGED run
  BY <1>3 DEF CreateTask, CancelTask, GoesQuiet, PruneTaskResults
<1>4. CASE Revoke \/ LateCommits \/ LateRollsBack \/ UNCHANGED vars
  BY <1>1, <1>4 DEF Revoke, LateCommits, LateRollsBack, vars
<1> QED
  BY <1>1, <1>2, <1>3, <1>4 DEF Next

\* A transaction that outlives its caller is one that follows the database, and no
\* other transaction commits while it holds its rows.
LEMMA LateStep ==
  ASSUME TaskInv, [Next]_vars
  PROVE  (\A d \in late' : DbOK(d) /\ Follows(db', d)) /\ Cardinality(late') <= 1
<1>0. (\A d \in late : DbOK(d) /\ Follows(db, d)) /\ Cardinality(late) <= 1
  BY DEF TaskInv
<1>1. CASE late' = {}
  <2>1. Cardinality({}) = 0
    BY FS_EmptySet
  <2> QED
    BY <1>1, <2>1
<1>2. CASE UNCHANGED <<db, late>>
  BY <1>0, <1>2
<1>3. ASSUME NEW w \in Panels, ItemTimesOut(w) \/ FinishTimesOut(w)
      PROVE  (\A d \in late' : DbOK(d) /\ Follows(db', d)) /\ Cardinality(late') <= 1
  <2>1. PICK e : late' = {e} /\ DbOK(e) /\ Follows(db, e)
    BY <1>3, ItemTx, EndTx DEF ItemTimesOut, FinishTimesOut
  <2>2. db' = db
    BY <1>3 DEF ItemTimesOut, FinishTimesOut
  <2>3. Cardinality({e}) = 1
    BY FS_Singleton
  <2> QED
    BY <2>1, <2>2, <2>3
<1>4. ASSUME NEW w \in Panels,
             Reclaim(w) \/ Claim(w) \/ Export(w) \/ ImportItem(w) \/ GuardFails(w) \/ Finish(w) \/ Fail(w)
      PROVE  late' = {}
  BY <1>4 DEF Reclaim, Claim, Export, ImportItem, GuardFails, Finish, Fail, Commit
<1>5. ASSUME NEW w \in Panels, List(w) \/ ImportResult(w) \/ FailingResult(w) \/ Crash(w)
      PROVE  UNCHANGED <<db, late>>
  BY <1>5 DEF List, ImportResult, FailingResult, Crash
<1>6. ASSUME NEW t \in Tasks, CreateTask(t) \/ CancelTask(t) \/ GoesQuiet(t) \/ PruneTaskResults(t)
      PROVE  late' = {}
  BY <1>6 DEF CreateTask, CancelTask, GoesQuiet, PruneTaskResults, Commit
<1>7. CASE Revoke \/ LateCommits \/ LateRollsBack
  BY <1>1, <1>7 DEF Revoke, LateCommits, LateRollsBack, Commit
<1>8. CASE UNCHANGED vars
  BY <1>2, <1>8 DEF vars
<1> QED
  BY <1>1, <1>2, <1>3, <1>4, <1>5, <1>6, <1>7, <1>8 DEF Next, Worker

LEMMA InitInv ==
  ASSUME Init
  PROVE  TaskInv
<1>1. Nothing \in [Items -> Results] /\ Nothing \in Checkpoints
  BY DEF Nothing, Results, Checkpoints
<1>2. Rows(db)
  BY <1>1 DEF Init, Rows, Row, Counts
<1>3. ASSUME NEW t \in Tasks
      PROVE  RowOK(db.task[t], db.items[t], db.made[t], db.issued)
  BY <1>3 DEF Init, RowOK, Ends, Nothing
<1>4. DbOK(db)
  BY <1>2, <1>3 DEF DbOK
<1>5. RunOK(db, Idle)
  BY <1>2, OnwardOK
<1>6. Idle \in Local
  BY <1>5 DEF RunOK
<1>7. run \in [Panels -> Local] /\ \A w \in Panels : RunOK(db, run[w])
  BY <1>5, <1>6 DEF Init
<1>8. Cardinality({}) = 0
  BY FS_EmptySet
<1>9. late = {}
  BY DEF Init
<1> QED
  BY <1>4, <1>7, <1>8, <1>9 DEF TaskInv

LEMMA TaskInduction == Spec => []TaskInv
<1>1. Init => TaskInv
  BY InitInv
<1>2. TaskInv /\ [Next]_vars => TaskInv'
  <2> SUFFICES ASSUME TaskInv, [Next]_vars PROVE TaskInv'
    OBVIOUS
  <2>1. DbOK(db') /\ Follows(db, db')
    BY DbStep
  <2>2. run' \in [Panels -> Local] /\ \A w \in Panels : RunOK(db', run'[w])
    BY <2>1, RunStep
  <2>3. (\A d \in late' : DbOK(d) /\ Follows(db', d)) /\ Cardinality(late') <= 1
    BY LateStep
  <2> QED
    BY <2>1, <2>2, <2>3 DEF TaskInv
<1> QED
  BY <1>1, <1>2, PTL DEF Spec
-----------------------------------------------------------------------------
\* However many panels share the queue, and whichever of them is killed, overtaken
\* or timed out: rows and loops keep their shape, a rule of an import is created at
\* most once, and an import reports "completed" only when every rule was created
\* (RunTasks, runImportTask, finishTask).
THEOREM TasksAreTrue == Spec => []TasksTrue
<1>1. TaskInv => TasksTrue
  <2> SUFFICES ASSUME TaskInv PROVE TasksTrue
    OBVIOUS
  <2>1. Rows(db) /\ \A t \in Tasks : RowOK(db.task[t], db.items[t], db.made[t], db.issued)
    BY DEF TaskInv, DbOK
  <2>2. ASSUME NEW t \in Tasks
        PROVE  /\ db.task[t].kind \in {"import", "export"}
               /\ db.task[t].status \in {"absent", "pending", "running"} \cup Ends
               /\ db.task[t].claim \in 0..db.issued
               /\ db.task[t].status \notin Ends => (db.task[t].status = "running" <=> db.task[t].claim # 0)
               /\ db.task[t].result \in [Items -> Results]
               /\ db.items[t] \in [Items -> Results \ {"listed"}]
               /\ db.task[t].kind = "export" => db.items[t] = Nothing
    <3>1. db.task[t] \in Row /\ db.items[t] \in Checkpoints /\ db.issued \in Nat
      BY <2>1 DEF Rows
    <3>2. db.task[t].claim \in 0..db.issued
      BY <2>1, <3>1 DEF RowOK, Row
    <3> QED
      BY <2>1, <3>1, <3>2 DEF RowOK, Row, Checkpoints
  <2>3. ASSUME NEW w \in Panels
        PROVE  run[w].item \in 1..(Rules + 1) /\ run[w].claim \in 0..db.issued
    BY <2>1 DEF TaskInv, RunOK, Local, Rows
  <2>4. TypeOK
    BY <2>2, <2>3 DEF TypeOK, TaskInv
  <2>5. ImportedOnce /\ CompletedIsTrue
    BY <2>1 DEF RowOK, ImportedOnce, CompletedIsTrue
  <2> QED
    BY <2>4, <2>5 DEF TasksTrue
<1> QED
  BY <1>1, TaskInduction, PTL

\* A task that ended stays as it ended, and one that was cancelled gets no more
\* rules and ends only as canceled, also when a worker that lost its claim goes on
\* or a transaction commits after its caller gave up (finishTask, taskGuard).
THEOREM EndedTasksStayEnded == Spec => NothingReopens
<1>1. TaskInv /\ [Next]_vars => EndIsFinal /\ CancelHolds
  BY DbStep DEF Follows, RowFollows, EndIsFinal, CancelHolds
<1> QED
  BY <1>1, TaskInduction, PTL DEF Spec, NothingReopens
=============================================================================
