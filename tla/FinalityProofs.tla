--------------------------- MODULE FinalityProofs ---------------------------
(***************************************************************************)
(* What is final in Applications: theorems for every set of jobs,          *)
(* requests, sweeps and reports, any size of pool and any number of        *)
(* faults, of the behaviours in which no row changes under a copy of it    *)
(* that waits for a worker.                                                *)
(*                                                                         *)
(* Without that condition they are false (the run long_batch): a run that  *)
(* saves a copy older than the row undoes what happened to the row.  The   *)
(* theorems say that this is the only way in which it goes wrong: neither  *)
(* crashes, lost answers and failed saves, nor sweeps, double taps and     *)
(* retries do any harm as long as the copies that wait stay current.  The  *)
(* last part proves that they do in the three cases the passing runs are   *)
(* instances of.                                                           *)
(***************************************************************************)
EXTENDS ApplicationsProofs, FiniteSetTheorems

(* A row changes only when no run keeps a copy of it that no worker is at: *)
(* in a batch that fits the pool copies wait only for the read of the CV.  *)
CopyOvertaken ==
    \E r \in Runs, j \in Jobs :
        task[r][j].at = "queued" /\ task'[r][j].at = "queued" /\ apps'[j] # apps[j]
WaitingCopiesStay == [][~CopyOvertaken]_vars

(* The hazard the run `reports` shows needs two reports at once.           *)
OneReport == \A p, o \in Reports : p = o

-----------------------------------------------------------------------------
(* The invariant of those behaviours.                                      *)

(* Every copy a run holds is the row.                                      *)
Current ==
    \A r \in Runs, j \in Jobs : task[r][j].at # "none" => task[r][j].row = apps[j]

(* What a request saw as free to apply to still is.                        *)
LockSees ==
    \A q \in Requests : req[q].at = "locked" =>
        \A j \in req[q].wanted : Retryable(req[q].seen[j]) => Retryable(apps[j])

(* A report is about a row that has an outcome, of the batch it read; with *)
(* no other report about, it is the row.                                   *)
ReportsSee ==
    \A p \in Reports : report[p].kind # "idle" =>
        LET j == report[p].job
        IN  /\ j \in External
            /\ apps[j].status \in {"prepared", "opened", "submitted"}
            /\ apps[j].batch = report[p].row.batch
            /\ OneReport => report[p].row = apps[j]

(* Nothing is emailed for a listing the user applies to elsewhere, and     *)
(* nothing else is prepared for download only.                             *)
MethodsKept ==
    /\ \A j \in External : apps[j].status # "sent"
    /\ \A d \in delivered : d[1] \notin External
    /\ \A r \in Runs, j \in Jobs : task[r][j].at \in {"sending", "accepted"} => j \notin External

(* A row is of a batch that is there and lists it.                         *)
BatchLists ==
    \A j \in Jobs : apps[j].status # "absent" =>
        /\ req[apps[j].batch].at = "committed"
        /\ j \in batches[apps[j].batch].apps

(* An email of the batch the row is of had the CV the row shows, and that  *)
(* CV is not made anew.                                                    *)
EmailsMatch ==
    /\ \A d \in delivered :
        /\ req[d[2]].at = "committed"
        /\ d[2] = apps[d[1]].batch => d[3] = apps[d[1]].cv
    /\ \A r \in Runs, j \in Jobs :
        /\ task[r][j].at = "tailoring" => apps[j].cv = None
        /\ task[r][j].at = "accepted" => <<j, apps[j].batch, apps[j].cv>> \in delivered

FInv ==
    /\ IInv /\ BusyOK
    /\ Current /\ LockSees /\ ReportsSee /\ MethodsKept /\ BatchLists
    /\ EmailsMatch
    /\ SentCvIsRecorded /\ DoneBatchHasNoWork

-----------------------------------------------------------------------------
(* What a worker's step at application j of run r does, seen from outside. *)

(* Its row was being processed and stays in its batch; a CV, once made,    *)
(* stays; it is sent only with the CV of an email the provider took.       *)
RowMoves(j) ==
    /\ apps[j].status = "processing"
    /\ apps'[j].status \in {"processing", "sent", "prepared", "failed"}
    /\ apps'[j].batch = apps[j].batch
    /\ apps'[j].cv = apps[j].cv \/ apps[j].cv = None
    /\ apps'[j].status = "prepared" => j \in External
    /\ apps'[j].status = "sent" =>
         j \notin External /\ <<j, apps[j].batch, apps'[j].cv>> \in delivered
    /\ \A i \in Jobs : i # j => apps'[i] = apps[i]

(* It ends the task or keeps it current.                                   *)
TaskMoves(r, j) ==
    LET t == task'[r][j] IN
    /\ t.at \in {"none"} \cup Working
    /\ t.at # "none" => t.row = apps'[j]
    /\ t.at = "tailoring" => apps'[j].cv = None
    /\ t.at \in {"sending", "accepted"} => j \notin External
    /\ t.at = "accepted" => <<j, apps'[j].batch, apps'[j].cv>> \in delivered'
    /\ \A r2 \in Runs, i \in Jobs : (r2 # r \/ i # j) => task'[r2][i] = task[r2][i]

(* At most one email leaves, of the row's batch and CV, the first of them. *)
MailMoves(j) ==
    \/ UNCHANGED delivered
    \/ /\ delivered' = delivered \cup {<<j, apps[j].batch, apps[j].cv>>}
       /\ j \notin External /\ ~Taken(j, apps[j].batch)
       /\ apps[j].cv \in TailoredCvs /\ apps'[j].cv = apps[j].cv
       /\ apps'[j].status \in {"processing", "failed"}

(* No other worker is at the application, unless the step leaves the row.  *)
AloneAt(r, j) ==
    \A r2 \in Runs : r2 # r /\ task[r2][j].at \in Working => apps'[j] = apps[j]

WorkerMoves(r, j) ==
    /\ RowMoves(j) /\ TaskMoves(r, j) /\ MailMoves(j) /\ AloneAt(r, j)
    /\ UNCHANGED <<batches, lock, req, report>>

(* A copy a worker works on is the row, which is being processed.          *)
LEMMA CopyIsRow ==
    ASSUME IInv, Current, NEW r \in Runs, NEW j \in Jobs, task[r][j].at # "none"
    PROVE  /\ task[r][j].row = apps[j]
           /\ apps[j] \in Row /\ WellFormed(apps[j]) /\ apps[j].status = "processing"
           /\ apps[j].batch \in Requests
<1>1. task[r][j].row = apps[j]
  BY DEF Current
<1>2. QED
  BY <1>1, TaskInHand

(* Failing a row changes neither its batch nor its CV.                     *)
LEMMA FailedKeeps ==
    ASSUME NEW row \in Row
    PROVE  /\ Failed(row).status = "failed" /\ Failed(row).batch = row.batch
           /\ Failed(row).cv = row.cv
BY DEF Failed, Row

(* A worker that is at the application is alone there.                     *)
LEMMA WorkerIsAlone ==
    ASSUME BusyOK, NEW r \in Runs, NEW j \in Jobs, task[r][j].at \in Working
    PROVE  AloneAt(r, j)
BY DEF BusyOK, AloneAt

LEMMA ReleaseMoves ==
    ASSUME IInv, NEW r \in Runs, NEW j \in Jobs,
           task' = [task EXCEPT ![r][j] = NoTask]
    PROVE  TaskMoves(r, j)
<1>1. /\ task'[r][j] = NoTask
      /\ \A r2 \in Runs, i \in Jobs : (r2 # r \/ i # j) => task'[r2][i] = task[r2][i]
  BY NoTaskIsTask, PutTask DEF IInv
<1>2. NoTask.at = "none"
  BY NoTaskIsTask
<1>3. QED
  BY <1>1, <1>2 DEF TaskMoves, Working

LEMMA KeepTaskMoves ==
    ASSUME IInv, NEW r \in Runs, NEW j \in Jobs, NEW step \in Working, NEW row \in Row,
           NEW n \in Nat, Keep(r, j, step, row, n), row = apps'[j],
           step = "tailoring" => row.cv = None,
           step \in {"sending", "accepted"} => j \notin External,
           step = "accepted" => <<j, row.batch, row.cv>> \in delivered'
    PROVE  TaskMoves(r, j)
<1>1. /\ task'[r][j] = [at |-> step, row |-> row, tries |-> n]
      /\ \A r2 \in Runs, i \in Jobs : (r2 # r \/ i # j) => task'[r2][i] = task[r2][i]
  BY KeepType DEF IInv
<1>2. task'[r][j].at = step /\ task'[r][j].row = apps'[j]
  BY <1>1
<1>3. QED
  BY <1>1, <1>2 DEF TaskMoves

(* A row left alone moves.                                                 *)
LEMMA SameRowMoves ==
    ASSUME UNCHANGED apps, NEW j \in Jobs, apps[j].status = "processing"
    PROVE  RowMoves(j)
BY DEF RowMoves

LEMMA SaveMoves ==
    ASSUME IInv, NEW j \in Jobs, apps[j].status = "processing",
           NEW row \in Row, WellFormed(row), Save(j, row),
           row.status \in {"processing", "sent", "prepared", "failed"},
           row.batch = apps[j].batch,
           row.cv = apps[j].cv \/ apps[j].cv = None,
           row.status = "prepared" => j \in External,
           row.status = "sent" => j \notin External /\ <<j, apps[j].batch, row.cv>> \in delivered
    PROVE  RowMoves(j) /\ apps'[j] = row
<1>1. apps'[j] = row /\ \A k \in Jobs : k # j => apps'[k] = apps[k]
  BY SaveType DEF IInv
<1>2. QED
  BY <1>1 DEF RowMoves

-----------------------------------------------------------------------------
(* The steps of a worker, one by one.                                      *)

(* Taking an application: skipped, failed for want of a CV, sent to        *)
(* tailoring, or resumed with the CV it has.                               *)
LEMMA StartNextMoves ==
    ASSUME IInv, BusyOK, Current, NEW r \in Runs, NEW j \in Jobs, StartNext(r, j)
    PROVE  WorkerMoves(r, j)
<1> DEFINE row == task[r][j].row
<1> DEFINE tailoring == [row EXCEPT !.stage = "tailoring"]
<1>1. /\ row = apps[j] /\ row \in Row /\ WellFormed(row)
      /\ row.status = "processing" /\ row.status # "absent"
  BY CopyIsRow DEF StartNext
<1>2. UNCHANGED <<batches, lock, req, report, delivered>>
  BY DEF StartNext
<1>3. MailMoves(j)
  BY <1>2 DEF MailMoves
<1>4. ~Busy(j) => AloneAt(r, j)
  BY DEF Busy, BusyOK, AloneAt
<1>5. CASE /\ task' = [task EXCEPT ![r][j] = NoTask]
           /\ UNCHANGED apps
  <2>1. RowMoves(j) /\ TaskMoves(r, j)
    BY <1>1, <1>5, SameRowMoves, ReleaseMoves
  <2>2. AloneAt(r, j)
    BY <1>5 DEF AloneAt
  <2>3. QED
    BY <1>2, <1>3, <2>1, <2>2 DEF WorkerMoves
<1>6. CASE /\ ~Busy(j) /\ Save(j, Failed(row))
           /\ task' = [task EXCEPT ![r][j] = NoTask]
  <2>1. /\ Failed(row) \in Row /\ WellFormed(Failed(row))
        /\ Failed(row).status = "failed" /\ Failed(row).batch = row.batch
        /\ Failed(row).cv = row.cv
    BY <1>1, FailedIsRow, FailedKeeps
  <2>2. RowMoves(j)
    BY <1>1, <1>6, <2>1, SaveMoves
  <2>3. TaskMoves(r, j)
    BY <1>6, ReleaseMoves
  <2>4. QED
    BY <1>2, <1>3, <1>4, <1>6, <2>2, <2>3 DEF WorkerMoves
<1>7. CASE /\ ~Busy(j) /\ ~HasTailoredCv(row)
           /\ Save(j, tailoring) /\ Keep(r, j, "tailoring", tailoring, 0)
  <2>1. /\ tailoring \in Row /\ WellFormed(tailoring)
        /\ tailoring.status = "processing" /\ tailoring.batch = row.batch
        /\ tailoring.cv = row.cv
    BY <1>1, StagedIsRow
  <2>2. row.cv = None /\ "tailoring" \in Working
    BY <1>7 DEF HasTailoredCv, Working
  <2> HIDE DEF tailoring
  <2>3. RowMoves(j) /\ apps'[j] = tailoring
    BY <1>1, <1>7, <2>1, SaveMoves
  <2>4. TaskMoves(r, j)
    BY <1>7, <2>1, <2>2, <2>3, KeepTaskMoves
  <2>5. QED
    BY <1>2, <1>3, <1>4, <1>7, <2>3, <2>4 DEF WorkerMoves
<1>8. CASE /\ ~Busy(j) /\ Keep(r, j, "ready", row, 0)
           /\ UNCHANGED apps
  <2>1. RowMoves(j) /\ row = apps'[j]
    BY <1>1, <1>8, SameRowMoves
  <2>2. TaskMoves(r, j)
    BY <1>1, <1>8, <2>1, KeepTaskMoves DEF Working
  <2>3. QED
    BY <1>2, <1>3, <1>4, <1>8, <2>1, <2>2 DEF WorkerMoves
<1>9. QED
  BY <1>5, <1>6, <1>7, <1>8 DEF StartNext

(* Tailoring gives the row the CV it did not have.                         *)
LEMMA TailorMoves ==
    ASSUME IInv, BusyOK, Current, EmailsMatch, NEW r \in Runs, NEW j \in Jobs, Tailor(r, j)
    PROVE  WorkerMoves(r, j)
<1>1. /\ task[r][j].row = apps[j] /\ apps[j] \in Row /\ WellFormed(apps[j])
      /\ apps[j].status = "processing" /\ task[r][j].at \in Working
  BY CopyIsRow DEF Tailor, Working
<1>2. apps[j].cv = None /\ run[r].cv \in Cvs
  BY TaskInHand DEF Tailor, EmailsMatch
<1>3. PICK changed \in BOOLEAN :
        LET row == [task[r][j].row EXCEPT !.cv = <<run[r].cv, changed>>] IN
           Save(j, row) /\ Keep(r, j, "ready", row, 0)
  BY DEF Tailor
<1> DEFINE row == [apps[j] EXCEPT !.cv = <<run[r].cv, changed>>]
<1>4. Save(j, row) /\ Keep(r, j, "ready", row, 0)
  BY <1>1, <1>3
<1>5. /\ row \in Row /\ WellFormed(row) /\ row.status = "processing"
  BY <1>1, <1>2, TailoredIsRow
<1>6. row.batch = apps[j].batch
  BY <1>1 DEF Row
<1> HIDE DEF row
<1>7. RowMoves(j) /\ apps'[j] = row
  BY <1>1, <1>2, <1>4, <1>5, <1>6, SaveMoves
<1>8. TaskMoves(r, j)
  BY <1>4, <1>5, <1>7, KeepTaskMoves DEF Working
<1>9. MailMoves(j) /\ AloneAt(r, j)
  BY <1>1, WorkerIsAlone DEF Tailor, MailMoves
<1>10. QED
  BY <1>7, <1>8, <1>9 DEF WorkerMoves, Tailor

(* An external listing is kept for download.                               *)
LEMMA PrepareMoves ==
    ASSUME IInv, BusyOK, Current, NEW r \in Runs, NEW j \in Jobs, Prepare(r, j)
    PROVE  WorkerMoves(r, j)
<1> DEFINE row == [apps[j] EXCEPT !.status = "prepared", !.stage = "none"]
<1>1. /\ task[r][j].row = apps[j] /\ apps[j] \in Row /\ WellFormed(apps[j])
      /\ apps[j].status = "processing" /\ task[r][j].at \in Working
  BY CopyIsRow DEF Prepare, Working
<1>2. Save(j, row) /\ Release(r, j) /\ j \in External
  BY <1>1 DEF Prepare
<1>3. /\ row \in Row /\ WellFormed(row) /\ row.status = "prepared" /\ row.batch = apps[j].batch
  BY <1>1, EndedIsRow
<1>4. row.cv = apps[j].cv
  BY <1>1 DEF Row
<1> HIDE DEF row
<1>5. RowMoves(j)
  BY <1>1, <1>2, <1>3, <1>4, SaveMoves
<1>6. TaskMoves(r, j) /\ AloneAt(r, j)
  BY <1>1, <1>2, ReleaseMoves, WorkerIsAlone DEF Release
<1>7. MailMoves(j)
  BY DEF Prepare, MailMoves
<1>8. QED
  BY <1>5, <1>6, <1>7 DEF WorkerMoves, Prepare

(* A row saved as failed, or not saved at all, and the task over.          *)
LEMMA FailingMoves ==
    ASSUME IInv, BusyOK, Current, NEW r \in Runs, NEW j \in Jobs, task[r][j].at \in Working,
           Save(j, Failed(task[r][j].row)) \/ UNCHANGED apps,
           Release(r, j)
    PROVE  /\ RowMoves(j) /\ TaskMoves(r, j) /\ AloneAt(r, j)
           /\ apps'[j].cv = apps[j].cv /\ apps'[j].status \in {"processing", "failed"}
<1>1. /\ task[r][j].row = apps[j] /\ apps[j] \in Row /\ WellFormed(apps[j])
      /\ apps[j].status = "processing"
  BY CopyIsRow DEF Working
<1>2. TaskMoves(r, j) /\ AloneAt(r, j)
  BY ReleaseMoves, WorkerIsAlone DEF Release
<1>3. CASE Save(j, Failed(apps[j]))
  <2>1. /\ Failed(apps[j]) \in Row /\ WellFormed(Failed(apps[j]))
        /\ Failed(apps[j]).status = "failed" /\ Failed(apps[j]).batch = apps[j].batch
        /\ Failed(apps[j]).cv = apps[j].cv
    BY <1>1, FailedIsRow, FailedKeeps
  <2>2. RowMoves(j) /\ apps'[j] = Failed(apps[j])
    BY <1>1, <1>3, <2>1, SaveMoves
  <2>3. QED
    BY <1>2, <2>1, <2>2
<1>4. CASE UNCHANGED apps
  BY <1>1, <1>2, <1>4, SameRowMoves
<1>5. QED
  BY <1>1, <1>3, <1>4

(* The stage moves on, or the row fails for want of a reply address.       *)
LEMMA BeginSendMoves ==
    ASSUME IInv, BusyOK, Current, NEW r \in Runs, NEW j \in Jobs, BeginSend(r, j)
    PROVE  WorkerMoves(r, j)
<1> DEFINE sending == [apps[j] EXCEPT !.stage = "sending"]
<1>1. /\ task[r][j].row = apps[j] /\ apps[j] \in Row /\ WellFormed(apps[j])
      /\ apps[j].status = "processing" /\ task[r][j].at \in Working /\ j \notin External
  BY CopyIsRow DEF BeginSend, Working
<1>2. MailMoves(j) /\ UNCHANGED <<batches, lock, req, report>>
  BY DEF BeginSend, MailMoves
<1>3. CASE Save(j, sending) /\ Keep(r, j, "sending", sending, 0)
  <2>1. /\ sending \in Row /\ WellFormed(sending) /\ sending.status = "processing"
        /\ sending.batch = apps[j].batch /\ sending.cv = apps[j].cv
    BY <1>1, StagedIsRow
  <2> HIDE DEF sending
  <2>2. RowMoves(j) /\ apps'[j] = sending
    BY <1>1, <1>3, <2>1, SaveMoves
  <2>3. TaskMoves(r, j)
    BY <1>1, <1>3, <2>1, <2>2, KeepTaskMoves DEF Working
  <2>4. QED
    BY <1>1, <1>2, <2>2, <2>3, WorkerIsAlone DEF WorkerMoves
<1>4. CASE Save(j, Failed(task[r][j].row)) /\ Release(r, j)
  BY <1>1, <1>2, <1>4, FailingMoves DEF WorkerMoves
<1>5. QED
  BY <1>1, <1>3, <1>4 DEF BeginSend

(* A failed attempt: one more try with the same copy, or the row fails.    *)
LEMMA AttemptMoves ==
    ASSUME IInv, BusyOK, Current, NEW r \in Runs, NEW j \in Jobs,
           task[r][j].at \in {"sending", "accepted"}, j \notin External, AttemptFails(r, j)
    PROVE  /\ RowMoves(j) /\ TaskMoves(r, j) /\ AloneAt(r, j)
           /\ apps'[j].cv = apps[j].cv /\ apps'[j].status \in {"processing", "failed"}
<1>1. /\ task[r][j].row = apps[j] /\ apps[j] \in Row /\ apps[j].status = "processing"
      /\ task[r][j].at \in Working /\ task[r][j].tries \in Nat
  BY CopyIsRow, TaskInHand DEF Working
<1>2. CASE /\ Keep(r, j, "sending", task[r][j].row, task[r][j].tries + 1)
           /\ UNCHANGED apps
  <2>1. task[r][j].tries + 1 \in Nat /\ task[r][j].row = apps'[j] /\ "sending" \in Working
    BY <1>1, <1>2 DEF Working
  <2>2. TaskMoves(r, j)
    BY <1>1, <1>2, <2>1, KeepTaskMoves
  <2>3. QED
    BY <1>1, <1>2, <2>2, SameRowMoves, WorkerIsAlone
<1>3. CASE Save(j, Failed(task[r][j].row)) /\ Release(r, j)
  BY <1>1, <1>3, FailingMoves
<1>4. QED
  BY <1>2, <1>3 DEF AttemptFails

(* The provider takes an email once for each batch, with the row's CV.     *)
LEMMA DeliverMoves ==
    ASSUME IInv, Current, NEW r \in Runs, NEW j \in Jobs, task[r][j].at = "sending",
           j \notin External, Deliver(j, task[r][j].row), apps'[j].cv = apps[j].cv,
           apps'[j].status \in {"processing", "failed"}
    PROVE  MailMoves(j)
<1>1. task[r][j].row = apps[j] /\ task[r][j].row.cv \in TailoredCvs
  BY CopyIsRow, TaskInHand
<1>2. QED
  BY <1>1 DEF Deliver, Deduplicated, MailMoves

LEMMA SendMoves ==
    ASSUME IInv, BusyOK, Current, MethodsKept, EmailsMatch, NEW r \in Runs, NEW j \in Jobs,
           Send(r, j)
    PROVE  WorkerMoves(r, j)
<1>1. /\ task[r][j].row = apps[j] /\ apps[j] \in Row /\ apps[j].status = "processing"
      /\ task[r][j].at = "sending" /\ task[r][j].at \in Working /\ j \notin External
      /\ task[r][j].tries \in Nat /\ apps[j].cv \in TailoredCvs
  BY CopyIsRow, TaskInHand DEF Send, Working, MethodsKept
<1>2. UNCHANGED <<batches, lock, req, report>>
  BY DEF Send
<1>3. CASE /\ Deliver(j, task[r][j].row)
           /\ Keep(r, j, "accepted", task[r][j].row, task[r][j].tries)
           /\ UNCHANGED apps
  <2>1. MailMoves(j)
    BY <1>1, <1>3, DeliverMoves
  <2>2. <<j, apps[j].batch, apps[j].cv>> \in delivered'
    <3>1. CASE Taken(j, apps[j].batch)
      <4>1. PICK cv \in TailoredCvs : <<j, apps[j].batch, cv>> \in delivered
        BY <3>1 DEF Taken
      <4>2. cv = apps[j].cv
        BY <4>1 DEF EmailsMatch
      <4>3. QED
        BY <1>1, <1>3, <4>1, <4>2 DEF Deliver
    <3>2. CASE ~Taken(j, apps[j].batch)
      BY <1>1, <1>3, <3>2 DEF Deliver, Deduplicated
    <3>3. QED
      BY <3>1, <3>2
  <2>3. task[r][j].row = apps'[j] /\ "accepted" \in Working
    BY <1>1, <1>3 DEF Working
  <2>4. TaskMoves(r, j)
    BY <1>1, <1>3, <2>2, <2>3, KeepTaskMoves
  <2>5. QED
    BY <1>1, <1>2, <1>3, <2>1, <2>4, SameRowMoves, WorkerIsAlone DEF WorkerMoves
<1>4. CASE AttemptFails(r, j) /\ (Deliver(j, task[r][j].row) \/ UNCHANGED delivered)
  <2>1. /\ RowMoves(j) /\ TaskMoves(r, j) /\ AloneAt(r, j)
        /\ apps'[j].cv = apps[j].cv /\ apps'[j].status \in {"processing", "failed"}
    BY <1>1, <1>4, AttemptMoves
  <2>2. MailMoves(j)
    <3>1. CASE Deliver(j, task[r][j].row)
      BY <1>1, <2>1, <3>1, DeliverMoves
    <3>2. CASE UNCHANGED delivered
      BY <3>2 DEF MailMoves
    <3>3. QED
      BY <1>4, <3>1, <3>2
  <2>3. QED
    BY <1>2, <2>1, <2>2 DEF WorkerMoves
<1>5. QED
  BY <1>3, <1>4 DEF Send

LEMMA SaveSentMoves ==
    ASSUME IInv, BusyOK, Current, MethodsKept, EmailsMatch, NEW r \in Runs, NEW j \in Jobs,
           SaveSent(r, j)
    PROVE  WorkerMoves(r, j)
<1> DEFINE row == [apps[j] EXCEPT !.status = "sent", !.stage = "none"]
<1>1. /\ task[r][j].row = apps[j] /\ apps[j] \in Row /\ WellFormed(apps[j])
      /\ apps[j].status = "processing"
      /\ task[r][j].at = "accepted" /\ task[r][j].at \in Working /\ j \notin External
  BY CopyIsRow DEF SaveSent, Working, MethodsKept
<1>2. MailMoves(j) /\ UNCHANGED <<batches, lock, req, report>>
  BY DEF SaveSent, MailMoves
<1>3. CASE Save(j, row) /\ Release(r, j)
  <2>1. row \in Row /\ WellFormed(row) /\ row.status = "sent" /\ row.batch = apps[j].batch
    BY <1>1, EndedIsRow
  <2>2. row.cv = apps[j].cv
    BY <1>1 DEF Row
  <2>3. <<j, apps[j].batch, row.cv>> \in delivered
    BY <1>1, <2>2 DEF EmailsMatch
  <2> HIDE DEF row
  <2>4. RowMoves(j)
    BY <1>1, <1>3, <2>1, <2>2, <2>3, SaveMoves
  <2>5. QED
    BY <1>1, <1>2, <1>3, <2>4, ReleaseMoves, WorkerIsAlone DEF WorkerMoves, Release
<1>4. CASE AttemptFails(r, j)
  BY <1>1, <1>2, <1>4, AttemptMoves DEF WorkerMoves
<1>5. QED
  BY <1>1, <1>3, <1>4 DEF SaveSent

LEMMA ProcessThrowsMoves ==
    ASSUME IInv, BusyOK, Current, NEW r \in Runs, NEW j \in Jobs, ProcessThrows(r, j)
    PROVE  WorkerMoves(r, j)
<1>1. task[r][j].at \in Working
  BY DEF ProcessThrows, Working
<1>2. MailMoves(j)
  BY DEF ProcessThrows, MailMoves
<1>3. QED
  BY <1>1, <1>2, FailingMoves DEF ProcessThrows, WorkerMoves

(* Every step of a worker is such a step.                                  *)
LEMMA WorkersMove ==
    ASSUME FInv, NEW r \in Runs, NEW j \in Jobs, WorkOn(r, j) \/ ProcessThrows(r, j)
    PROVE  WorkerMoves(r, j)
BY StartNextMoves, TailorMoves, PrepareMoves, BeginSendMoves, SendMoves, SaveSentMoves,
   ProcessThrowsMoves DEF WorkOn, FInv

-----------------------------------------------------------------------------
(* A worker's step keeps the invariant.                                    *)

(* The one place where the hypothesis is needed: a waiting copy of another *)
(* run stays current only as long as the row does not change.              *)
LEMMA WorkerKeepsCurrent ==
    ASSUME IInv, Current, NEW r \in Runs, NEW j \in Jobs, WorkerMoves(r, j), ~CopyOvertaken
    PROVE  Current'
<1> SUFFICES ASSUME NEW r2 \in Runs, NEW i \in Jobs, task'[r2][i].at # "none"
             PROVE  task'[r2][i].row = apps'[i]
  BY DEF Current
<1>1. CASE r2 = r /\ i = j
  BY <1>1 DEF WorkerMoves, TaskMoves
<1>2. CASE i # j
  BY <1>2 DEF WorkerMoves, TaskMoves, RowMoves, Current
<1>3. CASE r2 # r /\ i = j
  <2>1. task'[r2][j] = task[r2][j] /\ task[r2][j].row = apps[j]
    BY <1>3 DEF WorkerMoves, TaskMoves, Current
  <2>2. task[r2][j].at \in Working => apps'[j] = apps[j]
    BY <1>3 DEF WorkerMoves, AloneAt
  <2>3. task[r2][j].at = "queued" => apps'[j] = apps[j]
    BY <2>1 DEF CopyOvertaken
  <2>4. task[r2][j].at \in {"none", "queued"} \cup Working
    BY DEF IInv, TypeOK, Task
  <2>5. QED
    BY <1>3, <2>1, <2>2, <2>3, <2>4
<1>4. QED
  BY <1>1, <1>2, <1>3

(* What others wait to do concerns rows that are not being processed.      *)
LEMMA WorkerKeepsWaiting ==
    ASSUME IInv, LockSees, ReportsSee, NEW r \in Runs, NEW j \in Jobs, WorkerMoves(r, j)
    PROVE  LockSees' /\ ReportsSee'
<1>1. /\ apps[j].status = "processing" /\ ~Retryable(apps[j])
      /\ \A i \in Jobs : i # j => apps'[i] = apps[i]
      /\ UNCHANGED <<req, report>>
  BY DEF WorkerMoves, RowMoves, Retryable
<1>2. LockSees'
  <2> SUFFICES ASSUME NEW q \in Requests, req'[q].at = "locked",
                      NEW i \in req'[q].wanted, Retryable(req'[q].seen[i])
               PROVE  Retryable(apps'[i])
    BY DEF LockSees, Retryable
  <2>1. Retryable(apps[i]) /\ i \in Jobs
    BY <1>1 DEF LockSees, Retryable, IInv, TypeOK, Request
  <2>2. i # j
    BY <1>1, <2>1
  <2>3. QED
    BY <1>1, <2>1, <2>2
<1>3. ReportsSee'
  <2> SUFFICES ASSUME NEW p \in Reports, report'[p].kind # "idle"
               PROVE  LET i == report[p].job
                      IN  /\ i \in External
                          /\ apps'[i].status \in {"prepared", "opened", "submitted"}
                          /\ apps'[i].batch = report[p].row.batch
                          /\ OneReport => report[p].row = apps'[i]
    BY <1>1 DEF ReportsSee, OneReport
  <2>1. report[p].kind # "idle"
    BY <1>1
  <2>2. report[p].job \in Jobs /\ report[p].job # j
    BY <1>1, <2>1, ConstantsAssumption DEF ReportsSee
  <2>3. QED
    BY <1>1, <2>1, <2>2 DEF ReportsSee
<1>4. QED
  BY <1>2, <1>3

LEMMA WorkerKeepsMethods ==
    ASSUME IInv, MethodsKept, NEW r \in Runs, NEW j \in Jobs, WorkerMoves(r, j)
    PROVE  MethodsKept'
<1>1. ASSUME NEW i \in External PROVE apps'[i].status # "sent"
  <2>1. i \in Jobs
    BY ConstantsAssumption
  <2>2. QED
    BY <2>1 DEF MethodsKept, WorkerMoves, RowMoves
<1>2. ASSUME NEW d \in delivered' PROVE d[1] \notin External
  BY DEF MethodsKept, WorkerMoves, MailMoves
<1>3. ASSUME NEW r2 \in Runs, NEW i \in Jobs, task'[r2][i].at \in {"sending", "accepted"}
      PROVE  i \notin External
  BY <1>3 DEF MethodsKept, WorkerMoves, TaskMoves
<1>4. QED
  BY <1>1, <1>2, <1>3 DEF MethodsKept

LEMMA WorkerKeepsLists ==
    ASSUME BatchLists, DoneBatchHasNoWork, NEW r \in Runs, NEW j \in Jobs, WorkerMoves(r, j)
    PROVE  BatchLists' /\ DoneBatchHasNoWork'
<1>1. \A i \in Jobs : /\ apps'[i].batch = apps[i].batch
                      /\ apps'[i].status # "absent" => apps[i].status # "absent"
                      /\ apps'[i].status = "processing" => apps[i].status = "processing"
  BY DEF WorkerMoves, RowMoves
<1>2. UNCHANGED <<batches, req>>
  BY DEF WorkerMoves
<1>3. QED
  BY <1>1, <1>2 DEF BatchLists, DoneBatchHasNoWork

LEMMA WorkerKeepsEmails ==
    ASSUME IInv, BusyOK, BatchLists, EmailsMatch, SentCvIsRecorded,
           NEW r \in Runs, NEW j \in Jobs, WorkerMoves(r, j)
    PROVE  EmailsMatch' /\ SentCvIsRecorded'
<1>1. /\ UNCHANGED req
      /\ \A i \in Jobs : i # j => apps'[i] = apps[i]
      /\ apps[j].status = "processing" /\ apps'[j].batch = apps[j].batch
      /\ apps'[j].cv = apps[j].cv \/ apps[j].cv = None
  BY DEF WorkerMoves, RowMoves
<1>2. delivered \subseteq delivered'
  BY DEF WorkerMoves, MailMoves
<1>3. delivered \subseteq Jobs \X Requests \X TailoredCvs /\ None \notin TailoredCvs
  BY ConstantsAssumption DEF IInv, TypeOK
<1>4. ASSUME NEW d \in delivered
      PROVE  /\ req'[d[2]].at = "committed"
             /\ d[2] = apps'[d[1]].batch => d[3] = apps'[d[1]].cv
  <2>1. /\ d[1] \in Jobs /\ d[3] # None
        /\ req[d[2]].at = "committed"
        /\ d[2] = apps[d[1]].batch => d[3] = apps[d[1]].cv
    BY <1>3 DEF EmailsMatch
  <2>2. CASE d[1] # j
    BY <1>1, <2>1, <2>2
  <2>3. CASE d[1] = j
    BY <1>1, <2>1, <2>3
  <2>4. QED
    BY <2>2, <2>3
<1>5. ASSUME NEW d \in delivered', d \notin delivered
      PROVE  /\ req'[d[2]].at = "committed"
             /\ d[2] = apps'[d[1]].batch => d[3] = apps'[d[1]].cv
  <2>1. d = <<j, apps[j].batch, apps[j].cv>> /\ apps'[j].cv = apps[j].cv
    BY <1>5 DEF WorkerMoves, MailMoves
  <2>2. req[apps[j].batch].at = "committed"
    BY <1>1 DEF BatchLists
  <2>3. QED
    BY <1>1, <2>1, <2>2
<1>6. ASSUME NEW r2 \in Runs, NEW i \in Jobs
      PROVE  /\ task'[r2][i].at = "tailoring" => apps'[i].cv = None
             /\ task'[r2][i].at = "accepted" => <<i, apps'[i].batch, apps'[i].cv>> \in delivered'
  <2>1. CASE r2 = r /\ i = j
    BY <2>1 DEF WorkerMoves, TaskMoves
  <2>2. CASE r2 # r \/ i # j
    <3>1. task'[r2][i] = task[r2][i]
      BY <2>2 DEF WorkerMoves, TaskMoves
    <3>2. task[r2][i].at \in Working => apps'[i] = apps[i]
      BY <1>1, <2>2 DEF WorkerMoves, AloneAt
    <3>3. QED
      BY <1>2, <3>1, <3>2 DEF EmailsMatch, Working
  <2>3. QED
    BY <2>1, <2>2
<1>7. EmailsMatch'
  BY <1>4, <1>5, <1>6 DEF EmailsMatch
<1>8. SentCvIsRecorded'
  <2> SUFFICES ASSUME NEW i \in Jobs, apps'[i].status = "sent"
               PROVE  <<i, apps'[i].batch, apps'[i].cv>> \in delivered'
    BY DEF SentCvIsRecorded
  <2>1. CASE i = j
    BY <1>1, <1>2, <2>1 DEF WorkerMoves, RowMoves
  <2>2. CASE i # j
    BY <1>1, <1>2, <2>2 DEF SentCvIsRecorded
  <2>3. QED
    BY <2>1, <2>2
<1>9. QED
  BY <1>7, <1>8

LEMMA WorkerKeeps ==
    ASSUME FInv, NEW r \in Runs, NEW j \in Jobs, WorkOn(r, j) \/ ProcessThrows(r, j),
           IInv', BusyOK', ~CopyOvertaken
    PROVE  FInv'
<1>1. WorkerMoves(r, j)
  BY WorkersMove
<1>2. QED
  BY <1>1, WorkerKeepsCurrent, WorkerKeepsWaiting, WorkerKeepsMethods, WorkerKeepsLists,
     WorkerKeepsEmails DEF FInv

-----------------------------------------------------------------------------
(* The steps that leave rows and emails alone.                             *)

(* They load copies and drop them, let requests and reports read, and      *)
(* close batches in which nothing is processed.                            *)
NewlyDone(q) == batches'[q].status = "done" /\ batches[q].status # "done"

OnlyReads ==
    /\ UNCHANGED <<apps, delivered>>
    /\ \A r \in Runs, j \in Jobs :
        LET t == task'[r][j] IN
        t = task[r][j] \/ t.at = "none" \/ (t.at = "queued" /\ t.row = apps[j])
    /\ \A q \in Requests :
        /\ req[q].at = "committed" => req'[q].at = "committed"
        /\ req'[q].at = "locked" =>
             req'[q] = req[q] \/ \A j \in req'[q].wanted : req'[q].seen[j] = apps[j]
        /\ batches'[q].apps = batches[q].apps
        /\ NewlyDone(q) =>
             \A j \in Jobs : apps[j].batch = q => apps[j].status # "processing"
    /\ \A p \in Reports : report'[p].kind # "idle" =>
        \/ report'[p] = report[p]
        \/ /\ report'[p].job \in External
           /\ report'[p].row = apps[report'[p].job]
           /\ report'[p].row.status \in {"prepared", "opened"}

LEMMA ReadsKeep ==
    ASSUME FInv, OnlyReads, IInv', BusyOK'
    PROVE  FInv'
<1>1. UNCHANGED <<apps, delivered>>
  BY DEF OnlyReads
<1>2. Current'
  BY DEF OnlyReads, FInv, Current
<1>3. LockSees'
  BY DEF OnlyReads, FInv, LockSees, Retryable
<1>4. ReportsSee'
  BY DEF OnlyReads, FInv, ReportsSee, OneReport
<1>5. MethodsKept'
  BY DEF OnlyReads, FInv, MethodsKept
<1>6. ASSUME NEW j \in Jobs, apps'[j].status # "absent"
      PROVE  /\ req'[apps'[j].batch].at = "committed"
             /\ j \in batches'[apps'[j].batch].apps
  <2>1. apps[j].batch \in Requests
    BY <1>1, <1>6 DEF FInv, IInv, TypeOK, Row, WellFormed
  <2>2. QED
    BY <1>1, <1>6, <2>1 DEF OnlyReads, FInv, BatchLists
<1>7. EmailsMatch'
  <2>1. \A d \in delivered : d[2] \in Requests
    BY DEF FInv, IInv, TypeOK
  <2>2. QED
    BY <2>1 DEF OnlyReads, FInv, EmailsMatch
<1>8. SentCvIsRecorded'
  BY <1>1 DEF FInv, SentCvIsRecorded
<1>9. DoneBatchHasNoWork'
  BY DEF OnlyReads, NewlyDone, FInv, DoneBatchHasNoWork
<1>10. QED
  BY <1>2, <1>3, <1>4, <1>5, <1>6, <1>7, <1>8, <1>9 DEF FInv, BatchLists

LEMMA ReadExistingReads ==
    ASSUME IInv, NEW q \in Requests, ReadExisting(q)
    PROVE  OnlyReads
<1>1. PICK wanted \in SUBSET Jobs :
        req' = [req EXCEPT ![q] = [at |-> "locked", wanted |-> wanted,
                  seen |-> [j \in Jobs |-> IF j \in wanted THEN apps[j] ELSE NoRow]]]
  BY DEF ReadExisting
<1>2. req[q].at = "idle" /\ UNCHANGED <<apps, delivered, batches, task, report>>
  BY DEF ReadExisting, stored
<1>3. ASSUME NEW q2 \in Requests
      PROVE  /\ req[q2].at = "committed" => req'[q2].at = "committed"
             /\ req'[q2].at = "locked" =>
                  req'[q2] = req[q2] \/ \A j \in req'[q2].wanted : req'[q2].seen[j] = apps[j]
  BY <1>1, <1>2 DEF IInv, TypeOK
<1>4. QED
  BY <1>2, <1>3 DEF OnlyReads, NewlyDone

LEMMA LoadBatchReads ==
    ASSUME IInv, NEW r \in Runs, LoadBatch(r)
    PROVE  OnlyReads
<1>1. UNCHANGED <<apps, delivered, batches, req, report>>
  BY DEF LoadBatch, stored
<1>2. ASSUME NEW r2 \in Runs, NEW j \in Jobs
      PROVE  \/ task'[r2][j] = task[r2][j]
             \/ task'[r2][j].at = "none"
             \/ task'[r2][j].at = "queued" /\ task'[r2][j].row = apps[j]
  BY DEF LoadBatch, NoTask, IInv, TypeOK
<1>3. QED
  BY <1>1, <1>2 DEF OnlyReads, NewlyDone

LEMMA CloseBatchReads ==
    ASSUME IInv, NEW r \in Runs, CloseBatch(r)
    PROVE  OnlyReads
<1> DEFINE b == run[r].batch
<1>1. UNCHANGED <<apps, delivered, task, req, report>>
  BY DEF CloseBatch
<1>2. ASSUME NEW q \in Requests
      PROVE  /\ batches'[q].apps = batches[q].apps
             /\ NewlyDone(q) => \A j \in Jobs : apps[j].batch = q => apps[j].status # "processing"
  <2>1. CASE UNCHANGED batches
    BY <2>1 DEF NewlyDone
  <2>2. CASE NothingProcessing(b) /\ batches' = [batches EXCEPT ![b].status = "done"]
    BY <2>2 DEF NewlyDone, NothingProcessing, IInv, TypeOK, Batch
  <2>3. QED
    BY <2>1, <2>2 DEF CloseBatch
<1>3. QED
  BY <1>1, <1>2 DEF OnlyReads

LEMMA PollBatchReads ==
    ASSUME IInv, BatchLists, NEW q \in Requests, PollBatch(q)
    PROVE  OnlyReads
<1>1. /\ UNCHANGED <<apps, delivered, task, req, report>>
      /\ AllEnded(q) /\ batches' = [batches EXCEPT ![q].status = "done"]
  BY DEF PollBatch
<1>2. ASSUME NEW j \in Jobs, apps[j].batch = q PROVE apps[j].status # "processing"
  BY <1>1, <1>2 DEF AllEnded, BatchLists
<1>3. ASSUME NEW q2 \in Requests
      PROVE  /\ batches'[q2].apps = batches[q2].apps
             /\ NewlyDone(q2) => \A j \in Jobs : apps[j].batch = q2 => apps[j].status # "processing"
  BY <1>1, <1>2 DEF NewlyDone, IInv, TypeOK, Batch
<1>4. QED
  BY <1>1, <1>3 DEF OnlyReads

LEMMA ReadForReportReads ==
    ASSUME IInv, NEW p \in Reports, ReadForReport(p)
    PROVE  OnlyReads
<1>1. UNCHANGED <<apps, delivered, batches, task, req>>
  BY DEF ReadForReport, stored
<1>2. PICK j \in External, kind \in {"opened", "submitted"} :
        /\ IF kind = "opened" THEN MayOpen(apps[j]) ELSE MaySubmit(apps[j])
        /\ report' = [report EXCEPT ![p] = [kind |-> kind, job |-> j, row |-> apps[j]]]
  BY DEF ReadForReport
<1>3. apps[j].status \in {"prepared", "opened"}
  BY <1>2 DEF MayOpen, MaySubmit
<1>4. ASSUME NEW p2 \in Reports
      PROVE  \/ report'[p2] = report[p2]
             \/ /\ report'[p2].job \in External
                /\ report'[p2].row = apps[report'[p2].job]
                /\ report'[p2].row.status \in {"prepared", "opened"}
  BY <1>2, <1>3 DEF IInv, TypeOK
<1>5. QED
  BY <1>1, <1>4 DEF OnlyReads, NewlyDone

LEMMA CrashReads ==
    ASSUME IInv, Crash
    PROVE  OnlyReads
<1>1. UNCHANGED <<apps, delivered, batches>>
  BY DEF Crash, stored
<1>2. \A r \in Runs, j \in Jobs : task'[r][j].at = "none"
  BY NoTaskIsTask DEF Crash
<1>3. \A q \in Requests : req'[q].at # "locked" /\ (req[q].at # "locked" => req'[q] = req[q])
  BY DEF Crash, NoRequest
<1>4. \A p \in Reports : report'[p].kind = "idle"
  BY DEF Crash, NoReport
<1>5. QED
  BY <1>1, <1>2, <1>3, <1>4 DEF OnlyReads, NewlyDone

(* The rest touch nothing the invariant is about.                          *)
LEMMA StillReads ==
    ASSUME UNCHANGED <<apps, delivered, batches, task, req, report>>
    PROVE  OnlyReads
BY DEF OnlyReads, NewlyDone

-----------------------------------------------------------------------------
(* The two other steps that write rows.                                    *)

(* A commit writes rows that are free: none that a run, a report or        *)
(* another request holds.                                                  *)
CommitWrites(q) ==
    LET toProcess == {j \in req[q].wanted : Retryable(req[q].seen[j])} IN
    /\ req[q].at = "locked" /\ toProcess \subseteq Jobs
    /\ \A j \in toProcess : Retryable(apps[j])
    /\ apps' = [j \in Jobs |-> IF j \in toProcess THEN Fresh(q) ELSE apps[j]]
    /\ batches' = [batches EXCEPT ![q] =
          [status |-> IF toProcess = {} THEN "done" ELSE "processing", apps |-> toProcess]]
    /\ req' = [req EXCEPT ![q] = [NoRequest EXCEPT !.at = "committed"]]
    /\ \A q2 \in Requests : q2 # q => req[q2].at # "locked"
    /\ UNCHANGED <<delivered, task, report>>

LEMMA CommitShape ==
    ASSUME IInv, LockSees, NEW q \in Requests, Commit(q)
    PROVE  CommitWrites(q)
<1> DEFINE toProcess == {j \in req[q].wanted : Retryable(req[q].seen[j])}
<1>1. req[q].at = "locked" /\ req[q].wanted \subseteq Jobs
  BY DEF Commit, IInv, TypeOK, Request
<1>2. ~ \E j \in toProcess : req[q].seen[j].status = "absent" /\ apps[j].status # "absent"
  BY <1>1, CommitDoesNotCollide
<1>3. \A j \in toProcess : Retryable(apps[j])
  BY <1>1 DEF LockSees
<1>4. \A q2 \in Requests : q2 # q => req[q2].at # "locked"
  BY <1>1 DEF IInv, CopiesOK, RequestsOK
<1>5. /\ req' = [req EXCEPT ![q] = [NoRequest EXCEPT !.at = "committed"]]
      /\ apps' = [j \in Jobs |-> IF j \in toProcess THEN Fresh(q) ELSE apps[j]]
      /\ batches' = [batches EXCEPT ![q] =
            [status |-> IF toProcess = {} THEN "done" ELSE "processing", apps |-> toProcess]]
      /\ UNCHANGED <<delivered, task, report>>
  BY <1>2 DEF Commit
<1>6. QED
  BY <1>1, <1>3, <1>4, <1>5 DEF CommitWrites

LEMMA CommitKeeps ==
    ASSUME FInv, NEW q \in Requests, CommitWrites(q), IInv', BusyOK'
    PROVE  FInv'
<1> DEFINE toProcess == {j \in req[q].wanted : Retryable(req[q].seen[j])}
<1>1. /\ req[q].at = "locked" /\ toProcess \subseteq Jobs
      /\ \A j \in toProcess : apps[j].status \in {"absent", "failed"}
      /\ \A j \in toProcess : apps'[j] = Fresh(q)
      /\ \A j \in Jobs : j \notin toProcess => apps'[j] = apps[j]
      /\ UNCHANGED <<delivered, task, report>>
  BY DEF CommitWrites, Retryable
<1>2. /\ batches'[q].apps = toProcess
      /\ batches'[q].status = "done" => toProcess = {}
      /\ req'[q].at = "committed"
      /\ \A q2 \in Requests : q2 # q => batches'[q2] = batches[q2] /\ req'[q2] = req[q2]
      /\ \A q2 \in Requests : req'[q2].at # "locked"
  BY DEF CommitWrites, FInv, IInv, TypeOK, NoRequest
<1>3. /\ Fresh(q).status = "processing" /\ Fresh(q).batch = q
  BY DEF Fresh, NoRow
<1>4. \A j \in Jobs : /\ apps[j].status # "absent" => apps[j].batch \in Requests
                      /\ apps[j].batch # q
  <2> SUFFICES ASSUME NEW j \in Jobs
               PROVE  /\ apps[j].status # "absent" => apps[j].batch \in Requests
                      /\ apps[j].batch # q
    OBVIOUS
  <2>1. apps[j] \in Row /\ WellFormed(apps[j])
    BY DEF FInv, IInv, TypeOK
  <2>2. CASE apps[j].status = "absent"
    BY <2>1, <2>2, ConstantsAssumption DEF WellFormed
  <2>3. CASE apps[j].status # "absent"
    BY <1>1, <2>1, <2>3 DEF WellFormed, Row, FInv, BatchLists
  <2>4. QED
    BY <2>2, <2>3
<1>5. ASSUME NEW j \in toProcess, NEW r \in Runs PROVE task[r][j].at = "none"
  <2>1. j \in Jobs /\ apps[j].status # "processing"
    BY <1>1
  <2>2. QED
    BY <2>1, CopyIsRow DEF FInv
<1>6. Current'
  <2> SUFFICES ASSUME NEW r \in Runs, NEW j \in Jobs, task[r][j].at # "none"
               PROVE  task[r][j].row = apps'[j]
    BY <1>1 DEF Current
  <2>1. j \notin toProcess
    BY <1>5
  <2>2. QED
    BY <1>1, <2>1 DEF FInv, Current
<1>7. LockSees'
  BY <1>2 DEF LockSees
<1>8. ReportsSee'
  <2> SUFFICES ASSUME NEW p \in Reports, report[p].kind # "idle"
               PROVE  LET i == report[p].job
                      IN  /\ i \in External
                          /\ apps'[i].status \in {"prepared", "opened", "submitted"}
                          /\ apps'[i].batch = report[p].row.batch
                          /\ OneReport => report[p].row = apps'[i]
    BY <1>1 DEF ReportsSee, OneReport
  <2>1. report[p].job \in Jobs /\ report[p].job \notin toProcess
    BY <1>1, ConstantsAssumption DEF FInv, ReportsSee
  <2>2. QED
    BY <1>1, <2>1 DEF FInv, ReportsSee
<1>9. MethodsKept'
  <2>1. ASSUME NEW i \in External PROVE apps'[i].status # "sent"
    BY <1>1, <1>3, ConstantsAssumption DEF FInv, MethodsKept
  <2>2. QED
    BY <1>1, <2>1 DEF FInv, MethodsKept
<1>10. BatchLists'
  <2> SUFFICES ASSUME NEW j \in Jobs, apps'[j].status # "absent"
               PROVE  /\ req'[apps'[j].batch].at = "committed"
                      /\ j \in batches'[apps'[j].batch].apps
    BY DEF BatchLists
  <2>1. CASE j \in toProcess
    BY <1>1, <1>2, <1>3, <2>1
  <2>2. CASE j \notin toProcess
    <3>1. /\ apps'[j] = apps[j] /\ apps[j].batch \in Requests /\ apps[j].batch # q
      BY <1>1, <1>4, <2>2
    <3>2. QED
      BY <1>2, <3>1 DEF FInv, BatchLists
  <2>3. QED
    BY <2>1, <2>2
<1>11. EmailsMatch'
  <2>1. ASSUME NEW d \in delivered
        PROVE  /\ req'[d[2]].at = "committed"
               /\ d[2] = apps'[d[1]].batch => d[3] = apps'[d[1]].cv
    <3>1. d[1] \in Jobs /\ d[2] \in Requests /\ req[d[2]].at = "committed"
      BY DEF FInv, EmailsMatch, IInv, TypeOK
    <3>2. d[2] # q
      BY <1>1, <3>1
    <3>3. QED
      BY <1>1, <1>2, <1>3, <3>1, <3>2 DEF FInv, EmailsMatch
  <2>2. ASSUME NEW r \in Runs, NEW j \in Jobs, task[r][j].at # "none"
        PROVE  apps'[j] = apps[j]
    BY <1>1, <1>5, <2>2
  <2>3. QED
    BY <1>1, <2>1, <2>2 DEF FInv, EmailsMatch
<1>12. SentCvIsRecorded'
  BY <1>1, <1>3 DEF FInv, SentCvIsRecorded
<1>13. DoneBatchHasNoWork'
  <2> SUFFICES ASSUME NEW q2 \in Requests, batches'[q2].status = "done",
                      NEW j \in Jobs, apps'[j].batch = q2
               PROVE  apps'[j].status # "processing"
    BY DEF DoneBatchHasNoWork
  <2>1. CASE q2 = q
    BY <1>1, <1>2, <1>3, <1>4, <2>1
  <2>2. CASE q2 # q
    BY <1>1, <1>2, <1>3, <2>2 DEF FInv, DoneBatchHasNoWork
  <2>3. QED
    BY <2>1, <2>2
<1>14. QED
  BY <1>6, <1>7, <1>8, <1>9, <1>10, <1>11, <1>12, <1>13 DEF FInv

(* A report's save is about a row with an outcome, which no run holds, and *)
(* keeps its batch; with no other report about, the row is as it was read. *)
ReportWrites(p) ==
    LET j == report[p].job IN
    /\ report[p].kind # "idle"
    /\ j \in External /\ j \in Jobs
    /\ apps[j].status \in {"prepared", "opened", "submitted"}
    /\ apps'[j] = Reported(p)
    /\ Reported(p).status \in {"opened", "submitted"}
    /\ Reported(p).batch = apps[j].batch
    /\ \A i \in Jobs : i # j => apps'[i] = apps[i]
    /\ report' = [report EXCEPT ![p] = NoReport]
    /\ UNCHANGED <<batches, delivered, req, task>>

LEMMA SaveReportShape ==
    ASSUME IInv, ReportsSee, NEW p \in Reports, SaveReport(p)
    PROVE  ReportWrites(p)
<1> DEFINE j == report[p].job
<1>1. /\ report[p].kind # "idle" /\ Save(j, Reported(p))
      /\ report' = [report EXCEPT ![p] = NoReport]
      /\ UNCHANGED <<batches, delivered, req, task>>
  BY DEF SaveReport
<1>2. /\ j \in External /\ j \in Jobs
      /\ apps[j].status \in {"prepared", "opened", "submitted"}
      /\ apps[j].batch = report[p].row.batch
  BY <1>1, ConstantsAssumption DEF ReportsSee
<1>3. /\ Reported(p) \in Row /\ WellFormed(Reported(p))
      /\ Reported(p).status \in {"opened", "submitted"}
  BY <1>1, ReportedIsRow DEF IInv, CopiesOK
<1>4. Reported(p).batch = report[p].row.batch
  <2>1. report[p].row \in Row
    BY DEF IInv, TypeOK, Report
  <2>2. QED
    BY <2>1 DEF Reported, Row
<1>5. apps'[j] = Reported(p) /\ \A i \in Jobs : i # j => apps'[i] = apps[i]
  BY <1>1, <1>2, <1>3, SaveType DEF IInv
<1>6. QED
  BY <1>1, <1>2, <1>3, <1>4, <1>5 DEF ReportWrites

LEMMA ReportKeeps ==
    ASSUME FInv, NEW p \in Reports, ReportWrites(p), IInv', BusyOK'
    PROVE  FInv'
<1> DEFINE j == report[p].job
<1>1. /\ report[p].kind # "idle" /\ j \in External /\ j \in Jobs
      /\ apps[j].status \in {"prepared", "opened", "submitted"}
      /\ apps'[j].status \in {"opened", "submitted"}
      /\ apps'[j].batch = apps[j].batch
      /\ \A i \in Jobs : i # j => apps'[i] = apps[i]
      /\ UNCHANGED <<batches, delivered, req, task>>
  BY DEF ReportWrites
<1>2. ASSUME NEW r \in Runs PROVE task[r][j].at = "none"
  BY <1>1, CopyIsRow DEF FInv
<1>3. Current'
  <2> SUFFICES ASSUME NEW r \in Runs, NEW i \in Jobs, task[r][i].at # "none"
               PROVE  task[r][i].row = apps'[i]
    BY <1>1 DEF Current
  <2>1. i # j
    BY <1>2
  <2>2. QED
    BY <1>1, <2>1 DEF FInv, Current
<1>4. LockSees'
  <2> SUFFICES ASSUME NEW q \in Requests, req[q].at = "locked",
                      NEW i \in req[q].wanted, Retryable(req[q].seen[i])
               PROVE  Retryable(apps'[i])
    BY <1>1 DEF LockSees, Retryable
  <2>1. Retryable(apps[i]) /\ i \in Jobs
    BY DEF FInv, LockSees, IInv, TypeOK, Request
  <2>2. i # j
    BY <1>1, <2>1 DEF Retryable
  <2>3. QED
    BY <1>1, <2>1, <2>2
<1>5. ReportsSee'
  <2> SUFFICES ASSUME NEW o \in Reports, report'[o].kind # "idle"
               PROVE  LET i == report'[o].job
                      IN  /\ i \in External
                          /\ apps'[i].status \in {"prepared", "opened", "submitted"}
                          /\ apps'[i].batch = report'[o].row.batch
                          /\ OneReport => report'[o].row = apps'[i]
    BY DEF ReportsSee, OneReport
  <2>1. o # p /\ report'[o] = report[o]
    BY DEF ReportWrites, FInv, IInv, TypeOK, NoReport
  <2>2. ~OneReport
    BY <2>1 DEF OneReport
  <2>3. /\ report[o].job \in External /\ report[o].job \in Jobs
        /\ apps[report[o].job].status \in {"prepared", "opened", "submitted"}
        /\ apps[report[o].job].batch = report[o].row.batch
    BY <2>1, ConstantsAssumption DEF FInv, ReportsSee
  <2>4. CASE report[o].job = j
    BY <1>1, <2>1, <2>2, <2>3, <2>4
  <2>5. CASE report[o].job # j
    BY <1>1, <2>1, <2>2, <2>3, <2>5
  <2>6. QED
    BY <2>4, <2>5
<1>6. MethodsKept'
  <2>1. ASSUME NEW i \in External PROVE apps'[i].status # "sent"
    BY <1>1, ConstantsAssumption DEF FInv, MethodsKept
  <2>2. QED
    BY <1>1, <2>1 DEF FInv, MethodsKept
<1>7. BatchLists' /\ DoneBatchHasNoWork'
  <2>1. \A i \in Jobs : /\ apps'[i].batch = apps[i].batch
                        /\ apps'[i].status # "absent" => apps[i].status # "absent"
                        /\ apps'[i].status = "processing" => apps[i].status = "processing"
    BY <1>1
  <2>2. QED
    BY <1>1, <2>1 DEF FInv, BatchLists, DoneBatchHasNoWork
<1>8. EmailsMatch'
  <2>1. ASSUME NEW d \in delivered PROVE apps'[d[1]] = apps[d[1]]
    <3>1. d[1] \in Jobs /\ d[1] # j
      BY <1>1 DEF FInv, MethodsKept, IInv, TypeOK
    <3>2. QED
      BY <1>1, <3>1
  <2>2. ASSUME NEW r \in Runs, NEW i \in Jobs, task[r][i].at # "none" PROVE apps'[i] = apps[i]
    BY <1>1, <1>2, <2>2
  <2>3. QED
    BY <1>1, <2>1, <2>2 DEF FInv, EmailsMatch
<1>9. SentCvIsRecorded'
  BY <1>1 DEF FInv, SentCvIsRecorded
<1>10. QED
  BY <1>3, <1>4, <1>5, <1>6, <1>7, <1>8, <1>9 DEF FInv

-----------------------------------------------------------------------------
(* What every step is.                                                     *)

LEMMA StepKinds ==
    ASSUME FInv, [Next]_vars
    PROVE  \/ OnlyReads
           \/ \E r \in Runs, j \in Jobs : WorkOn(r, j) \/ ProcessThrows(r, j)
           \/ \E q \in Requests : CommitWrites(q)
           \/ \E p \in Reports : ReportWrites(p)
<1>1. ASSUME NEW q \in Requests, ReadExisting(q) \/ Commit(q) \/ PollBatch(q)
      PROVE  OnlyReads \/ CommitWrites(q)
  BY <1>1, ReadExistingReads, PollBatchReads, CommitShape DEF FInv
<1>2. ASSUME NEW r \in Runs, LoadBatch(r) \/ LoadCv(r) \/ CloseBatch(r) \/ RunThrows(r)
      PROVE  OnlyReads
  <2>1. CASE LoadCv(r) \/ RunThrows(r)
    BY <2>1, StillReads DEF LoadCv, RunThrows, stored
  <2>2. QED
    BY <1>2, <2>1, LoadBatchReads, CloseBatchReads DEF FInv
<1>3. ASSUME NEW s \in Sweeps, SweepStep(s) PROVE OnlyReads
  BY <1>3, StillReads DEF SweepStep, SweepRead, ResumeNext, stored
<1>4. ASSUME NEW j \in Jobs, GoStale(j) PROVE OnlyReads
  BY <1>4, StillReads DEF GoStale
<1>5. ASSUME NEW p \in Reports, ReadForReport(p) \/ SaveReport(p)
      PROVE  OnlyReads \/ ReportWrites(p)
  BY <1>5, ReadForReportReads, SaveReportShape DEF FInv
<1>6. CASE ChangeCv
  BY <1>6, StillReads DEF ChangeCv
<1>7. CASE Crash
  BY <1>7, CrashReads DEF FInv
<1>8. CASE UNCHANGED vars
  BY <1>8, StillReads DEF vars, stored
<1>9. QED
  BY <1>1, <1>2, <1>3, <1>4, <1>5, <1>6, <1>7, <1>8 DEF Next, RunStep

LEMMA NextKeeps == FInv /\ [Next]_vars /\ [~CopyOvertaken]_vars => FInv'
<1> SUFFICES ASSUME FInv, [Next]_vars, [~CopyOvertaken]_vars PROVE FInv'
  OBVIOUS
<1>1. IInv' /\ BusyOK'
  BY NextInv, NextBusy DEF FInv
<1>2. ~CopyOvertaken
  BY DEF CopyOvertaken, vars, stored
<1>3. QED
  BY <1>1, <1>2, StepKinds, ReadsKeep, WorkerKeeps, CommitKeeps, ReportKeeps

LEMMA InitFInv == Init => FInv
<1> SUFFICES ASSUME Init PROVE FInv
  OBVIOUS
<1>1. IInv
  BY InitInv
<1>2. /\ \A r \in Runs, j \in Jobs : task[r][j].at = "none"
      /\ \A q \in Requests : req[q].at = "idle" /\ batches[q].status = "absent"
      /\ \A p \in Reports : report[p].kind = "idle"
      /\ \A j \in Jobs : apps[j].status = "absent"
      /\ delivered = {}
  BY DEF Init, NoTask, NoRequest, NoBatch, NoReport, NoRow
<1>3. BusyOK
  BY <1>2 DEF BusyOK, Working
<1>4. Current /\ LockSees /\ ReportsSee
  BY <1>2 DEF Current, LockSees, ReportsSee
<1>5. MethodsKept
  <2>1. \A j \in External : apps[j].status # "sent"
    BY <1>2, ConstantsAssumption
  <2>2. QED
    BY <1>2, <2>1 DEF MethodsKept
<1>6. BatchLists /\ EmailsMatch /\ SentCvIsRecorded /\ DoneBatchHasNoWork
  BY <1>2 DEF BatchLists, EmailsMatch, SentCvIsRecorded, DoneBatchHasNoWork
<1>7. QED
  BY <1>1, <1>3, <1>4, <1>5, <1>6 DEF FInv

LEMMA FinalInvariant == Spec /\ WaitingCopiesStay => []FInv
BY InitFInv, NextKeeps, PTL DEF Spec, WaitingCopiesStay

-----------------------------------------------------------------------------
(* What is final.                                                          *)

(* The CV a sent application offers for download is the one the company    *)
(* got, however often the process died between the email and the save: as  *)
(* long as waiting copies stay current (the tailoredCv check of            *)
(* processApplication and the provider's idempotency key).                 *)
THEOREM SentCvStays == Spec /\ WaitingCopiesStay => []SentCvIsRecorded
<1>1. FInv => SentCvIsRecorded
  BY DEF FInv
<1>2. QED
  BY <1>1, FinalInvariant, PTL

(* A batch shown as done has no application still processing, whether its  *)
(* run, a sweep's or a poll closed it (processBatch's count, getBatch's    *)
(* repair), as long as waiting copies stay current.                        *)
THEOREM DoneMeansDone == Spec /\ WaitingCopiesStay => []DoneBatchHasNoWork
<1>1. FInv => DoneBatchHasNoWork
  BY DEF FInv
<1>2. QED
  BY <1>1, FinalInvariant, PTL

(* Once the app was told `sent`, nothing touches the row and no further    *)
(* email about the job leaves: neither a retry, a sweep, a crash nor a     *)
(* lost answer does that, as long as waiting copies stay current.          *)
THEOREM SentStays == Spec /\ WaitingCopiesStay => SentIsFinal
<1>1. FInv /\ [Next]_vars =>
        [\A j \in Jobs : apps[j].status = "sent" =>
            /\ apps[j]' = apps[j]
            /\ \A d \in delivered' \ delivered : d[1] # j]_vars
  <2> SUFFICES ASSUME FInv, [Next]_vars, NEW j \in Jobs, apps[j].status = "sent"
               PROVE  apps[j]' = apps[j] /\ \A d \in delivered' \ delivered : d[1] # j
    OBVIOUS
  <2>1. CASE OnlyReads
    BY <2>1 DEF OnlyReads
  <2>2. ASSUME NEW r \in Runs, NEW i \in Jobs, WorkOn(r, i) \/ ProcessThrows(r, i)
        PROVE  apps[j]' = apps[j] /\ \A d \in delivered' \ delivered : d[1] # j
    <3>1. RowMoves(i) /\ MailMoves(i)
      BY <2>2, WorkersMove DEF WorkerMoves
    <3>2. i # j
      BY <3>1 DEF RowMoves
    <3>3. QED
      BY <3>1, <3>2 DEF RowMoves, MailMoves
  <2>3. ASSUME NEW q \in Requests, CommitWrites(q)
        PROVE  apps[j]' = apps[j] /\ \A d \in delivered' \ delivered : d[1] # j
    BY <2>3 DEF CommitWrites, Retryable
  <2>4. ASSUME NEW p \in Reports, ReportWrites(p)
        PROVE  apps[j]' = apps[j] /\ \A d \in delivered' \ delivered : d[1] # j
    BY <2>4 DEF ReportWrites
  <2>5. QED
    BY <2>1, <2>2, <2>3, <2>4, StepKinds
<1>2. QED
  BY <1>1, FinalInvariant, PTL DEF Spec, SentIsFinal

(* Only a failed application goes to another batch (create), as long as    *)
(* waiting copies stay current.                                            *)
THEOREM OnlyFailuresAreRetried == Spec /\ WaitingCopiesStay => OnlyFailedIsRetried
<1>1. FInv /\ [Next]_vars =>
        [\A j \in Jobs : (apps[j].status # "absent" /\ apps[j].batch' # apps[j].batch)
                          => apps[j].status = "failed"]_vars
  <2> SUFFICES ASSUME FInv, [Next]_vars, NEW j \in Jobs,
                      apps[j].status # "absent", apps[j].batch' # apps[j].batch
               PROVE  apps[j].status = "failed"
    OBVIOUS
  <2>1. CASE OnlyReads
    BY <2>1 DEF OnlyReads
  <2>2. ASSUME NEW r \in Runs, NEW i \in Jobs, WorkOn(r, i) \/ ProcessThrows(r, i)
        PROVE  FALSE
    <3>1. RowMoves(i)
      BY <2>2, WorkersMove DEF WorkerMoves
    <3>2. QED
      BY <3>1 DEF RowMoves
  <2>3. ASSUME NEW q \in Requests, CommitWrites(q)
        PROVE  apps[j].status = "failed"
    BY <2>3 DEF CommitWrites, Retryable
  <2>4. ASSUME NEW p \in Reports, ReportWrites(p)
        PROVE  FALSE
    BY <2>4 DEF ReportWrites
  <2>5. QED
    BY <2>1, <2>2, <2>3, <2>4, StepKinds
<1>2. QED
  BY <1>1, FinalInvariant, PTL DEF Spec, OnlyFailedIsRetried

(* With one report at a time, a submission the user reported stays, with   *)
(* the time of the first report (markOpened, markSubmitted), as long as    *)
(* waiting copies stay current.                                            *)
THEOREM SubmittedStays ==
    ASSUME OneReport
    PROVE  Spec /\ WaitingCopiesStay => SubmittedIsFinal
<1>1. FInv /\ [Next]_vars =>
        [\A j \in Jobs : apps[j].status = "submitted" => apps[j]' = apps[j]]_vars
  <2> SUFFICES ASSUME FInv, [Next]_vars, NEW j \in Jobs, apps[j].status = "submitted"
               PROVE  apps[j]' = apps[j]
    OBVIOUS
  <2>1. CASE OnlyReads
    BY <2>1 DEF OnlyReads
  <2>2. ASSUME NEW r \in Runs, NEW i \in Jobs, WorkOn(r, i) \/ ProcessThrows(r, i)
        PROVE  apps[j]' = apps[j]
    <3>1. RowMoves(i)
      BY <2>2, WorkersMove DEF WorkerMoves
    <3>2. QED
      BY <3>1 DEF RowMoves
  <2>3. ASSUME NEW q \in Requests, CommitWrites(q) PROVE apps[j]' = apps[j]
    BY <2>3 DEF CommitWrites, Retryable
  <2>4. ASSUME NEW p \in Reports, ReportWrites(p) PROVE apps[j]' = apps[j]
    <3>1. /\ report[p].row = apps[report[p].job]
          /\ report[p].row.status \in {"prepared", "opened"}
      BY <2>4 DEF FInv, ReportsSee, ReportWrites, IInv, CopiesOK, ReportsOK
    <3>2. report[p].job # j
      BY <3>1
    <3>3. QED
      BY <2>4, <3>2 DEF ReportWrites
  <2>5. QED
    BY <2>1, <2>2, <2>3, <2>4, StepKinds
<1>2. QED
  BY <1>1, FinalInvariant, PTL DEF Spec, SubmittedIsFinal

-----------------------------------------------------------------------------
(* The tables keep the promise of ApplicationLifecycle, but for its        *)
(* fairness.                                                               *)

LifecycleSafety == Lifecycle!Init /\ [][Lifecycle!Next]_(Lifecycle!lvars)

Shown  == [j \in Jobs |-> apps[j].status]
Mailed == {j \in Jobs : Taken(j, apps[j].batch)}

LEMMA ReadsStutter ==
    ASSUME OnlyReads
    PROVE  Shown' = Shown /\ Mailed' = Mailed
BY DEF OnlyReads, Shown, Mailed, Taken

(* A worker's step changes what is shown of its application, and what is   *)
(* mailed of it, if anything.                                              *)
LEMMA WorkerShows ==
    ASSUME FInv, NEW r \in Runs, NEW j \in Jobs, WorkerMoves(r, j)
    PROVE  /\ j \in Jobs /\ Shown[j] = "processing"
           /\ Shown' = [Shown EXCEPT ![j] = apps'[j].status]
           /\ apps'[j].status \in {"processing", "sent", "prepared", "failed"}
           /\ apps'[j].status = "prepared" => j \in External
           /\ apps'[j].status = "sent" => j \in Mailed
           /\ \/ Mailed' = Mailed
              \/ /\ Mailed' = Mailed \cup {j} /\ j \notin External
                 /\ apps'[j].status \in {"processing", "failed"}
<1>1. /\ apps[j].status = "processing"
      /\ apps'[j].status \in {"processing", "sent", "prepared", "failed"}
      /\ apps'[j].batch = apps[j].batch
      /\ apps'[j].status = "prepared" => j \in External
      /\ \A i \in Jobs : i # j => apps'[i] = apps[i]
  BY DEF WorkerMoves, RowMoves
<1>2. Shown' = [Shown EXCEPT ![j] = apps'[j].status]
  BY <1>1 DEF Shown
<1>3. apps'[j].status = "sent" => j \in Mailed
  <2> SUFFICES ASSUME apps'[j].status = "sent" PROVE Taken(j, apps[j].batch)
    BY DEF Mailed
  <2>1. <<j, apps[j].batch, apps'[j].cv>> \in delivered
    BY DEF WorkerMoves, RowMoves
  <2>2. apps'[j].cv \in TailoredCvs
    BY <2>1 DEF FInv, IInv, TypeOK
  <2>3. QED
    BY <2>1, <2>2 DEF Taken
<1>4. \A i \in Jobs : apps'[i].batch = apps[i].batch
  BY <1>1
<1>5. CASE UNCHANGED delivered
  <2>1. Mailed' = Mailed
    BY <1>4, <1>5 DEF Mailed, Taken
  <2>2. QED
    BY <1>1, <1>2, <1>3, <2>1 DEF Shown
<1>6. CASE /\ delivered' = delivered \cup {<<j, apps[j].batch, apps[j].cv>>}
           /\ j \notin External /\ apps[j].cv \in TailoredCvs
           /\ apps'[j].status \in {"processing", "failed"}
  <2>1. ASSUME NEW i \in Jobs
        PROVE  i \in Mailed' <=> i \in Mailed \/ i = j
    <3>1. CASE i = j
      BY <1>4, <1>6, <3>1 DEF Mailed, Taken
    <3>2. CASE i # j
      BY <1>4, <1>6, <3>2 DEF Mailed, Taken
    <3>3. QED
      BY <3>1, <3>2
  <2>2. Mailed' = Mailed \cup {j}
    BY <2>1 DEF Mailed
  <2>3. QED
    BY <1>1, <1>2, <1>3, <1>6, <2>2 DEF Shown
<1>7. QED
  BY <1>5, <1>6 DEF WorkerMoves, MailMoves

(* What the other two kinds of steps change of it.                         *)
LEMMA CommitShows ==
    ASSUME FInv, NEW q \in Requests, CommitWrites(q)
    PROVE  \E js \in SUBSET Jobs :
              /\ \A j \in js : Shown[j] \in {"absent", "failed"}
              /\ Shown' = [j \in Jobs |-> IF j \in js THEN "processing" ELSE Shown[j]]
              /\ Mailed' = Mailed \ js
<1> DEFINE js == {j \in req[q].wanted : Retryable(req[q].seen[j])}
<1>1. /\ js \in SUBSET Jobs /\ req[q].at = "locked" /\ UNCHANGED delivered
      /\ \A j \in js : apps[j].status \in {"absent", "failed"} /\ apps'[j] = Fresh(q)
      /\ \A j \in Jobs : j \notin js => apps'[j] = apps[j]
  BY DEF CommitWrites, Retryable
<1>2. Fresh(q).status = "processing" /\ Fresh(q).batch = q
  BY DEF Fresh, NoRow
<1>3. \A j \in Jobs : ~Taken(j, q)
  BY <1>1 DEF FInv, EmailsMatch, Taken
<1> HIDE DEF js
<1>4. \A j \in js : Shown[j] \in {"absent", "failed"}
  BY <1>1 DEF Shown
<1>5. Shown' = [j \in Jobs |-> IF j \in js THEN "processing" ELSE Shown[j]]
  BY <1>1, <1>2 DEF Shown
<1>6. ASSUME NEW j \in Jobs
      PROVE  j \in Mailed' <=> j \in Mailed /\ j \notin js
  <2>1. CASE j \in js
    BY <1>1, <1>2, <1>3, <2>1 DEF Mailed, Taken
  <2>2. CASE j \notin js
    BY <1>1, <2>2 DEF Mailed, Taken
  <2>3. QED
    BY <2>1, <2>2
<1>7. Mailed' = Mailed \ js
  BY <1>6 DEF Mailed
<1>8. QED
  BY <1>1, <1>4, <1>5, <1>7

LEMMA ReportShows ==
    ASSUME FInv, OneReport, NEW p \in Reports, ReportWrites(p)
    PROVE  \E j \in Jobs :
              /\ \/ Shown' = Shown
                 \/ Shown[j] = "prepared" /\ Shown' = [Shown EXCEPT ![j] = "opened"]
                 \/ /\ Shown[j] \in {"prepared", "opened"}
                    /\ Shown' = [Shown EXCEPT ![j] = "submitted"]
              /\ Mailed' = Mailed
<1> DEFINE j == report[p].job
<1>1. /\ j \in Jobs /\ apps'[j] = Reported(p)
      /\ Reported(p).status \in {"opened", "submitted"}
      /\ Reported(p).batch = apps[j].batch
      /\ \A i \in Jobs : i # j => apps'[i] = apps[i]
      /\ UNCHANGED delivered
  BY DEF ReportWrites
<1>2. apps[j].status \in {"prepared", "opened"}
  BY DEF FInv, ReportsSee, ReportWrites, IInv, CopiesOK, ReportsOK
<1>3. \A i \in Jobs : apps'[i].batch = apps[i].batch
  BY <1>1
<1>4. Mailed' = Mailed
  BY <1>1, <1>3 DEF Mailed, Taken
<1>5. Shown' = [Shown EXCEPT ![j] = Reported(p).status] /\ Shown[j] = apps[j].status
  BY <1>1 DEF Shown
<1>6. Shown[j] = "opened" /\ Reported(p).status = "opened" => Shown' = Shown
  BY <1>1, <1>5 DEF Shown
<1>7. QED
  BY <1>1, <1>2, <1>4, <1>5, <1>6

LEMMA StepRefines ==
    ASSUME FInv, OneReport, [Next]_vars
    PROVE  [Lifecycle!Next]_(Lifecycle!lvars)
<1>1. Lifecycle!lvars = <<Shown, Mailed>>
  BY DEF Lifecycle!lvars, Shown, Mailed
<1>2. Shown' = Shown /\ Mailed' = Mailed => UNCHANGED Lifecycle!lvars
  BY DEF Lifecycle!lvars, Shown, Mailed
<1>3. CASE OnlyReads
  BY <1>2, <1>3, ReadsStutter
<1>4. ASSUME NEW r \in Runs, NEW j \in Jobs, WorkerMoves(r, j)
      PROVE  [Lifecycle!Next]_(Lifecycle!lvars)
  <2>1. /\ j \in Jobs /\ Shown[j] = "processing"
        /\ Shown' = [Shown EXCEPT ![j] = apps'[j].status]
        /\ apps'[j].status \in {"processing", "sent", "prepared", "failed"}
        /\ apps'[j].status = "prepared" => j \in External
        /\ apps'[j].status = "sent" => j \in Mailed
        /\ \/ Mailed' = Mailed
           \/ /\ Mailed' = Mailed \cup {j} /\ j \notin External
              /\ apps'[j].status \in {"processing", "failed"}
    BY <1>4, WorkerShows
  <2>2. CASE apps'[j].status = "processing"
    <3>1. Shown' = Shown
      BY <2>1, <2>2 DEF Shown
    <3>2. Mailed' = Mailed \/ Lifecycle!Mail(j)
      BY <2>1, <3>1 DEF Lifecycle!Mail, Shown, Mailed
    <3>3. QED
      BY <1>2, <3>1, <3>2 DEF Lifecycle!Next
  <2>3. CASE apps'[j].status = "sent"
    <3>1. Lifecycle!Sent(j)
      BY <2>1, <2>3 DEF Lifecycle!Sent, Shown, Mailed
    <3>2. QED
      BY <3>1 DEF Lifecycle!Next, Lifecycle!Concludes
  <2>4. CASE apps'[j].status = "prepared"
    <3>1. Lifecycle!Prepared(j)
      BY <2>1, <2>4 DEF Lifecycle!Prepared, Shown, Mailed
    <3>2. QED
      BY <3>1 DEF Lifecycle!Next, Lifecycle!Concludes
  <2>5. CASE apps'[j].status = "failed"
    <3>1. Lifecycle!Fails(j)
      BY <2>1, <2>5 DEF Lifecycle!Fails, Shown, Mailed
    <3>2. QED
      BY <3>1 DEF Lifecycle!Next, Lifecycle!Concludes
  <2>6. QED
    BY <2>1, <2>2, <2>3, <2>4, <2>5
<1>5. ASSUME NEW q \in Requests, CommitWrites(q)
      PROVE  [Lifecycle!Next]_(Lifecycle!lvars)
  <2>1. PICK js \in SUBSET Jobs :
          /\ \A j \in js : Shown[j] \in {"absent", "failed"}
          /\ Shown' = [j \in Jobs |-> IF j \in js THEN "processing" ELSE Shown[j]]
          /\ Mailed' = Mailed \ js
    BY <1>5, CommitShows
  <2>2. CASE js = {}
    BY <1>2, <2>1, <2>2 DEF Shown
  <2>3. CASE js # {}
    <3>1. Lifecycle!Apply(js)
      BY <2>1, <2>3 DEF Lifecycle!Apply, Shown, Mailed
    <3>2. QED
      BY <3>1 DEF Lifecycle!Next
  <2>4. QED
    BY <2>2, <2>3
<1>6. ASSUME NEW p \in Reports, ReportWrites(p)
      PROVE  [Lifecycle!Next]_(Lifecycle!lvars)
  <2>1. PICK j \in Jobs :
          /\ \/ Shown' = Shown
             \/ Shown[j] = "prepared" /\ Shown' = [Shown EXCEPT ![j] = "opened"]
             \/ /\ Shown[j] \in {"prepared", "opened"}
                /\ Shown' = [Shown EXCEPT ![j] = "submitted"]
          /\ Mailed' = Mailed
    BY <1>6, ReportShows
  <2>2. \/ Shown' = Shown /\ Mailed' = Mailed
        \/ Lifecycle!Opened(j)
        \/ Lifecycle!Submitted(j)
    BY <2>1 DEF Lifecycle!Opened, Lifecycle!Submitted, Shown, Mailed
  <2>3. QED
    BY <1>2, <2>2 DEF Lifecycle!Next
<1>7. QED
  BY <1>3, <1>4, <1>5, <1>6, StepKinds, WorkersMove

(* Applying keeps what ApplicationLifecycle promises, step by step: an     *)
(* application goes from processing to one outcome and never back, only a  *)
(* failed one is tried again, an email leaves only while its application   *)
(* is processed, and none is shown as sent without one.  That holds with   *)
(* one report at a time and as long as waiting copies stay current.        *)
THEOREM PromiseIsKept ==
    ASSUME OneReport
    PROVE  Spec /\ WaitingCopiesStay => LifecycleSafety
<1>1. Init => Lifecycle!Init
  <2> SUFFICES ASSUME Init PROVE Lifecycle!Init
    OBVIOUS
  <2>1. \A j \in Jobs : apps[j].status = "absent"
    BY DEF Init, NoRow
  <2>2. \A j \in Jobs : ~Taken(j, apps[j].batch)
    BY DEF Init, Taken
  <2>3. QED
    BY <2>1, <2>2 DEF Lifecycle!Init
<1>2. FInv /\ [Next]_vars => [Lifecycle!Next]_(Lifecycle!lvars)
  BY StepRefines
<1>3. QED
  BY <1>1, <1>2, FinalInvariant, PTL DEF Spec, LifecycleSafety

-----------------------------------------------------------------------------
(* Where no row changes under a waiting copy.                              *)

(* Either the sweep never fires, whatever else happens; or the device asks *)
(* once, its batch fits the pool, and firings of the sweep do not overlap; *)
(* or batches fit the pool and nothing fails.                              *)
NoSweep == Sweeps = {}
Fits    == IsFiniteSet(Jobs) /\ Cardinality(Jobs) <= CONCURRENCY
OneFits ==
    /\ \A q1, q2 \in Requests : q1 = q2
    /\ \A s1, s2 \in Sweeps : s1 = s2
    /\ Fits
NoFault == MaxFaults = 0 /\ Fits

(* What they come to: an application that waits in one run is in no other. *)
Apart ==
    \A r, r2 \in Runs : \A j \in Jobs :
        task[r][j].at = "queued" /\ r2 # r => task[r2][j].at = "none"

LEMMA ApartKeepsCopies ==
    ASSUME FInv, Apart, [Next]_vars
    PROVE  ~CopyOvertaken
<1> SUFFICES ASSUME NEW r \in Runs, NEW j \in Jobs,
                    task[r][j].at = "queued", task'[r][j].at = "queued"
             PROVE  apps'[j] = apps[j]
  BY DEF CopyOvertaken
<1>1. apps[j].status = "processing"
  BY CopyIsRow DEF FInv
<1>2. ASSUME NEW r2 \in Runs, NEW i \in Jobs, WorkOn(r2, i) \/ ProcessThrows(r2, i)
      PROVE  apps'[j] = apps[j]
  <2>1. task[r2][i].at # "none" /\ WorkerMoves(r2, i)
    BY <1>2, WorkersMove
       DEF WorkOn, StartNext, Tailor, Prepare, BeginSend, Send, SaveSent, ProcessThrows
  <2>2. i # j
    <3>1. i = j => r2 = r
      BY <2>1 DEF Apart
    <3>2. task'[r2][i].at # "queued"
      BY <2>1 DEF WorkerMoves, TaskMoves, Working
    <3>3. QED
      BY <3>1, <3>2
  <2>3. QED
    BY <2>1, <2>2 DEF WorkerMoves, RowMoves
<1>3. ASSUME NEW q \in Requests, CommitWrites(q) PROVE apps'[j] = apps[j]
  BY <1>1, <1>3 DEF CommitWrites, Retryable
<1>4. ASSUME NEW p \in Reports, ReportWrites(p) PROVE apps'[j] = apps[j]
  BY <1>1, <1>4 DEF ReportWrites
<1>5. CASE OnlyReads
  BY <1>5 DEF OnlyReads
<1>6. QED
  BY <1>2, <1>3, <1>4, <1>5, StepKinds

(* As long as no sweep resumes a batch: a run is of its own request's      *)
(* batch, and until it has read the batch nobody touches its rows.         *)
SweepsIdle == \A s \in Sweeps : run[s].at = "idle"

OwnRuns ==
    /\ \A r \in Runs : run[r].at # "idle" => run[r].batch = r
    /\ \A r \in Runs, j \in Jobs : task[r][j].at # "none" => apps[j].batch = r
    /\ \A r \in Runs : run[r].at = "start" =>
          \A j \in batches[r].apps : apps[j].batch = r /\ apps[j].status = "processing"

LEMMA OwnRunsApart ==
    ASSUME OwnRuns
    PROVE  Apart
BY DEF OwnRuns, Apart

(* Of a step, what OwnRuns depends on.                                     *)
LEMMA OwnRunsFrame ==
    ASSUME OwnRuns, IInv, UNCHANGED apps,
           \A r \in Runs : /\ run'[r].at # "idle" => run[r].at # "idle" /\ run'[r].batch = run[r].batch
                           /\ run'[r].at = "start" => run[r].at = "start",
           \A r \in Runs, j \in Jobs : task'[r][j].at # "none" => task[r][j].at # "none",
           \A q \in Requests : batches'[q].apps = batches[q].apps,
           SweepsIdle
    PROVE  OwnRuns'
BY DEF OwnRuns, Runs, SweepsIdle

LEMMA WorkerKeepsOwn ==
    ASSUME SweepsIdle, IInv, OwnRuns, NEW r \in Runs, NEW j \in Jobs,
           task[r][j].at # "none", WorkerMoves(r, j), UNCHANGED run
    PROVE  OwnRuns'
<1>1. /\ apps[j].status = "processing" /\ apps'[j].batch = apps[j].batch
      /\ \A i \in Jobs : i # j => apps'[i] = apps[i]
      /\ UNCHANGED batches
  BY DEF WorkerMoves, RowMoves
<1>2. \A i \in Jobs : apps'[i].batch = apps[i].batch
  BY <1>1
<1>3. ASSUME NEW r2 \in Runs, NEW i \in Jobs, task'[r2][i].at # "none"
      PROVE  apps'[i].batch = r2
  <2>1. task[r2][i].at # "none"
    BY <1>3 DEF WorkerMoves, TaskMoves
  <2>2. QED
    BY <1>2, <2>1 DEF OwnRuns
<1>4. ASSUME NEW r2 \in Runs, run[r2].at = "start", NEW i \in batches[r2].apps
      PROVE  apps'[i].batch = r2 /\ apps'[i].status = "processing"
  <2>1. i \in Jobs /\ apps[i].batch = r2 /\ apps[i].status = "processing"
    BY <1>4 DEF OwnRuns, IInv, TypeOK, Batch, Runs, SweepsIdle
  <2>2. r2 # r
    BY <1>4 DEF IInv, CopiesOK, RunsOK, Held
  <2>3. i # j
    BY <2>1, <2>2 DEF OwnRuns
  <2>4. QED
    BY <1>1, <2>1, <2>3
<1>5. QED
  BY <1>1, <1>3, <1>4 DEF OwnRuns

LEMMA CommitKeepsOwn ==
    ASSUME SweepsIdle, FInv, OwnRuns, NEW q \in Requests, Commit(q)
    PROVE  OwnRuns'
<1> DEFINE toProcess == {j \in req[q].wanted : Retryable(req[q].seen[j])}
<1> DEFINE newRun == [Idle EXCEPT !.at = "start", !.batch = q]
<1>1. CommitWrites(q)
  BY CommitShape DEF FInv
<1>2. /\ toProcess \subseteq Jobs
      /\ \A j \in toProcess : apps[j].status \in {"absent", "failed"} /\ apps'[j] = Fresh(q)
      /\ \A j \in Jobs : j \notin toProcess => apps'[j] = apps[j]
      /\ batches'[q].apps = toProcess
      /\ \A q2 \in Requests : q2 # q => batches'[q2] = batches[q2]
      /\ UNCHANGED task
  BY <1>1 DEF CommitWrites, Retryable, FInv, IInv, TypeOK
<1>3. /\ Fresh(q).status = "processing" /\ Fresh(q).batch = q
      /\ newRun.at = "start" /\ newRun.batch = q /\ q \in Runs
  BY DEF Fresh, NoRow, Idle, Runs
<1>4. ASSUME NEW r \in Runs
      PROVE  run'[r] = run[r] \/ (r = q /\ run'[r] = newRun)
  <2>1. \/ UNCHANGED run
        \/ run' = [run EXCEPT ![q] = newRun]
    BY DEF Commit
  <2>2. QED
    BY <1>3, <2>1 DEF FInv, IInv, TypeOK
<1> HIDE DEF toProcess, newRun
<1>5. ASSUME NEW r \in Runs, run'[r].at # "idle" PROVE run'[r].batch = r
  BY <1>3, <1>4, <1>5 DEF OwnRuns
<1>6. ASSUME NEW r \in Runs, NEW j \in Jobs, task[r][j].at # "none" PROVE apps'[j].batch = r
  <2>1. apps[j].status = "processing"
    BY <1>6, CopyIsRow DEF FInv
  <2>2. QED
    BY <1>2, <1>6, <2>1 DEF OwnRuns
<1>7. ASSUME NEW r \in Runs, run'[r].at = "start", NEW j \in batches'[r].apps
      PROVE  apps'[j].batch = r /\ apps'[j].status = "processing"
  <2>1. CASE r = q
    BY <1>2, <1>3, <1>7, <2>1
  <2>2. CASE r # q
    <3>1. run'[r] = run[r] /\ r \in Requests /\ batches'[r] = batches[r]
      BY <1>2, <1>4, <1>7, <2>2 DEF Runs, SweepsIdle
    <3>2. j \in Jobs /\ apps[j].batch = r /\ apps[j].status = "processing"
      BY <1>7, <3>1 DEF OwnRuns, FInv, IInv, TypeOK, Batch
    <3>3. QED
      BY <1>2, <3>2
  <2>3. QED
    BY <2>1, <2>2
<1>8. QED
  BY <1>2, <1>5, <1>6, <1>7 DEF OwnRuns

LEMMA LoadBatchKeepsOwn ==
    ASSUME SweepsIdle, FInv, OwnRuns, NEW r \in Runs, LoadBatch(r)
    PROVE  OwnRuns'
<1>1. /\ run[r].at = "start" /\ run[r].batch = r
      /\ UNCHANGED <<apps, batches>>
  BY DEF LoadBatch, stored, OwnRuns
<1>2. ASSUME NEW r2 \in Runs
      PROVE  /\ run'[r2].at # "idle" => run'[r2].batch = r2
             /\ run'[r2].at = "start" => run[r2].at = "start"
  BY <1>1 DEF LoadBatch, OwnRuns, FInv, IInv, TypeOK, Run
<1>3. ASSUME NEW r2 \in Runs, NEW j \in Jobs, task'[r2][j].at # "none"
      PROVE  apps[j].batch = r2
  <2>1. CASE r2 = r
    <3>1. task'[r][j] = IF j \in Pending(r) THEN [at |-> "queued", row |-> apps[j], tries |-> 0]
                                            ELSE NoTask
      BY <1>1 DEF LoadBatch, FInv, IInv, TypeOK
    <3>2. j \in batches[r].apps
      BY <1>3, <2>1, <3>1, NoTaskIsTask DEF Pending
    <3>3. QED
      BY <1>1, <2>1, <3>2 DEF OwnRuns
  <2>2. CASE r2 # r
    BY <1>3, <2>2 DEF LoadBatch, OwnRuns, FInv, IInv, TypeOK
  <2>3. QED
    BY <2>1, <2>2
<1>4. QED
  BY <1>1, <1>2, <1>3 DEF OwnRuns

LEMMA ReportKeepsOwn ==
    ASSUME SweepsIdle, IInv, OwnRuns, NEW p \in Reports, ReportWrites(p), UNCHANGED run
    PROVE  OwnRuns'
<1> DEFINE j == report[p].job
<1>1. /\ apps[j].status # "processing" /\ apps'[j].batch = apps[j].batch
      /\ \A i \in Jobs : i # j => apps'[i] = apps[i]
      /\ UNCHANGED <<batches, task>>
  BY DEF ReportWrites
<1>2. ASSUME NEW r \in Runs, run[r].at = "start", NEW i \in batches[r].apps
      PROVE  apps'[i].batch = r /\ apps'[i].status = "processing"
  <2>1. i \in Jobs /\ apps[i].batch = r /\ apps[i].status = "processing"
    BY <1>2 DEF OwnRuns, IInv, TypeOK, Batch, Runs, SweepsIdle
  <2>2. QED
    BY <1>1, <2>1
<1>3. QED
  BY <1>1, <1>2 DEF OwnRuns

LEMMA NextOwn ==
    ASSUME SweepsIdle, SweepsIdle', FInv, OwnRuns, [Next]_vars
    PROVE  OwnRuns'
<1>1. CASE UNCHANGED <<apps, run, task, batches>>
  BY <1>1, OwnRunsFrame DEF FInv
<1>2. ASSUME NEW r \in Runs, NEW j \in Jobs, WorkOn(r, j) \/ ProcessThrows(r, j)
      PROVE  OwnRuns'
  <2>1. /\ task[r][j].at # "none" /\ WorkerMoves(r, j) /\ UNCHANGED run
    BY <1>2, WorkersMove
       DEF WorkOn, StartNext, Tailor, Prepare, BeginSend, Send, SaveSent, ProcessThrows
  <2>2. QED
    BY <2>1, WorkerKeepsOwn DEF FInv
<1>3. ASSUME NEW q \in Requests, PollBatch(q) PROVE OwnRuns'
  <2>1. /\ UNCHANGED <<apps, run, task>>
        /\ \A q2 \in Requests : batches'[q2].apps = batches[q2].apps
    BY <1>3 DEF PollBatch, FInv, IInv, TypeOK, Batch
  <2>2. QED
    BY <2>1, OwnRunsFrame DEF FInv
<1>4. ASSUME NEW r \in Runs, CloseBatch(r) PROVE OwnRuns'
  <2>1. OnlyReads /\ UNCHANGED <<apps, task>>
    BY <1>4, CloseBatchReads DEF FInv, CloseBatch
  <2>2. \A r2 \in Runs : run'[r2] = run[r2] \/ run'[r2].at = "idle"
    BY <1>4, IdleIsRun DEF CloseBatch, FInv, IInv, TypeOK
  <2>3. QED
    BY <2>1, <2>2, OwnRunsFrame DEF OnlyReads, FInv
<1>5. ASSUME NEW r \in Runs, LoadCv(r) \/ RunThrows(r) PROVE OwnRuns'
  <2>1. UNCHANGED <<apps, task, batches>>
    BY <1>5 DEF LoadCv, RunThrows, stored
  <2>2. \A r2 \in Runs :
          /\ run'[r2].at # "idle" => run[r2].at # "idle" /\ run'[r2].batch = run[r2].batch
          /\ run'[r2].at = "start" => run[r2].at = "start"
    BY <1>5, IdleIsRun DEF LoadCv, RunThrows, FInv, IInv, TypeOK, Run
  <2>3. QED
    BY <2>1, <2>2, OwnRunsFrame DEF FInv
<1>6. CASE Crash
  <2>1. /\ UNCHANGED <<apps, batches>>
        /\ \A r \in Runs : run'[r].at = "idle" /\ \A j \in Jobs : task'[r][j].at = "none"
    BY <1>6, NoTaskIsTask, IdleIsRun DEF Crash, stored
  <2>2. QED
    BY <2>1, OwnRunsFrame DEF FInv
<1>7. ASSUME NEW p \in Reports, SaveReport(p) PROVE OwnRuns'
  BY <1>7, SaveReportShape, ReportKeepsOwn DEF FInv, SaveReport
<1>8. ASSUME NEW s \in Sweeps, SweepStep(s) PROVE OwnRuns'
  <2>1. CASE SweepRead(s)
    BY <2>1, OwnRunsFrame DEF SweepRead, stored, FInv
  <2>2. CASE ResumeNext(s)
    <3>1. run'[s].at = "start"
      BY <2>2 DEF ResumeNext, FInv, IInv, TypeOK, Idle, Runs
    <3>2. QED
      BY <3>1 DEF SweepsIdle
  <2>3. QED
    BY <1>8, <2>1, <2>2 DEF SweepStep
<1>9. QED
  BY <1>1, <1>2, <1>3, <1>4, <1>5, <1>6, <1>7, <1>8, CommitKeepsOwn, LoadBatchKeepsOwn
     DEF Next, vars, stored, RunStep, ReadExisting, GoStale, ReadForReport, ChangeCv

(* With one request whose batch fits the pool: nothing is stale, and no    *)
(* sweep has anything to do, before the request's own run has handed every *)
(* application to a worker.                                                *)
Swept == stale # {} \/ \E s \in Sweeps : queue[s] # {} \/ run[s].at # "idle"

HandedOut(q) ==
    /\ req[q].at = "committed"
    /\ run[q].at \notin {"start", "loadCv"}
    /\ \A j \in Jobs : task[q][j].at # "queued"

SweepsLater ==
    /\ Swept => \A q \in Requests : HandedOut(q)
    /\ \A s \in Sweeps, q \in Requests, j \in Jobs :
          task[s][j].at # "none" => task[q][j].at = "none"

LEMMA SweepsLaterApart ==
    ASSUME OneFits, SweepsLater
    PROVE  Apart
BY DEF OneFits, SweepsLater, Apart, Runs

(* Only reading a batch makes a run hold an application it did not hold.   *)
LEMMA TaskBegins ==
    ASSUME FInv, [Next]_vars, NEW r \in Runs, NEW j \in Jobs,
           task[r][j].at = "none", task'[r][j].at # "none"
    PROVE  LoadBatch(r) /\ ~Busy(j)
<1>1. CASE UNCHANGED task
  BY <1>1
<1>2. ASSUME NEW r2 \in Runs, NEW i \in Jobs, WorkOn(r2, i) \/ ProcessThrows(r2, i)
      PROVE  FALSE
  <2>1. task[r2][i].at # "none" /\ WorkerMoves(r2, i)
    BY <1>2, WorkersMove
       DEF WorkOn, StartNext, Tailor, Prepare, BeginSend, Send, SaveSent, ProcessThrows
  <2>2. QED
    BY <2>1 DEF WorkerMoves, TaskMoves
<1>3. ASSUME NEW r2 \in Runs, LoadBatch(r2) PROVE LoadBatch(r) /\ ~Busy(j)
  <2>1. r2 = r
    BY <1>3 DEF LoadBatch, FInv, IInv, TypeOK
  <2>2. j \in Pending(run[r].batch)
    BY <1>3, <2>1, NoTaskIsTask DEF LoadBatch, FInv, IInv, TypeOK
  <2>3. QED
    BY <1>3, <2>1, <2>2 DEF Pending
<1>4. CASE Crash
  BY <1>4, NoTaskIsTask DEF Crash
<1>5. QED
  BY <1>1, <1>2, <1>3, <1>4
     DEF Next, vars, stored, RunStep, SweepStep, ReadExisting, Commit, PollBatch, LoadCv,
         CloseBatch, RunThrows, SweepRead, ResumeNext, GoStale, ReadForReport, SaveReport, ChangeCv

(* Once the request's run has handed everything out, it stays so.          *)
LEMMA HandedOutStays ==
    ASSUME FInv, [Next]_vars, NEW q \in Requests, HandedOut(q)
    PROVE  HandedOut(q)'
<1>1. q \in Runs /\ q \notin Sweeps /\ Idle.at = "idle"
  BY ConstantsAssumption, IdleIsRun DEF Runs
<1>2. CASE UNCHANGED <<req, run, task>>
  BY <1>2 DEF HandedOut
<1>3. ASSUME NEW r \in Runs, NEW j \in Jobs, WorkOn(r, j) \/ ProcessThrows(r, j)
      PROVE  HandedOut(q)'
  <2>1. WorkerMoves(r, j) /\ UNCHANGED run
    BY <1>3, WorkersMove
       DEF WorkOn, StartNext, Tailor, Prepare, BeginSend, Send, SaveSent, ProcessThrows
  <2>2. \A i \in Jobs : task'[q][i].at # "queued"
    BY <1>1, <2>1 DEF WorkerMoves, TaskMoves, HandedOut, Working
  <2>3. QED
    BY <2>1, <2>2 DEF HandedOut, WorkerMoves
<1>4. ASSUME NEW q2 \in Requests, ReadExisting(q2) PROVE HandedOut(q)'
  BY <1>4 DEF ReadExisting, HandedOut, FInv, IInv, TypeOK
<1>5. ASSUME NEW q2 \in Requests, Commit(q2) PROVE HandedOut(q)'
  <2>1. q2 # q
    BY <1>5 DEF Commit, HandedOut
  <2>2. /\ req'[q] = req[q] /\ UNCHANGED task
        /\ UNCHANGED run \/ run' = [run EXCEPT ![q2] = [Idle EXCEPT !.at = "start", !.batch = q2]]
    BY <1>5, <2>1 DEF Commit, FInv, IInv, TypeOK
  <2>3. run'[q] = run[q]
    BY <1>1, <2>1, <2>2 DEF FInv, IInv, TypeOK
  <2>4. QED
    BY <2>2, <2>3 DEF HandedOut
<1>6. ASSUME NEW r \in Runs, LoadBatch(r) \/ LoadCv(r) PROVE HandedOut(q)'
  <2>1. r # q /\ UNCHANGED req
    BY <1>6 DEF LoadBatch, LoadCv, HandedOut
  <2>2. run'[q] = run[q] /\ task'[q] = task[q]
    BY <1>1, <1>6, <2>1 DEF LoadBatch, LoadCv, FInv, IInv, TypeOK
  <2>3. QED
    BY <2>1, <2>2 DEF HandedOut
<1>7. ASSUME NEW r \in Runs, CloseBatch(r) \/ RunThrows(r) PROVE HandedOut(q)'
  <2>1. /\ UNCHANGED <<req, task>>
        /\ run'[q] = run[q] \/ run'[q] = Idle
    BY <1>1, <1>7 DEF CloseBatch, RunThrows, FInv, IInv, TypeOK
  <2>2. QED
    BY <1>1, <2>1 DEF HandedOut
<1>8. ASSUME NEW s \in Sweeps, SweepStep(s) PROVE HandedOut(q)'
  <2>1. UNCHANGED <<req, task>> /\ run'[q] = run[q]
    BY <1>1, <1>8 DEF SweepStep, SweepRead, ResumeNext, FInv, IInv, TypeOK
  <2>2. QED
    BY <2>1 DEF HandedOut
<1>9. CASE Crash
  BY <1>1, <1>9, NoTaskIsTask DEF Crash, HandedOut
<1>10. QED
  BY <1>2, <1>3, <1>4, <1>5, <1>6, <1>7, <1>8, <1>9
     DEF Next, vars, RunStep, PollBatch, GoStale, ReadForReport, SaveReport, ChangeCv

(* The sweep finds something to do first when a row has gone stale.        *)
LEMMA SweptBegins ==
    ASSUME FInv, [Next]_vars, ~Swept, Swept'
    PROVE  \E j \in Jobs : GoStale(j)
<1> SUFFICES ASSUME \A j \in Jobs : ~GoStale(j) PROVE FALSE
  OBVIOUS
<1>1. stale = {} /\ \A s \in Sweeps : queue[s] = {} /\ run[s].at = "idle"
  BY DEF Swept
<1>2. Sweeps \subseteq Runs /\ Requests \cap Sweeps = {} /\ Idle.at = "idle"
  BY ConstantsAssumption, IdleIsRun DEF Runs
<1>3. CASE UNCHANGED <<stale, queue, run>>
  BY <1>1, <1>3 DEF Swept
<1>4. ASSUME NEW r \in Runs, NEW j \in Jobs, WorkOn(r, j) \/ ProcessThrows(r, j)
      PROVE  FALSE
  <2>1. UNCHANGED <<run, queue>>
    BY <1>4
       DEF WorkOn, StartNext, Tailor, Prepare, BeginSend, Send, SaveSent, ProcessThrows
  <2>2. stale' \subseteq stale
    BY <1>4
       DEF WorkOn, StartNext, Tailor, Prepare, BeginSend, Send, SaveSent, ProcessThrows,
           AttemptFails, Save
  <2>3. QED
    BY <1>1, <2>1, <2>2 DEF Swept
<1>5. ASSUME NEW q \in Requests, Commit(q) PROVE FALSE
  <2>1. UNCHANGED queue /\ stale' \subseteq stale
    BY <1>5 DEF Commit
  <2>2. \A s \in Sweeps : run'[s] = run[s]
    BY <1>2, <1>5 DEF Commit, FInv, IInv, TypeOK
  <2>3. QED
    BY <1>1, <2>1, <2>2 DEF Swept
<1>6. ASSUME NEW r \in Runs, LoadBatch(r) \/ LoadCv(r) \/ CloseBatch(r) \/ RunThrows(r)
      PROVE  FALSE
  <2>1. run[r].at # "idle" /\ UNCHANGED stale
    BY <1>6 DEF LoadBatch, LoadCv, CloseBatch, RunThrows, stored
  <2>2. r \notin Sweeps
    BY <1>1, <2>1
  <2>3. UNCHANGED queue /\ \A s \in Sweeps : run'[s] = run[s]
    BY <1>2, <1>6, <2>2 DEF LoadBatch, LoadCv, CloseBatch, RunThrows, FInv, IInv, TypeOK
  <2>4. QED
    BY <1>1, <2>1, <2>3 DEF Swept
<1>7. ASSUME NEW s \in Sweeps, SweepStep(s) PROVE FALSE
  BY <1>1, <1>7 DEF SweepStep, SweepRead, ResumeNext, Interrupted
<1>8. ASSUME NEW p \in Reports, SaveReport(p) PROVE FALSE
  BY <1>1, <1>8 DEF SaveReport, Save, Swept
<1>9. CASE Crash
  BY <1>1, <1>2, <1>9 DEF Crash, Swept, stored
<1>10. QED
  BY <1>3, <1>4, <1>5, <1>6, <1>7, <1>8, <1>9
     DEF Next, vars, stored, RunStep, ReadExisting, PollBatch, ReadForReport, ChangeCv

(* In a batch that fits the pool nothing waits once the CV is read.        *)
LEMMA NothingWaits ==
    ASSUME IInv, Fits, TurnOver, NEW q \in Runs, run[q].at = "work"
    PROVE  \A j \in Jobs : task[q][j].at # "queued"
<1> SUFFICES ASSUME NEW j \in Jobs, task[q][j].at = "queued" PROVE FALSE
  OBVIOUS
<1>1. ~(Cardinality(InFlight(q)) < CONCURRENCY)
  BY DEF TurnOver, IdleWorker
<1>2. /\ IsFiniteSet(Jobs \ {j}) /\ Cardinality(Jobs \ {j}) = Cardinality(Jobs) - 1
      /\ Cardinality(Jobs) \in Nat
  BY FS_RemoveElement, FS_CardinalityType DEF Fits
<1>3. InFlight(q) \subseteq Jobs \ {j}
  BY DEF InFlight, Working
<1>4. /\ Cardinality(InFlight(q)) <= Cardinality(Jobs \ {j})
      /\ Cardinality(InFlight(q)) \in Nat
  BY <1>2, <1>3, FS_Subset, FS_CardinalityType
<1>5. QED
  BY <1>1, <1>2, <1>4, ConstantsAssumption DEF Fits

LEMMA StaleIsHandedOut ==
    ASSUME FInv, OneFits, NEW j \in Jobs, GoStale(j), NEW q \in Requests
    PROVE  HandedOut(q)
<1>1. TurnOver /\ apps[j].status = "processing" /\ run[q].at \notin {"start", "loadCv"} /\ q \in Runs
  BY DEF GoStale, Settled, Runs
<1>2. req[q].at = "committed"
  <2>1. apps[j].batch \in Requests /\ req[apps[j].batch].at = "committed"
    BY <1>1 DEF FInv, BatchLists, IInv, TypeOK, Row, WellFormed
  <2>2. QED
    BY <2>1 DEF OneFits
<1>3. CASE run[q].at = "work"
  BY <1>1, <1>2, <1>3, NothingWaits DEF FInv, HandedOut, OneFits
<1>4. CASE run[q].at = "idle"
  BY <1>1, <1>2, <1>4 DEF FInv, IInv, CopiesOK, RunsOK, Held, HandedOut
<1>5. QED
  BY <1>1, <1>3, <1>4 DEF FInv, IInv, TypeOK, Run

LEMMA NextLater ==
    ASSUME FInv, OneFits, SweepsLater, [Next]_vars
    PROVE  SweepsLater'
<1>1. ASSUME Swept', NEW q \in Requests PROVE HandedOut(q)'
  <2>1. HandedOut(q)
    <3>1. CASE Swept
      BY <3>1 DEF SweepsLater
    <3>2. CASE ~Swept
      BY <1>1, <3>2, SweptBegins, StaleIsHandedOut
    <3>3. QED
      BY <3>1, <3>2
  <2>2. QED
    BY <2>1, HandedOutStays
<1>2. ASSUME NEW s \in Sweeps, NEW q \in Requests, NEW j \in Jobs, task'[s][j].at # "none"
      PROVE  task'[q][j].at = "none"
  <2>1. s \in Runs /\ q \in Runs
    BY DEF Runs
  <2>2. run[s].at # "idle"
    <3>1. CASE task[s][j].at # "none"
      BY <2>1, <3>1 DEF FInv, IInv, CopiesOK, RunsOK, Held
    <3>2. CASE task[s][j].at = "none"
      BY <1>2, <2>1, <3>2, TaskBegins DEF LoadBatch
    <3>3. QED
      BY <3>1, <3>2
  <2>3. HandedOut(q)
    BY <2>2 DEF SweepsLater, Swept
  <2>4. task[q][j].at = "none"
    <3>1. CASE task[s][j].at # "none"
      BY <3>1 DEF SweepsLater
    <3>2. CASE task[s][j].at = "none"
      <4>1. ~Busy(j)
        BY <1>2, <2>1, <3>2, TaskBegins
      <4>2. task[q][j].at \notin Working
        BY <2>1, <4>1 DEF FInv, BusyOK, Busy
      <4>3. QED
        BY <2>1, <2>3, <4>2 DEF HandedOut, FInv, IInv, TypeOK, Task
    <3>3. QED
      BY <3>1, <3>2
  <2>5. CASE task'[q][j].at # "none"
    <3>1. LoadBatch(q)
      BY <2>1, <2>4, <2>5, TaskBegins
    <3>2. QED
      BY <2>3, <3>1 DEF LoadBatch, HandedOut
  <2>6. QED
    BY <2>5
<1>3. QED
  BY <1>1, <1>2 DEF SweepsLater

-----------------------------------------------------------------------------
(* With batches that fit the pool and no fault nothing ever goes stale:    *)
(* whatever is processed is held by the run of its own request.            *)
NoneLeft ==
    /\ ~Swept
    /\ OwnRuns
    /\ \A j \in active : \E r \in Runs : task[r][j].at \in Working
    /\ \A j \in Jobs : apps[j].status = "processing" =>
          LET b == apps[j].batch IN run[b].at = "start" \/ task[b][j].at # "none"

LEMMA NothingFails ==
    ASSUME NoFault, TypeOK
    PROVE  ~Fault
BY DEF NoFault, TypeOK, Fault

LEMMA NothingGoesStale ==
    ASSUME FInv, NoFault, NoneLeft, NEW j \in Jobs, GoStale(j)
    PROVE  FALSE
<1> DEFINE b == apps[j].batch
<1>1. /\ TurnOver /\ apps[j].status = "processing" /\ j \notin active
      /\ \A r \in Runs : run[r].at \notin {"start", "loadCv"}
  BY DEF GoStale, Settled
<1>2. b \in Runs
  BY <1>1 DEF FInv, IInv, TypeOK, Row, WellFormed, Runs
<1>3. task[b][j].at # "none"
  BY <1>1, <1>2 DEF NoneLeft
<1>4. task[b][j].at \notin Working
  BY <1>1, <1>2 DEF FInv, BusyOK
<1>5. task[b][j].at = "queued"
  BY <1>2, <1>3, <1>4 DEF FInv, IInv, TypeOK, Task
<1>6. run[b].at = "work"
  BY <1>1, <1>2, <1>3 DEF FInv, IInv, CopiesOK, RunsOK, Held, TypeOK, Run
<1>7. QED
  BY <1>1, <1>2, <1>5, <1>6, NothingWaits DEF FInv, NoFault

(* Without a fault a worker that lets go of an application has ended it.   *)
LEMMA WorkerEnds ==
    ASSUME FInv, NoFault, NEW r \in Runs, NEW j \in Jobs, WorkOn(r, j)
    PROVE  \/ Busy(j) /\ task[r][j].at = "queued" /\ UNCHANGED active
           \/ task'[r][j].at \in Working /\ active' \subseteq active \cup {j}
           \/ apps'[j].status # "processing" /\ active' \subseteq active /\ j \notin active'
<1> DEFINE row == task[r][j].row
<1>1. ~Fault
  BY NothingFails DEF FInv, IInv
<1>2. /\ task[r][j].at # "none" /\ row \in Row /\ row = apps[j]
  BY CopyIsRow DEF FInv, WorkOn, StartNext, Tailor, Prepare, BeginSend, Send, SaveSent
<1>3. Failed(row).status = "failed"
  BY <1>2, FailedKeeps
<1>4. ASSUME NEW new, Save(j, new) PROVE apps'[j] = new
  BY <1>4 DEF Save, FInv, IInv, TypeOK
<1>5. ASSUME NEW step \in Working, NEW new, NEW n, Keep(r, j, step, new, n)
      PROVE  task'[r][j].at \in Working
  BY <1>5 DEF Keep, FInv, IInv, TypeOK
<1>6. CASE Save(j, Failed(row)) /\ Release(r, j)
  BY <1>3, <1>4, <1>6 DEF Release
<1>7. CASE StartNext(r, j)
  BY <1>1, <1>3, <1>4, <1>5, <1>7 DEF StartNext, Busy, Working
<1>8. CASE Tailor(r, j)
  BY <1>5, <1>8 DEF Tailor, Working
<1>9. CASE Prepare(r, j)
  <2>1. [row EXCEPT !.status = "prepared", !.stage = "none"].status = "prepared"
    BY <1>2 DEF Row
  <2>2. QED
    BY <1>4, <1>9, <2>1 DEF Prepare, Release
<1>10. CASE BeginSend(r, j)
  BY <1>5, <1>6, <1>10 DEF BeginSend, Working
<1>11. ASSUME AttemptFails(r, j)
       PROVE  \/ task'[r][j].at \in Working /\ UNCHANGED active
              \/ Save(j, Failed(row)) /\ Release(r, j)
  BY <1>5, <1>11 DEF AttemptFails, Working
<1>12. CASE Send(r, j)
  BY <1>5, <1>6, <1>11, <1>12 DEF Send, Working
<1>13. CASE SaveSent(r, j)
  <2>1. [row EXCEPT !.status = "sent", !.stage = "none"].status = "sent"
    BY <1>2 DEF Row
  <2>2. QED
    BY <1>1, <1>4, <1>13, <2>1 DEF SaveSent, Release
<1>14. QED
  BY <1>7, <1>8, <1>9, <1>10, <1>12, <1>13 DEF WorkOn

(* What is active and what is processed, after a worker's step.            *)
LEMMA WorkerLeavesNone ==
    ASSUME FInv, NoFault, NoneLeft, NEW r \in Runs, NEW j \in Jobs, WorkOn(r, j),
           NEW i \in Jobs
    PROVE  /\ i \in active' => \E r2 \in Runs : task'[r2][i].at \in Working
           /\ apps'[i].status = "processing" =>
                run'[apps'[i].batch].at = "start" \/ task'[apps'[i].batch][i].at # "none"
<1>1. /\ WorkerMoves(r, j) /\ UNCHANGED run /\ task[r][j].at # "none"
  BY WorkersMove DEF WorkOn, StartNext, Tailor, Prepare, BeginSend, Send, SaveSent
<1>2. /\ apps[j].status = "processing" /\ apps'[j].batch = apps[j].batch
      /\ \A k \in Jobs : k # j => apps'[k] = apps[k]
      /\ \A r2 \in Runs, k \in Jobs : (r2 # r \/ k # j) => task'[r2][k] = task[r2][k]
  BY <1>1 DEF WorkerMoves, RowMoves, TaskMoves
<1>3. apps[j].batch = r
  BY <1>1 DEF NoneLeft, OwnRuns
<1>4. ~(Busy(j) /\ task[r][j].at = "queued")
  <2> SUFFICES ASSUME j \in active, task[r][j].at = "queued" PROVE FALSE
    BY DEF Busy
  <2>1. PICK r2 \in Runs : task[r2][j].at \in Working
    BY DEF NoneLeft
  <2>2. r2 = r
    BY <1>3, <2>1 DEF NoneLeft, OwnRuns, Working
  <2>3. QED
    BY <2>1, <2>2 DEF Working
<1>5. \/ task'[r][j].at \in Working /\ active' \subseteq active \cup {j}
      \/ apps'[j].status # "processing" /\ active' \subseteq active /\ j \notin active'
  BY <1>4, WorkerEnds
<1>6. CASE i = j
  BY <1>2, <1>3, <1>5, <1>6 DEF Working
<1>7. CASE i # j
  <2>1. apps'[i] = apps[i] /\ \A r2 \in Runs : task'[r2][i] = task[r2][i]
    BY <1>2, <1>7
  <2>2. i \in active' => i \in active
    BY <1>5, <1>7
  <2>3. apps[i].status = "processing" => apps[i].batch \in Runs
    BY DEF FInv, IInv, TypeOK, Row, WellFormed, Runs
  <2>4. QED
    BY <1>1, <2>1, <2>2, <2>3 DEF NoneLeft
<1>8. QED
  BY <1>6, <1>7

LEMMA LoadBatchLeavesNone ==
    ASSUME FInv, NoneLeft, NEW r \in Runs, LoadBatch(r), NEW i \in Jobs
    PROVE  /\ i \in active' => \E r2 \in Runs : task'[r2][i].at \in Working
           /\ apps'[i].status = "processing" =>
                run'[apps'[i].batch].at = "start" \/ task'[apps'[i].batch][i].at # "none"
<1> DEFINE b == apps[i].batch
<1>1. /\ run[r].at = "start" /\ run[r].batch = r /\ UNCHANGED <<apps, active>>
  BY DEF LoadBatch, stored, NoneLeft, OwnRuns
<1>2. \A k \in Jobs : task[r][k].at = "none"
  BY <1>1 DEF FInv, IInv, CopiesOK, RunsOK, Held
<1>3. \A r2 \in Runs : r2 # r => task'[r2] = task[r2] /\ run'[r2] = run[r2]
  BY DEF LoadBatch, FInv, IInv, TypeOK
<1>4. ASSUME i \in active PROVE \E r2 \in Runs : task'[r2][i].at \in Working
  <2>1. PICK r2 \in Runs : task[r2][i].at \in Working
    BY <1>4 DEF NoneLeft
  <2>2. r2 # r
    BY <1>2, <2>1 DEF Working
  <2>3. QED
    BY <1>3, <2>1, <2>2
<1>5. ASSUME apps[i].status = "processing"
      PROVE  run'[b].at = "start" \/ task'[b][i].at # "none"
  <2>1. b \in Runs /\ b \in Requests /\ i \in batches[b].apps
    BY <1>5 DEF FInv, BatchLists, IInv, TypeOK, Row, WellFormed, Runs
  <2>2. CASE b # r
    BY <1>3, <1>5, <2>1, <2>2 DEF NoneLeft
  <2>3. CASE b = r
    <3>1. ~Busy(i)
      <4> SUFFICES ASSUME i \in active PROVE FALSE
        BY DEF Busy
      <4>1. PICK r2 \in Runs : task[r2][i].at \in Working
        BY DEF NoneLeft
      <4>2. r2 = r
        BY <2>3, <4>1 DEF NoneLeft, OwnRuns, Working
      <4>3. QED
        BY <1>2, <4>1, <4>2 DEF Working
    <3>2. i \in Pending(run[r].batch)
      BY <1>1, <1>5, <2>1, <2>3, <3>1 DEF Pending
    <3>3. task'[r][i].at = "queued"
      BY <3>2 DEF LoadBatch, FInv, IInv, TypeOK
    <3>4. QED
      BY <2>3, <3>3
  <2>4. QED
    BY <2>2, <2>3
<1>6. QED
  BY <1>1, <1>4, <1>5

LEMMA NextLeavesNone ==
    ASSUME FInv, NoFault, NoneLeft, [Next]_vars
    PROVE  NoneLeft'
<1>1. ~Swept'
  BY SweptBegins, NothingGoesStale DEF NoneLeft
<1>2. OwnRuns'
  BY <1>1, NextOwn DEF NoneLeft, Swept, SweepsIdle
<1>3. ~Fault
  BY NothingFails DEF FInv, IInv
<1>4. \A j \in Jobs : apps[j].status = "processing" => apps[j].batch \in Runs
  BY DEF FInv, IInv, TypeOK, Row, WellFormed, Runs
<1> SUFFICES ASSUME NEW i \in Jobs
             PROVE  /\ i \in active' => \E r \in Runs : task'[r][i].at \in Working
                    /\ apps'[i].status = "processing" =>
                         run'[apps'[i].batch].at = "start" \/ task'[apps'[i].batch][i].at # "none"
  <2>1. active' \subseteq Jobs
    BY NextInv DEF FInv, IInv, TypeOK
  <2>2. QED
    BY <1>1, <1>2, <2>1 DEF NoneLeft
<1> DEFINE Goal == /\ i \in active' => \E r \in Runs : task'[r][i].at \in Working
                   /\ apps'[i].status = "processing" =>
                        \/ run'[apps'[i].batch].at = "start"
                        \/ task'[apps'[i].batch][i].at # "none"
<1>5. CASE UNCHANGED <<apps, active, run, task>>
  BY <1>5 DEF NoneLeft
<1>6. ASSUME NEW r \in Runs, NEW j \in Jobs, WorkOn(r, j) PROVE Goal
  BY <1>6, WorkerLeavesNone
<1>7. ASSUME NEW r \in Runs, LoadBatch(r) PROVE Goal
  BY <1>7, LoadBatchLeavesNone
<1>8. ASSUME NEW r \in Runs, LoadCv(r) \/ CloseBatch(r) PROVE Goal
  <2>1. /\ UNCHANGED <<apps, active, task>> /\ run[r].at # "start"
        /\ \A r2 \in Runs : r2 # r => run'[r2] = run[r2]
    BY <1>8 DEF LoadCv, CloseBatch, stored, FInv, IInv, TypeOK
  <2>2. QED
    BY <1>4, <2>1 DEF NoneLeft
<1>9. ASSUME NEW q \in Requests, Commit(q) PROVE Goal
  <2>1. CommitWrites(q) /\ UNCHANGED <<active, task>>
    BY <1>9, CommitShape DEF FInv, Commit
  <2> DEFINE toProcess == {j \in req[q].wanted : Retryable(req[q].seen[j])}
  <2> DEFINE newRun == [Idle EXCEPT !.at = "start", !.batch = q]
  <2>2. newRun.at = "start" /\ q \in Runs /\ Fresh(q).batch = q
    BY DEF Idle, Fresh, NoRow, Runs
  <2>3. i \in toProcess => apps'[i] = Fresh(q) /\ run' = [run EXCEPT ![q] = newRun]
    <3>1. ~ \E j \in toProcess : req[q].seen[j].status = "absent" /\ apps[j].status # "absent"
      BY <2>1, CommitDoesNotCollide DEF CommitWrites, FInv
    <3>2. QED
      BY <1>9, <2>1, <3>1 DEF Commit, CommitWrites
  <2>4. i \notin toProcess => apps'[i] = apps[i]
    BY <2>1 DEF CommitWrites
  <2>5. \A r \in Runs : run'[r] = run[r] \/ run'[r].at = "start"
    <3>1. UNCHANGED run \/ run' = [run EXCEPT ![q] = newRun]
      BY <1>9 DEF Commit
    <3> HIDE DEF newRun
    <3>2. QED
      BY <2>2, <3>1 DEF FInv, IInv, TypeOK
  <2> HIDE DEF toProcess, newRun
  <2>6. CASE i \in toProcess
    <3>1. run'[q].at = "start" /\ apps'[i].batch = q
      BY <2>2, <2>3, <2>6 DEF FInv, IInv, TypeOK
    <3>2. QED
      BY <2>1, <3>1 DEF NoneLeft
  <2>7. CASE i \notin toProcess
    BY <1>4, <2>1, <2>4, <2>5, <2>7 DEF NoneLeft
  <2>8. QED
    BY <2>6, <2>7
<1>10. ASSUME NEW p \in Reports, SaveReport(p) PROVE Goal
  <2>1. ReportWrites(p) /\ UNCHANGED <<active, run, task>>
    BY <1>10, SaveReportShape DEF FInv, SaveReport
  <2>2. apps'[i].status = "processing" => apps'[i] = apps[i]
    BY <2>1 DEF ReportWrites
  <2>3. QED
    BY <2>1, <2>2 DEF NoneLeft
<1>11. ASSUME NEW s \in Sweeps, SweepStep(s) PROVE Goal
  <2>1. ~ResumeNext(s)
    BY DEF NoneLeft, Swept, ResumeNext
  <2>2. QED
    BY <1>5, <1>11, <2>1 DEF SweepStep, SweepRead, stored
<1>12. ~Crash /\ (\A r \in Runs : ~RunThrows(r)) /\ \A r \in Runs, j \in Jobs : ~ProcessThrows(r, j)
  BY <1>3 DEF Crash, RunThrows, ProcessThrows
<1>13. QED
  BY <1>5, <1>6, <1>7, <1>8, <1>9, <1>10, <1>11, <1>12
     DEF Next, vars, stored, RunStep, ReadExisting, PollBatch, GoStale, ReadForReport, ChangeCv

-----------------------------------------------------------------------------
(* The hypothesis holds in all three cases.                                *)

Regime == NoSweep \/ OneFits \/ NoFault

LEMMA StayApart ==
    ASSUME Regime
    PROVE  Spec => WaitingCopiesStay /\ []FInv
<1>1. CASE NoSweep
  <2>1. Init => FInv /\ OwnRuns
    <3>1. Init => OwnRuns
      BY DEF Init, OwnRuns, Idle, NoTask
    <3>2. QED
      BY <3>1, InitFInv
  <2>2. FInv /\ OwnRuns /\ [Next]_vars => ~CopyOvertaken
    BY OwnRunsApart, ApartKeepsCopies
  <2>3. FInv /\ OwnRuns /\ [Next]_vars => FInv' /\ OwnRuns'
    BY <1>1, <2>2, NextKeeps, NextOwn DEF NoSweep, SweepsIdle
  <2>4. QED
    BY <2>1, <2>2, <2>3, PTL DEF Spec, WaitingCopiesStay
<1>2. CASE OneFits
  <2>1. Init => FInv /\ SweepsLater
    <3>1. Init => SweepsLater
      BY DEF Init, SweepsLater, Swept, Idle, NoTask, Runs
    <3>2. QED
      BY <3>1, InitFInv
  <2>2. FInv /\ SweepsLater /\ [Next]_vars => ~CopyOvertaken
    BY <1>2, SweepsLaterApart, ApartKeepsCopies
  <2>3. FInv /\ SweepsLater /\ [Next]_vars => FInv' /\ SweepsLater'
    BY <1>2, <2>2, NextKeeps, NextLater
  <2>4. QED
    BY <2>1, <2>2, <2>3, PTL DEF Spec, WaitingCopiesStay
<1>3. CASE NoFault
  <2>1. Init => FInv /\ NoneLeft
    <3>1. Init => ~Swept /\ active = {} /\ \A j \in Jobs : apps[j].status # "processing"
      BY DEF Init, Swept, Idle, NoRow, Runs
    <3>2. Init => OwnRuns
      BY DEF Init, OwnRuns, Idle, NoTask
    <3>3. QED
      BY <3>1, <3>2, InitFInv DEF NoneLeft
  <2>2. FInv /\ NoneLeft /\ [Next]_vars => ~CopyOvertaken
    BY OwnRunsApart, ApartKeepsCopies DEF NoneLeft
  <2>3. FInv /\ NoneLeft /\ [Next]_vars => FInv' /\ NoneLeft'
    BY <1>3, <2>2, NextKeeps, NextLeavesNone
  <2>4. QED
    BY <2>1, <2>2, <2>3, PTL DEF Spec, WaitingCopiesStay
<1>4. QED
  BY <1>1, <1>2, <1>3 DEF Regime

(* No row changes under a waiting copy when the sweep never fires, when    *)
(* the only batch fits the pool and sweeps do not overlap (crashes and     *)
(* errors or not), or when batches fit the pool and nothing fails.         *)
THEOREM CopiesStay ==
    ASSUME Regime
    PROVE  Spec => WaitingCopiesStay
BY StayApart, PTL

(* In those cases, for any number of jobs, retries and reports: what the   *)
(* app was told is sent stays and shows the CV that was sent, a batch done *)
(* has no work left, and only a failed application is retried.             *)
THEOREM FinalInRegime ==
    ASSUME Regime
    PROVE  Spec => /\ SentIsFinal
                   /\ []SentCvIsRecorded
                   /\ []DoneBatchHasNoWork
                   /\ OnlyFailedIsRetried
BY CopiesStay, SentStays, SentCvStays, DoneMeansDone, OnlyFailuresAreRetried, PTL

(* With one report at a time they keep what a user reported and the whole  *)
(* promise of ApplicationLifecycle, but for its fairness.                  *)
THEOREM PromiseInRegime ==
    ASSUME Regime, OneReport
    PROVE  Spec => SubmittedIsFinal /\ LifecycleSafety
BY CopiesStay, SubmittedStays, PromiseIsKept, PTL
=============================================================================
