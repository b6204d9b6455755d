-------------------------- MODULE ApplicationsProofs --------------------------
(***************************************************************************)
(* Theorems of Applications, for every set of jobs, requests, sweeps and   *)
(* reports, any size of pool and any number of faults.                     *)
(***************************************************************************)
EXTENDS Applications, TLAPS

(* Everything the type of a row or of a copy says is inductive only        *)
(* together with what the copies are copies of.                            *)
IInv == TypeOK /\ CopiesOK

-----------------------------------------------------------------------------
(* Rows.                                                                   *)

LEMMA NoRowIsRow == NoRow \in Row /\ WellFormed(NoRow)
BY DEF NoRow, Row, Statuses, WellFormed

LEMMA NoTaskIsTask == NoTask \in Task /\ NoTask.at = "none"
BY NoRowIsRow DEF NoTask, Task

LEMMA FailedIsRow ==
    ASSUME NEW row \in Row, WellFormed(row), row.status # "absent"
    PROVE  /\ Failed(row) \in Row
           /\ WellFormed(Failed(row))
           /\ Failed(row).status = "failed"
           /\ Failed(row).batch = row.batch
BY DEF Failed, Row, Statuses, WellFormed

LEMMA FreshIsRow ==
    ASSUME NEW q \in Requests
    PROVE  Fresh(q) \in Row /\ WellFormed(Fresh(q)) /\ Fresh(q).status = "processing"
BY ConstantsAssumption DEF Fresh, NoRow, Row, Statuses, WellFormed

LEMMA StagedIsRow ==
    ASSUME NEW row \in Row, row.status = "processing", WellFormed(row),
           NEW stage \in {"tailoring", "sending"}
    PROVE  LET new == [row EXCEPT !.stage = stage] IN
           /\ new \in Row
           /\ WellFormed(new)
           /\ new.status = "processing"
           /\ new.batch = row.batch
           /\ new.cv = row.cv
BY DEF Row, WellFormed

LEMMA TailoredIsRow ==
    ASSUME NEW row \in Row, row.status = "processing", WellFormed(row),
           NEW cv \in Cvs, NEW changed \in BOOLEAN
    PROVE  LET new == [row EXCEPT !.cv = <<cv, changed>>] IN
           /\ new \in Row
           /\ WellFormed(new)
           /\ new.status = "processing"
           /\ new.cv # None
BY ConstantsAssumption DEF Row, TailoredCvs, WellFormed

LEMMA EndedIsRow ==
    ASSUME NEW row \in Row, row.status = "processing", WellFormed(row),
           NEW status \in {"sent", "prepared"}
    PROVE  LET new == [row EXCEPT !.status = status, !.stage = "none"] IN
           /\ new \in Row
           /\ WellFormed(new)
           /\ new.status = status
           /\ new.batch = row.batch
BY DEF Row, Statuses, WellFormed

LEMMA ReportedIsRow ==
    ASSUME TypeOK, ReportsOK, NEW p \in Reports, report[p].kind # "idle"
    PROVE  /\ Reported(p) \in Row
           /\ WellFormed(Reported(p))
           /\ Reported(p).status \in {"opened", "submitted"}
<1> DEFINE row == report[p].row
<1>1. row \in Row /\ row.status \in {"prepared", "opened"} /\ WellFormed(row)
  BY DEF TypeOK, ReportsOK, Report
<1>2. CASE report[p].kind = "opened"
  BY <1>1, <1>2 DEF Reported, Row, Statuses, WellFormed
<1>3. CASE report[p].kind # "opened"
  BY <1>1, <1>3 DEF Reported, Row, Statuses, WellFormed
<1>4. QED
  BY <1>2, <1>3

(* A row being processed belongs to a batch. *)
LEMMA ProcessingHasBatch ==
    ASSUME NEW row \in Row, WellFormed(row), row.status = "processing"
    PROVE  row.batch \in Requests
BY DEF Row, WellFormed

(* Saving a row leaves the table a table of well-formed rows. *)
LEMMA SaveType ==
    ASSUME TypeOK, NEW j \in Jobs, NEW row \in Row, WellFormed(row), Save(j, row)
    PROVE  /\ apps' \in [Jobs -> Row]
           /\ \A k \in Jobs : WellFormed(apps[k])'
           /\ stale' \subseteq Jobs
           /\ apps'[j] = row
           /\ \A k \in Jobs : k # j => apps'[k] = apps[k]
<1>1. /\ apps' \in [Jobs -> Row]
      /\ apps'[j] = row
      /\ \A k \in Jobs : k # j => apps'[k] = apps[k]
      /\ stale' \subseteq Jobs
  BY DEF TypeOK, Save
<1>2. ASSUME NEW k \in Jobs PROVE WellFormed(apps'[k])
  BY <1>1 DEF TypeOK
<1>3. QED
  BY <1>1, <1>2 DEF WellFormed

-----------------------------------------------------------------------------
(* What a run holds.                                                       *)

(* Putting one task leaves every other task of every run as it was. *)
LEMMA PutTask ==
    ASSUME TypeOK, NEW r \in Runs, NEW j \in Jobs, NEW t \in Task,
           task' = [task EXCEPT ![r][j] = t]
    PROVE  /\ task' \in [Runs -> [Jobs -> Task]]
           /\ task'[r][j] = t
           /\ \A r2 \in Runs, j2 \in Jobs :
                 (r2 # r \/ j2 # j) => task'[r2][j2] = task[r2][j2]
BY DEF TypeOK

LEMMA KeepType ==
    ASSUME TypeOK, NEW r \in Runs, NEW j \in Jobs, NEW step \in Working,
           NEW row \in Row, NEW n \in Nat, Keep(r, j, step, row, n)
    PROVE  /\ task' \in [Runs -> [Jobs -> Task]]
           /\ task'[r][j] = [at |-> step, row |-> row, tries |-> n]
           /\ \A r2 \in Runs, j2 \in Jobs :
                 (r2 # r \/ j2 # j) => task'[r2][j2] = task[r2][j2]
<1>1. [at |-> step, row |-> row, tries |-> n] \in Task
  BY DEF Task
<1>2. QED
  BY <1>1, PutTask DEF Keep

LEMMA ReleaseType ==
    ASSUME TypeOK, NEW r \in Runs, NEW j \in Jobs, Release(r, j)
    PROVE  /\ task' \in [Runs -> [Jobs -> Task]]
           /\ task'[r][j] = NoTask
           /\ \A r2 \in Runs, j2 \in Jobs :
                 (r2 # r \/ j2 # j) => task'[r2][j2] = task[r2][j2]
           /\ active' \subseteq Jobs
<1>1. active' \subseteq Jobs
  BY DEF TypeOK, Release
<1>2. QED
  BY <1>1, NoTaskIsTask, PutTask DEF Release

(* No step deletes a row; only Commit inserts any. *)
RowsStay == \A j \in Jobs : apps[j].status # "absent" => apps'[j].status # "absent"
NoInsert == \A j \in Jobs : apps[j].status = "absent" => apps'[j].status = "absent"

(* Two ways a step of a worker on application j of run r changes what runs *)
(* hold: to a good task in a run at work, or to none.  Either keeps        *)
(* RunsOK and TasksOK.                                                     *)
GoodTask(r, t) ==
    /\ t.at \in Working
    /\ t.row.status = "processing" /\ WellFormed(t.row)
    /\ t.at = "tailoring" => run[r].cv # None
    /\ t.at # "tailoring" => t.row.cv # None

LEMMA TaskStep ==
    ASSUME TypeOK, RunsOK, TasksOK, RowsStay, run' = run,
           NEW r \in Runs, NEW j \in Jobs, run[r].at = "work",
           apps[j].status # "absent",
           task'[r][j] = NoTask \/ GoodTask(r, task'[r][j]),
           \A r2 \in Runs, j2 \in Jobs :
              (r2 # r \/ j2 # j) => task'[r2][j2] = task[r2][j2]
    PROVE  RunsOK' /\ TasksOK'
<1>1. TasksOK'
  <2> SUFFICES ASSUME NEW r2 \in Runs, NEW j2 \in Jobs
               PROVE  LET t == task'[r2][j2] IN
                      /\ t.at # "none" =>
                           /\ t.row.status = "processing" /\ WellFormed(t.row)
                           /\ apps'[j2].status # "absent"
                      /\ t.at = "tailoring" => run[r2].cv # None
                      /\ t.at \in {"ready", "sending", "accepted"} => t.row.cv # None
    BY DEF TasksOK, WellFormed
  <2>1. CASE r2 # r \/ j2 # j
    BY <2>1 DEF TasksOK, RowsStay
  <2>2. CASE r2 = r /\ j2 = j
    BY <2>2, NoTaskIsTask DEF GoodTask, RowsStay
  <2>3. QED
    BY <2>1, <2>2
<1>2. RunsOK'
  <2> SUFFICES ASSUME NEW r2 \in Runs
               PROVE  /\ run[r2].at # "idle" => run[r2].batch # None
                      /\ run[r2].at \in {"idle", "start"} => Held(r2)' = {}
                      /\ run[r2].at = "loadCv" => InFlight(r2)' = {}
    BY DEF RunsOK
  <2>1. CASE r2 # r
    <3>1. \A j2 \in Jobs : task'[r2][j2] = task[r2][j2]
      BY <2>1
    <3>2. Held(r2)' = Held(r2) /\ InFlight(r2)' = InFlight(r2)
      BY <3>1 DEF Held, InFlight
    <3>3. QED
      BY <3>2 DEF RunsOK
  <2>2. CASE r2 = r
    BY <2>2 DEF RunsOK
  <2>3. QED
    BY <2>1, <2>2
<1>3. QED
  BY <1>1, <1>2

(* A worker is at work only in a run that is. *)
LEMMA InFlightAtWork ==
    ASSUME TypeOK, RunsOK, NEW r \in Runs, NEW j \in Jobs, task[r][j].at \in Working
    PROVE  run[r].at = "work"
<1>1. j \in Held(r) /\ j \in InFlight(r)
  BY DEF Held, InFlight, Working
<1>2. run[r].at \notin {"idle", "start", "loadCv"}
  BY <1>1 DEF RunsOK
<1>3. QED
  BY <1>2 DEF TypeOK, Run

(* Requests and reports a step leaves alone stay good. *)
LEMMA RequestsFrame ==
    ASSUME TypeOK, RequestsOK, NoInsert, UNCHANGED <<req, lock>>,
           \A q \in Requests : run[q].at = "idle" => run'[q].at = "idle"
    PROVE  RequestsOK'
<1> SUFFICES ASSUME NEW q \in Requests
             PROVE  /\ req[q].at \in {"idle", "locked"} => run'[q].at = "idle"
                    /\ req[q].at = "locked" =>
                         /\ lock = q
                         /\ \A j \in req[q].wanted :
                               req[q].seen[j].status = "absent" => apps'[j].status = "absent"
  BY DEF RequestsOK
<1>1. req[q].wanted \subseteq Jobs
  BY DEF TypeOK, Request
<1> QED
  BY <1>1 DEF RequestsOK, NoInsert

LEMMA ReportsFrame ==
    ASSUME ReportsOK, RowsStay, UNCHANGED report
    PROVE  ReportsOK'
<1> SUFFICES ASSUME NEW p \in Reports, report[p].kind # "idle"
             PROVE  /\ report[p].job \in Jobs
                    /\ report[p].row.status \in {"prepared", "opened"}
                    /\ WellFormed(report[p].row)
                    /\ apps'[report[p].job].status # "absent"
  BY DEF ReportsOK, WellFormed
<1> QED
  BY DEF ReportsOK, RowsStay

(* Runs and tasks a step leaves alone. *)
LEMMA TasksFrame ==
    ASSUME RunsOK, TasksOK, RowsStay, UNCHANGED <<run, task>>
    PROVE  RunsOK' /\ TasksOK'
<1>1. RunsOK'
  BY DEF RunsOK, Held, InFlight
<1>2. TasksOK'
  BY DEF TasksOK, RowsStay, WellFormed
<1>3. QED
  BY <1>1, <1>2

(* Saving a row that is there inserts and deletes none. *)
LEMMA SaveKeepsRows ==
    ASSUME TypeOK, NEW j \in Jobs, NEW row \in Row, WellFormed(row), Save(j, row),
           apps[j].status # "absent", row.status # "absent"
    PROVE  RowsStay /\ NoInsert
BY SaveType DEF RowsStay, NoInsert

LEMMA SameRows ==
    ASSUME UNCHANGED apps
    PROVE  RowsStay /\ NoInsert
BY DEF RowsStay, NoInsert

(* The copies after a step of a worker that only saves and moves its task. *)
LEMMA WorkerStep ==
    ASSUME IInv, RowsStay, NoInsert, UNCHANGED <<run, req, lock, report>>,
           NEW r \in Runs, NEW j \in Jobs, run[r].at = "work", task[r][j].at # "none",
           task'[r][j] = NoTask \/ GoodTask(r, task'[r][j]),
           \A r2 \in Runs, j2 \in Jobs :
              (r2 # r \/ j2 # j) => task'[r2][j2] = task[r2][j2]
    PROVE  CopiesOK'
<1>1. apps[j].status # "absent"
  BY DEF IInv, CopiesOK, TasksOK
<1>2. RunsOK' /\ TasksOK'
  BY <1>1, TaskStep DEF IInv, CopiesOK
<1>3. RequestsOK'
  BY RequestsFrame DEF IInv, CopiesOK
<1>4. ReportsOK'
  BY ReportsFrame DEF IInv, CopiesOK
<1>5. QED
  BY <1>2, <1>3, <1>4 DEF CopiesOK

(* What a task in hand is known to be. *)
LEMMA TaskInHand ==
    ASSUME IInv, NEW r \in Runs, NEW j \in Jobs, task[r][j].at # "none"
    PROVE  LET t == task[r][j] IN
           /\ t \in Task /\ t.row \in Row /\ t.tries \in Nat
           /\ t.row.status = "processing" /\ WellFormed(t.row)
           /\ t.row.batch \in Requests
           /\ apps[j].status # "absent"
           /\ t.at \in {"ready", "sending", "accepted"} => t.row.cv \in TailoredCvs
           /\ t.at = "tailoring" => run[r].cv \in Cvs
           /\ t.at \in Working => run[r].at = "work"
<1> DEFINE t == task[r][j]
<1>1. t \in Task /\ t.row \in Row /\ t.tries \in Nat
  BY DEF IInv, TypeOK, Task
<1>2. t.row.status = "processing" /\ WellFormed(t.row) /\ apps[j].status # "absent"
  BY DEF IInv, CopiesOK, TasksOK
<1>3. t.row.batch \in Requests
  BY <1>1, <1>2, ProcessingHasBatch
<1>4. t.at \in {"ready", "sending", "accepted"} => t.row.cv \in TailoredCvs
  BY <1>1 DEF IInv, CopiesOK, TasksOK, Row
<1>5. t.at = "tailoring" => run[r].cv \in Cvs
  BY DEF IInv, CopiesOK, TasksOK, TypeOK, Run
<1>6. t.at \in Working => run[r].at = "work"
  BY InFlightAtWork DEF IInv, CopiesOK
<1>7. QED
  BY <1>1, <1>2, <1>3, <1>4, <1>5, <1>6

-----------------------------------------------------------------------------
(* The steps of a worker.                                                  *)

(* The tables and the pool after a step that saves a row of the job, or    *)
(* none, and moves the job's task.                                         *)
LEMMA WorkerType ==
    ASSUME TypeOK, UNCHANGED <<batches, deviceCv, lock, req, run, queue, report>>,
           apps' \in [Jobs -> Row], \A k \in Jobs : WellFormed(apps[k])',
           stale' \subseteq Jobs, active' \subseteq Jobs,
           task' \in [Runs -> [Jobs -> Task]],
           delivered' \subseteq Jobs \X Requests \X TailoredCvs,
           UNCHANGED faults \/ Fault
    PROVE  TypeOK'
<1>1. faults' \in 0..MaxFaults
  BY ConstantsAssumption DEF TypeOK, Fault
<1>2. QED
  BY <1>1 DEF TypeOK

(* One shape for every step that saves a row and keeps or ends the task. *)
LEMMA SaveAndMove ==
    ASSUME IInv, NEW r \in Runs, NEW j \in Jobs,
           task[r][j].at # "none", run[r].at = "work",
           UNCHANGED <<batches, deviceCv, lock, req, run, queue, report>>,
           UNCHANGED faults \/ Fault,
           delivered' \subseteq Jobs \X Requests \X TailoredCvs,
           active' \subseteq Jobs,
           UNCHANGED <<apps, stale>> \/
             \E row \in Row : WellFormed(row) /\ row.status # "absent" /\ Save(j, row),
           task' = [task EXCEPT ![r][j] = NoTask] \/
             \E t \in Task : GoodTask(r, t) /\ task' = [task EXCEPT ![r][j] = t]
    PROVE  IInv'
<1>1. /\ apps' \in [Jobs -> Row] /\ \A k \in Jobs : WellFormed(apps[k])'
      /\ stale' \subseteq Jobs
      /\ RowsStay /\ NoInsert
  <2>1. CASE UNCHANGED <<apps, stale>>
    BY <2>1, SameRows DEF IInv, TypeOK, WellFormed
  <2>2. ASSUME NEW row \in Row, WellFormed(row), row.status # "absent", Save(j, row)
        PROVE  <1>1
    <3>1. apps[j].status # "absent"
      BY TaskInHand
    <3>2. QED
      BY <2>2, <3>1, SaveType, SaveKeepsRows DEF IInv
  <2>3. QED
    BY <2>1, <2>2
<1>2. /\ task' \in [Runs -> [Jobs -> Task]]
      /\ task'[r][j] = NoTask \/ GoodTask(r, task'[r][j])
      /\ \A r2 \in Runs, j2 \in Jobs :
            (r2 # r \/ j2 # j) => task'[r2][j2] = task[r2][j2]
  BY PutTask, NoTaskIsTask DEF IInv
<1>3. TypeOK'
  BY <1>1, <1>2, WorkerType DEF IInv
<1>4. CopiesOK'
  BY <1>1, <1>2, WorkerStep
<1>5. QED
  BY <1>3, <1>4 DEF IInv

(* Keep and Release, as SaveAndMove wants them. *)
LEMMA KeepMoves ==
    ASSUME NEW r \in Runs, NEW j \in Jobs, NEW step \in Working, NEW row \in Row,
           NEW n \in Nat, Keep(r, j, step, row, n),
           row.status = "processing", WellFormed(row),
           step = "tailoring" => run[r].cv # None,
           step # "tailoring" => row.cv # None
    PROVE  \E t \in Task : GoodTask(r, t) /\ task' = [task EXCEPT ![r][j] = t]
<1> DEFINE t == [at |-> step, row |-> row, tries |-> n]
<1>1. t \in Task
  BY DEF Task
<1>2. GoodTask(r, t)
  BY DEF GoodTask
<1>3. QED
  BY <1>1, <1>2 DEF Keep

LEMMA AttemptFailsMoves ==
    ASSUME IInv, NEW r \in Runs, NEW j \in Jobs,
           task[r][j].at \in {"sending", "accepted"}, AttemptFails(r, j)
    PROVE  /\ active' \subseteq Jobs
           /\ \/ UNCHANGED <<apps, stale>>
              \/ \E row \in Row : WellFormed(row) /\ row.status # "absent" /\ Save(j, row)
           /\ \/ task' = [task EXCEPT ![r][j] = NoTask]
              \/ \E t \in Task : GoodTask(r, t) /\ task' = [task EXCEPT ![r][j] = t]
<1> DEFINE t == task[r][j]
<1>1. /\ t.row \in Row /\ t.tries \in Nat
      /\ t.row.status = "processing" /\ WellFormed(t.row) /\ t.row.cv # None
  BY TaskInHand, ConstantsAssumption DEF IInv, CopiesOK, TasksOK
<1>2. CASE t.tries + 1 < SEND_ATTEMPTS
  <2>1. Keep(r, j, "sending", t.row, t.tries + 1) /\ UNCHANGED <<apps, stale, active>>
    BY <1>2 DEF AttemptFails
  <2>2. "sending" \in Working /\ t.tries + 1 \in Nat
    BY <1>1 DEF Working
  <2>3. \E new \in Task : GoodTask(r, new) /\ task' = [task EXCEPT ![r][j] = new]
    BY <1>1, <2>1, <2>2, KeepMoves
  <2>4. active' \subseteq Jobs
    BY <2>1 DEF IInv, TypeOK
  <2>5. QED
    BY <2>1, <2>3, <2>4
<1>3. CASE ~(t.tries + 1 < SEND_ATTEMPTS)
  <2>1. Save(j, Failed(t.row)) /\ Release(r, j)
    BY <1>3 DEF AttemptFails
  <2>2. QED
    BY <1>1, <2>1, FailedIsRow DEF Release, IInv, TypeOK
<1>4. QED
  BY <1>2, <1>3

LEMMA StartNextInv ==
    ASSUME IInv, NEW r \in Runs, NEW j \in Jobs, StartNext(r, j)
    PROVE  IInv'
<1> DEFINE row == task[r][j].row
<1> DEFINE staged == [row EXCEPT !.stage = "tailoring"]
<1>1. /\ row \in Row /\ row.status = "processing" /\ WellFormed(row)
      /\ task[r][j].at # "none" /\ run[r].at = "work"
  BY TaskInHand DEF StartNext
<1>2. /\ UNCHANGED <<batches, deviceCv, lock, req, run, queue, report>>
      /\ UNCHANGED faults \/ Fault
      /\ delivered' \subseteq Jobs \X Requests \X TailoredCvs
  BY DEF StartNext, IInv, TypeOK
<1>3. active' \subseteq Jobs
  BY DEF StartNext, IInv, TypeOK
<1>4. CASE Busy(j)
  <2>1. task' = [task EXCEPT ![r][j] = NoTask] /\ UNCHANGED <<apps, stale>>
    BY <1>4 DEF StartNext
  <2>2. QED
    BY <1>1, <1>2, <1>3, <2>1, SaveAndMove
<1>5. CASE ~Busy(j) /\ run[r].cv = None
  <2>1. /\ task' = [task EXCEPT ![r][j] = NoTask]
        /\ Save(j, Failed(row)) \/ UNCHANGED <<apps, stale>>
    BY <1>5 DEF StartNext
  <2>2. Failed(row) \in Row /\ WellFormed(Failed(row)) /\ Failed(row).status # "absent"
    BY <1>1, FailedIsRow
  <2>3. QED
    BY <1>1, <1>2, <1>3, <2>1, <2>2, SaveAndMove
<1>6. CASE ~Busy(j) /\ run[r].cv # None /\ ~HasTailoredCv(row)
  <2>1. Save(j, staged) /\ Keep(r, j, "tailoring", staged, 0)
    BY <1>6 DEF StartNext
  <2>2. staged \in Row /\ WellFormed(staged) /\ staged.status = "processing"
    BY <1>1, StagedIsRow
  <2>3. "tailoring" \in Working
    BY DEF Working
  <2>4. \E new \in Task : GoodTask(r, new) /\ task' = [task EXCEPT ![r][j] = new]
    BY <1>6, <2>1, <2>2, <2>3, KeepMoves
  <2>5. QED
    BY <1>1, <1>2, <1>3, <2>1, <2>2, <2>4, SaveAndMove
<1>7. CASE ~Busy(j) /\ run[r].cv # None /\ HasTailoredCv(row)
  <2>1. Keep(r, j, "ready", row, 0) /\ UNCHANGED <<apps, stale>>
    BY <1>7 DEF StartNext
  <2>2. "ready" \in Working /\ row.cv # None
    BY <1>7 DEF Working, HasTailoredCv
  <2>3. \E new \in Task : GoodTask(r, new) /\ task' = [task EXCEPT ![r][j] = new]
    BY <1>1, <2>1, <2>2, KeepMoves
  <2>4. QED
    BY <1>1, <1>2, <1>3, <2>1, <2>3, SaveAndMove
<1>8. QED
  BY <1>4, <1>5, <1>6, <1>7

LEMMA TailorInv ==
    ASSUME IInv, NEW r \in Runs, NEW j \in Jobs, Tailor(r, j)
    PROVE  IInv'
<1>1. /\ task[r][j].row \in Row /\ task[r][j].row.status = "processing"
      /\ WellFormed(task[r][j].row)
      /\ task[r][j].at # "none" /\ run[r].at = "work" /\ run[r].cv \in Cvs
  BY TaskInHand DEF Tailor, Working
<1>2. PICK changed \in BOOLEAN :
         LET row == [task[r][j].row EXCEPT !.cv = <<run[r].cv, changed>>] IN
            Save(j, row) /\ Keep(r, j, "ready", row, 0)
  BY DEF Tailor
<1> DEFINE row == [task[r][j].row EXCEPT !.cv = <<run[r].cv, changed>>]
<1>3. row \in Row /\ WellFormed(row) /\ row.status = "processing" /\ row.cv # None
  BY <1>1, TailoredIsRow
<1>4. \E new \in Task : GoodTask(r, new) /\ task' = [task EXCEPT ![r][j] = new]
  BY <1>2, <1>3, KeepMoves DEF Working
<1>5. /\ UNCHANGED <<batches, deviceCv, lock, req, run, queue, report, faults>>
      /\ active' \subseteq Jobs
      /\ delivered' \subseteq Jobs \X Requests \X TailoredCvs
  BY DEF Tailor, IInv, TypeOK
<1>6. QED
  BY <1>1, <1>2, <1>3, <1>4, <1>5, SaveAndMove

LEMMA PrepareInv ==
    ASSUME IInv, NEW r \in Runs, NEW j \in Jobs, Prepare(r, j)
    PROVE  IInv'
<1> DEFINE row == [task[r][j].row EXCEPT !.status = "prepared", !.stage = "none"]
<1>1. task[r][j].at # "none" /\ run[r].at = "work"
  BY TaskInHand DEF Prepare, Working
<1>2. row \in Row /\ WellFormed(row) /\ row.status # "absent"
  BY <1>1, TaskInHand, EndedIsRow
<1>3. /\ UNCHANGED <<batches, deviceCv, lock, req, run, queue, report, faults>>
      /\ active' \subseteq Jobs
      /\ delivered' \subseteq Jobs \X Requests \X TailoredCvs
      /\ Save(j, row) /\ task' = [task EXCEPT ![r][j] = NoTask]
  BY DEF Prepare, Release, IInv, TypeOK
<1>4. QED
  BY <1>1, <1>2, <1>3, SaveAndMove

LEMMA BeginSendInv ==
    ASSUME IInv, NEW r \in Runs, NEW j \in Jobs, BeginSend(r, j)
    PROVE  IInv'
<1> DEFINE row == task[r][j].row
<1> DEFINE sending == [row EXCEPT !.stage = "sending"]
<1>1. /\ row \in Row /\ row.status = "processing" /\ WellFormed(row)
      /\ row.cv # None
      /\ task[r][j].at # "none" /\ run[r].at = "work"
  BY TaskInHand DEF BeginSend, Working, IInv, CopiesOK, TasksOK
<1>2. /\ UNCHANGED <<batches, deviceCv, lock, req, run, queue, report, faults>>
      /\ delivered' \subseteq Jobs \X Requests \X TailoredCvs
  BY DEF BeginSend, IInv, TypeOK
<1>3. CASE row.cv[1] \in Mailable
  <2>1. Save(j, sending) /\ Keep(r, j, "sending", sending, 0) /\ active' \subseteq Jobs
    BY <1>3 DEF BeginSend, IInv, TypeOK
  <2>2. sending \in Row /\ WellFormed(sending) /\ sending.status = "processing" /\ sending.cv # None
    BY <1>1, StagedIsRow
  <2>3. \E new \in Task : GoodTask(r, new) /\ task' = [task EXCEPT ![r][j] = new]
    BY <2>1, <2>2, KeepMoves DEF Working
  <2>4. QED
    BY <1>1, <1>2, <2>1, <2>2, <2>3, SaveAndMove
<1>4. CASE row.cv[1] \notin Mailable
  <2>1. Save(j, Failed(row)) /\ task' = [task EXCEPT ![r][j] = NoTask] /\ active' \subseteq Jobs
    BY <1>4 DEF BeginSend, Release, IInv, TypeOK
  <2>2. QED
    BY <1>1, <1>2, <2>1, FailedIsRow, SaveAndMove
<1>5. QED
  BY <1>3, <1>4

LEMMA SendInv ==
    ASSUME IInv, NEW r \in Runs, NEW j \in Jobs, Send(r, j)
    PROVE  IInv'
<1> DEFINE t == task[r][j]
<1>1. /\ t.at = "sending" /\ t.row \in Row /\ t.tries \in Nat
      /\ t.row.status = "processing" /\ WellFormed(t.row)
      /\ t.row.batch \in Requests /\ t.row.cv \in TailoredCvs /\ t.row.cv # None
      /\ run[r].at = "work"
  BY TaskInHand DEF Send, Working, IInv, CopiesOK, TasksOK
<1>2. UNCHANGED <<batches, deviceCv, lock, req, run, queue, report, faults>>
  BY DEF Send
<1>3. delivered' \subseteq Jobs \X Requests \X TailoredCvs
  <2>1. <<j, t.row.batch, t.row.cv>> \in Jobs \X Requests \X TailoredCvs
    BY <1>1
  <2>2. CASE Deliver(j, t.row)
    BY <2>1, <2>2 DEF Deliver, IInv, TypeOK
  <2>3. CASE UNCHANGED delivered
    BY <2>3 DEF IInv, TypeOK
  <2>4. QED
    BY <2>2, <2>3 DEF Send
<1>4. CASE Keep(r, j, "accepted", t.row, t.tries) /\ UNCHANGED <<apps, stale, active>>
  <2>1. \E new \in Task : GoodTask(r, new) /\ task' = [task EXCEPT ![r][j] = new]
    BY <1>1, <1>4, KeepMoves DEF Working
  <2>2. active' \subseteq Jobs
    BY <1>4 DEF IInv, TypeOK
  <2>3. QED
    BY <1>1, <1>2, <1>3, <1>4, <2>1, <2>2, SaveAndMove
<1>5. CASE AttemptFails(r, j)
  BY <1>1, <1>2, <1>3, <1>5, AttemptFailsMoves, SaveAndMove
<1>6. QED
  BY <1>4, <1>5 DEF Send

LEMMA SaveSentInv ==
    ASSUME IInv, NEW r \in Runs, NEW j \in Jobs, SaveSent(r, j)
    PROVE  IInv'
<1> DEFINE row == [task[r][j].row EXCEPT !.status = "sent", !.stage = "none"]
<1>1. task[r][j].at = "accepted" /\ run[r].at = "work"
  BY TaskInHand DEF SaveSent, Working
<1>2. /\ UNCHANGED <<batches, deviceCv, lock, req, run, queue, report>>
      /\ UNCHANGED faults \/ Fault
      /\ delivered' \subseteq Jobs \X Requests \X TailoredCvs
  BY DEF SaveSent, IInv, TypeOK
<1>3. CASE Save(j, row) /\ Release(r, j)
  <2>1. row \in Row /\ WellFormed(row) /\ row.status # "absent"
    BY <1>1, TaskInHand, EndedIsRow
  <2>2. task' = [task EXCEPT ![r][j] = NoTask] /\ active' \subseteq Jobs
    BY <1>3 DEF Release, IInv, TypeOK
  <2>3. QED
    BY <1>1, <1>2, <1>3, <2>1, <2>2, SaveAndMove
<1>4. CASE AttemptFails(r, j)
  BY <1>1, <1>2, <1>4, AttemptFailsMoves, SaveAndMove
<1>5. QED
  BY <1>3, <1>4 DEF SaveSent

LEMMA ProcessThrowsInv ==
    ASSUME IInv, NEW r \in Runs, NEW j \in Jobs, ProcessThrows(r, j)
    PROVE  IInv'
<1>1. task[r][j].at # "none" /\ run[r].at = "work"
  BY TaskInHand DEF ProcessThrows, Working
<1>2. /\ UNCHANGED <<batches, deviceCv, lock, req, run, queue, report>> /\ Fault
      /\ active' \subseteq Jobs
      /\ delivered' \subseteq Jobs \X Requests \X TailoredCvs
      /\ task' = [task EXCEPT ![r][j] = NoTask]
  BY DEF ProcessThrows, Release, IInv, TypeOK
<1>3. Save(j, Failed(task[r][j].row)) \/ UNCHANGED <<apps, stale>>
  BY DEF ProcessThrows
<1>4. LET row == Failed(task[r][j].row) IN row \in Row /\ WellFormed(row) /\ row.status # "absent"
  BY <1>1, TaskInHand, FailedIsRow
<1>5. QED
  BY <1>1, <1>2, <1>3, <1>4, SaveAndMove

-----------------------------------------------------------------------------
(* The steps of a request.                                                 *)

LEMMA ReadExistingInv ==
    ASSUME IInv, NEW q \in Requests, ReadExisting(q)
    PROVE  IInv'
<1>1. PICK wanted \in SUBSET Jobs :
        req' = [req EXCEPT ![q] = [at |-> "locked", wanted |-> wanted,
                  seen |-> [j \in Jobs |-> IF j \in wanted THEN apps[j] ELSE NoRow]]]
  BY DEF ReadExisting
<1> DEFINE new == [at |-> "locked", wanted |-> wanted,
                  seen |-> [j \in Jobs |-> IF j \in wanted THEN apps[j] ELSE NoRow]]
<1>2. new \in Request
  BY NoRowIsRow DEF Request, IInv, TypeOK
<1>3. /\ UNCHANGED <<apps, batches, deviceCv, delivered, stale>>
      /\ UNCHANGED <<active, run, task, queue, report, faults>>
      /\ lock = None /\ lock' = q /\ req[q].at = "idle"
  BY DEF ReadExisting, stored, LockFree
<1>4. TypeOK'
  BY <1>1, <1>2, <1>3 DEF IInv, TypeOK, WellFormed
<1>5. RunsOK' /\ TasksOK' /\ ReportsOK'
  BY <1>3, SameRows, TasksFrame, ReportsFrame DEF IInv, CopiesOK
<1>6. RequestsOK'
  <2> SUFFICES ASSUME NEW q2 \in Requests
               PROVE  /\ req'[q2].at \in {"idle", "locked"} => run[q2].at = "idle"
                      /\ req'[q2].at = "locked" =>
                           /\ q = q2
                           /\ \A j \in req'[q2].wanted :
                                 req'[q2].seen[j].status = "absent" => apps[j].status = "absent"
    BY <1>3 DEF RequestsOK
  <2>1. CASE q2 # q
    <3>1. req'[q2] = req[q2]
      BY <1>1, <2>1 DEF IInv, TypeOK
    <3>2. req[q2].at # "locked"
      BY <1>3, ConstantsAssumption DEF IInv, CopiesOK, RequestsOK
    <3>3. QED
      BY <3>1, <3>2 DEF IInv, CopiesOK, RequestsOK
  <2>2. CASE q2 = q
    <3>1. req'[q2] = new
      BY <1>1, <2>2 DEF IInv, TypeOK
    <3>2. \A j \in wanted : new.seen[j] = apps[j]
      OBVIOUS
    <3>3. QED
      BY <1>3, <2>2, <3>1, <3>2 DEF IInv, CopiesOK, RequestsOK
  <2>3. QED
    BY <2>1, <2>2
<1>7. QED
  BY <1>4, <1>5, <1>6 DEF IInv, CopiesOK

(* The lock is what makes the commit safe: whatever the transaction read   *)
(* as absent still is.                                                     *)
LEMMA CommitDoesNotCollide ==
    ASSUME IInv, NEW q \in Requests, req[q].at = "locked",
           NEW j \in req[q].wanted, req[q].seen[j].status = "absent"
    PROVE  apps[j].status = "absent"
BY DEF IInv, CopiesOK, RequestsOK

LEMMA CommitInv ==
    ASSUME IInv, NEW q \in Requests, Commit(q)
    PROVE  IInv' /\ req'[q].at = "committed"
<1> DEFINE toProcess == {j \in req[q].wanted : Retryable(req[q].seen[j])}
<1>1. req[q].at = "locked" /\ lock = q /\ req[q].wanted \subseteq Jobs
  BY DEF Commit, IInv, CopiesOK, RequestsOK, TypeOK, Request
<1>2. ~ \E j \in toProcess : req[q].seen[j].status = "absent" /\ apps[j].status # "absent"
  BY <1>1, CommitDoesNotCollide
<1>3. /\ lock' = None
      /\ req' = [req EXCEPT ![q] = [NoRequest EXCEPT !.at = "committed"]]
      /\ apps' = [j \in Jobs |-> IF j \in toProcess THEN Fresh(q) ELSE apps[j]]
      /\ stale' = stale \ toProcess
      /\ batches' = [batches EXCEPT ![q] =
            [status |-> IF toProcess = {} THEN "done" ELSE "processing", apps |-> toProcess]]
      /\ run' = IF toProcess = {} THEN run
                ELSE [run EXCEPT ![q] = [Idle EXCEPT !.at = "start", !.batch = q]]
      /\ UNCHANGED <<deviceCv, delivered, active, task, queue, report, faults>>
  BY <1>2 DEF Commit
<1> DEFINE newReq == [NoRequest EXCEPT !.at = "committed"]
<1> DEFINE newRun == [Idle EXCEPT !.at = "start", !.batch = q]
<1>4. newReq \in Request /\ newReq.at = "committed"
  BY NoRowIsRow DEF NoRequest, Request
<1>5. newRun \in Run /\ newRun.at = "start" /\ newRun.batch = q /\ q \in Runs
  BY DEF Idle, Run, Runs
<1>6. run[q].at = "idle" /\ Held(q) = {}
  BY <1>1, <1>5 DEF IInv, CopiesOK, RequestsOK, RunsOK
<1>7. /\ apps' \in [Jobs -> Row]
      /\ \A j \in Jobs : WellFormed(apps[j])'
      /\ RowsStay
  <2>1. ASSUME NEW j \in Jobs
        PROVE  apps'[j] \in Row /\ WellFormed(apps'[j])
               /\ (apps[j].status # "absent" => apps'[j].status # "absent")
    BY <1>3, FreshIsRow DEF IInv, TypeOK
  <2>2. apps' \in [Jobs -> Row]
    BY <1>3, <2>1
  <2>3. QED
    BY <2>1, <2>2 DEF RowsStay, WellFormed
<1>8. TypeOK'
  <2>1. batches' \in [Requests -> Batch]
    BY <1>1, <1>3 DEF IInv, TypeOK, Batch
  <2>2. req' \in [Requests -> Request] /\ run' \in [Runs -> Run]
    BY <1>3, <1>4, <1>5 DEF IInv, TypeOK
  <2>3. QED
    BY <1>3, <1>7, <2>1, <2>2 DEF IInv, TypeOK
<1>9. RunsOK'
  <2> SUFFICES ASSUME NEW r \in Runs
               PROVE  /\ run'[r].at # "idle" => run'[r].batch # None
                      /\ run'[r].at \in {"idle", "start"} => Held(r)' = {}
                      /\ run'[r].at = "loadCv" => InFlight(r)' = {}
    BY DEF RunsOK
  <2>1. Held(r)' = Held(r) /\ InFlight(r)' = InFlight(r)
    BY <1>3 DEF Held, InFlight
  <2>2. CASE run'[r] = run[r]
    BY <2>1, <2>2 DEF IInv, CopiesOK, RunsOK
  <2>3. CASE r = q /\ run'[r] = newRun
    BY <1>5, <1>6, <2>1, <2>3, ConstantsAssumption
  <2>4. QED
    BY <1>3, <1>5, <2>2, <2>3 DEF IInv, TypeOK
<1>10. TasksOK'
  <2> SUFFICES ASSUME NEW r \in Runs, NEW j \in Jobs
               PROVE  LET t == task[r][j] IN
                      /\ t.at # "none" =>
                           /\ t.row.status = "processing" /\ WellFormed(t.row)
                           /\ apps'[j].status # "absent"
                      /\ t.at = "tailoring" => run'[r].cv # None
                      /\ t.at \in {"ready", "sending", "accepted"} => t.row.cv # None
    BY <1>3 DEF TasksOK, WellFormed
  <2>1. task[r][j].at = "tailoring" => run'[r] = run[r]
    BY <1>3, <1>6 DEF Held, IInv, TypeOK
  <2>2. QED
    BY <1>7, <2>1 DEF IInv, CopiesOK, TasksOK, RowsStay
<1>11. RequestsOK'
  <2> SUFFICES ASSUME NEW q2 \in Requests
               PROVE  /\ req'[q2].at \in {"idle", "locked"} => run'[q2].at = "idle"
                      /\ req'[q2].at # "locked"
    BY DEF RequestsOK
  <2>1. CASE q2 = q
    BY <1>3, <1>4, <2>1 DEF IInv, TypeOK
  <2>2. CASE q2 # q
    <3>1. req'[q2] = req[q2] /\ run'[q2] = run[q2]
      BY <1>3, <2>2 DEF IInv, TypeOK, Runs
    <3>2. QED
      BY <1>1, <2>2, <3>1 DEF IInv, CopiesOK, RequestsOK
  <2>3. QED
    BY <2>1, <2>2
<1>12. ReportsOK'
  BY <1>3, <1>7, ReportsFrame DEF IInv, CopiesOK
<1>13. req'[q].at = "committed"
  BY <1>3, <1>4 DEF IInv, TypeOK
<1>14. QED
  BY <1>8, <1>9, <1>10, <1>11, <1>12, <1>13 DEF IInv, CopiesOK

LEMMA PollBatchInv ==
    ASSUME IInv, NEW q \in Requests, PollBatch(q)
    PROVE  IInv'
<1>1. batches' = [batches EXCEPT ![q].status = "done"]
      /\ UNCHANGED <<apps, deviceCv, delivered, stale, lock, req, active, run, task, queue, report, faults>>
  BY DEF PollBatch
<1>2. batches' \in [Requests -> Batch]
  BY <1>1 DEF IInv, TypeOK, Batch
<1>3. TypeOK'
  BY <1>1, <1>2 DEF IInv, TypeOK, WellFormed
<1>4. CopiesOK'
  BY <1>1, SameRows, TasksFrame, RequestsFrame, ReportsFrame DEF IInv, CopiesOK
<1>5. QED
  BY <1>3, <1>4 DEF IInv

-----------------------------------------------------------------------------
(* The steps of a run, of the sweep and of the environment.                *)

(* A run that starts or ends with nothing in its hands, the rest as it was. *)
LEMMA RunStarts ==
    ASSUME IInv, NEW r \in Runs, Held(r) = {}, NEW new \in Run,
           run' = [run EXCEPT ![r] = new],
           new.at # "idle" => new.batch # None,
           new.at # "idle" => r \in Sweeps,
           UNCHANGED <<apps, task, lock, req, report>>
    PROVE  CopiesOK'
<1>1. RunsOK'
  <2> SUFFICES ASSUME NEW r2 \in Runs
               PROVE  /\ run'[r2].at # "idle" => run'[r2].batch # None
                      /\ run'[r2].at \in {"idle", "start"} => Held(r2)' = {}
                      /\ run'[r2].at = "loadCv" => InFlight(r2)' = {}
    BY DEF RunsOK
  <2>1. Held(r2)' = Held(r2) /\ InFlight(r2)' = InFlight(r2) /\ InFlight(r2) \subseteq Held(r2)
    BY DEF Held, InFlight, Working
  <2>2. CASE r2 = r
    BY <2>1, <2>2 DEF IInv, TypeOK
  <2>3. CASE r2 # r
    BY <2>1, <2>3 DEF IInv, TypeOK, CopiesOK, RunsOK
  <2>4. QED
    BY <2>2, <2>3
<1>2. TasksOK'
  <2> SUFFICES ASSUME NEW r2 \in Runs, NEW j \in Jobs
               PROVE  LET t == task[r2][j] IN
                      /\ t.at # "none" =>
                           /\ t.row.status = "processing" /\ WellFormed(t.row)
                           /\ apps[j].status # "absent"
                      /\ t.at = "tailoring" => run'[r2].cv # None
                      /\ t.at \in {"ready", "sending", "accepted"} => t.row.cv # None
    BY DEF TasksOK, WellFormed
  <2>1. task[r2][j].at = "tailoring" => run'[r2] = run[r2]
    BY DEF Held, IInv, TypeOK
  <2>2. QED
    BY <2>1 DEF IInv, CopiesOK, TasksOK
<1>3. RequestsOK'
  <2>1. \A q \in Requests : run[q].at = "idle" => run'[q].at = "idle"
    BY ConstantsAssumption DEF IInv, TypeOK, Runs
  <2>2. QED
    BY <2>1, SameRows, RequestsFrame DEF IInv, CopiesOK
<1>4. ReportsOK'
  BY SameRows, ReportsFrame DEF IInv, CopiesOK
<1>5. QED
  BY <1>1, <1>2, <1>3, <1>4 DEF CopiesOK

LEMMA LoadBatchInv ==
    ASSUME IInv, NEW r \in Runs, LoadBatch(r)
    PROVE  IInv'
<1> DEFINE pending == Pending(run[r].batch)
<1> DEFINE loaded == [j \in Jobs |-> IF j \in pending
                         THEN [at |-> "queued", row |-> apps[j], tries |-> 0] ELSE NoTask]
<1> DEFINE done == (batches[run[r].batch].status = "done")
<1>1. /\ run[r].at = "start"
      /\ run' = [run EXCEPT ![r].at = IF pending = {} THEN "work" ELSE "loadCv", ![r].done = done]
      /\ task' = [task EXCEPT ![r] = loaded]
      /\ UNCHANGED <<apps, batches, deviceCv, delivered, stale>>
      /\ UNCHANGED <<lock, req, active, queue, report, faults>>
  BY DEF LoadBatch, stored
<1>2. loaded \in [Jobs -> Task]
  BY NoTaskIsTask DEF Task, IInv, TypeOK
<1>3. TypeOK'
  <2>1. run' \in [Runs -> Run]
    <3> DEFINE step == IF pending = {} THEN "work" ELSE "loadCv"
    <3>1. step \in {"work", "loadCv"} /\ done \in BOOLEAN
      OBVIOUS
    <3>2. run' = [run EXCEPT ![r].at = step, ![r].done = done]
      BY <1>1
    <3> HIDE DEF step, done
    <3>3. QED
      BY <3>1, <3>2 DEF IInv, TypeOK, Run
  <2>2. task' \in [Runs -> [Jobs -> Task]]
    BY <1>1, <1>2 DEF IInv, TypeOK
  <2>3. QED
    BY <1>1, <2>1, <2>2 DEF IInv, TypeOK, WellFormed
<1>4. /\ task'[r] = loaded
      /\ run'[r].at \in {"work", "loadCv"} /\ run'[r].batch = run[r].batch
      /\ \A r2 \in Runs : r2 # r => run'[r2] = run[r2] /\ task'[r2] = task[r2]
  BY <1>1 DEF IInv, TypeOK, Run
<1>5. \A j \in Jobs : /\ loaded[j].at \in {"none", "queued"}
                      /\ loaded[j].at # "none" =>
                           loaded[j].row = apps[j] /\ apps[j].status = "processing"
  BY NoTaskIsTask DEF Pending
<1>6. RunsOK'
  <2> SUFFICES ASSUME NEW r2 \in Runs
               PROVE  /\ run'[r2].at # "idle" => run'[r2].batch # None
                      /\ run'[r2].at \in {"idle", "start"} => Held(r2)' = {}
                      /\ run'[r2].at = "loadCv" => InFlight(r2)' = {}
    BY DEF RunsOK
  <2>1. CASE r2 = r
    BY <1>1, <1>4, <1>5, <2>1 DEF IInv, CopiesOK, RunsOK, InFlight, Working
  <2>2. CASE r2 # r
    <3>1. Held(r2)' = Held(r2) /\ InFlight(r2)' = InFlight(r2)
      BY <1>4, <2>2 DEF Held, InFlight
    <3>2. QED
      BY <1>4, <2>2, <3>1 DEF IInv, CopiesOK, RunsOK
  <2>3. QED
    BY <2>1, <2>2
<1>7. TasksOK'
  <2> SUFFICES ASSUME NEW r2 \in Runs, NEW j \in Jobs
               PROVE  LET t == task'[r2][j] IN
                      /\ t.at # "none" =>
                           /\ t.row.status = "processing" /\ WellFormed(t.row)
                           /\ apps[j].status # "absent"
                      /\ t.at = "tailoring" => run'[r2].cv # None
                      /\ t.at \in {"ready", "sending", "accepted"} => t.row.cv # None
    BY <1>1 DEF TasksOK, WellFormed
  <2>1. CASE r2 = r
    BY <1>4, <1>5, <2>1 DEF IInv, TypeOK
  <2>2. CASE r2 # r
    BY <1>4, <2>2 DEF IInv, CopiesOK, TasksOK
  <2>3. QED
    BY <2>1, <2>2
<1>8. RequestsOK'
  <2>1. \A q \in Requests : run[q].at = "idle" => run'[q].at = "idle"
    BY <1>1, <1>4 DEF Runs
  <2>2. QED
    BY <1>1, <2>1, SameRows, RequestsFrame DEF IInv, CopiesOK
<1>9. ReportsOK'
  BY <1>1, SameRows, ReportsFrame DEF IInv, CopiesOK
<1>10. QED
  BY <1>3, <1>6, <1>7, <1>8, <1>9 DEF IInv, CopiesOK

LEMMA LoadCvInv ==
    ASSUME IInv, NEW r \in Runs, LoadCv(r)
    PROVE  IInv'
<1>1. PICK cv \in Cvs \cup {None} : run' = [run EXCEPT ![r].at = "work", ![r].cv = cv]
  BY DEF LoadCv, IInv, TypeOK
<1>2. /\ run[r].at = "loadCv"
      /\ UNCHANGED <<apps, batches, deviceCv, delivered, stale>>
      /\ UNCHANGED <<lock, req, active, task, queue, report>>
      /\ UNCHANGED faults \/ Fault
  BY DEF LoadCv, stored
<1>3. /\ run'[r].at = "work" /\ run'[r].batch = run[r].batch
      /\ \A r2 \in Runs : r2 # r => run'[r2] = run[r2]
      /\ run' \in [Runs -> Run]
  BY <1>1 DEF IInv, TypeOK, Run
<1>4. TypeOK'
  <2>1. faults' \in 0..MaxFaults
    BY <1>2, ConstantsAssumption DEF IInv, TypeOK, Fault
  <2>2. QED
    BY <1>2, <1>3, <2>1 DEF IInv, TypeOK, WellFormed
<1>5. RunsOK'
  <2> SUFFICES ASSUME NEW r2 \in Runs
               PROVE  /\ run'[r2].at # "idle" => run'[r2].batch # None
                      /\ run'[r2].at \in {"idle", "start"} => Held(r2)' = {}
                      /\ run'[r2].at = "loadCv" => InFlight(r2)' = {}
    BY DEF RunsOK
  <2>1. Held(r2)' = Held(r2) /\ InFlight(r2)' = InFlight(r2)
    BY <1>2 DEF Held, InFlight
  <2>2. QED
    BY <1>2, <1>3, <2>1 DEF IInv, CopiesOK, RunsOK
<1>6. TasksOK'
  <2> SUFFICES ASSUME NEW r2 \in Runs, NEW j \in Jobs
               PROVE  LET t == task[r2][j] IN
                      /\ t.at # "none" =>
                           /\ t.row.status = "processing" /\ WellFormed(t.row)
                           /\ apps[j].status # "absent"
                      /\ t.at = "tailoring" => run'[r2].cv # None
                      /\ t.at \in {"ready", "sending", "accepted"} => t.row.cv # None
    BY <1>2 DEF TasksOK, WellFormed
  <2>1. task[r2][j].at = "tailoring" => r2 # r
    BY <1>2 DEF IInv, CopiesOK, RunsOK, InFlight, Working
  <2>2. QED
    BY <1>3, <2>1 DEF IInv, CopiesOK, TasksOK
<1>7. RequestsOK'
  <2>1. \A q \in Requests : run[q].at = "idle" => run'[q].at = "idle"
    BY <1>2, <1>3 DEF Runs
  <2>2. QED
    BY <1>2, <2>1, SameRows, RequestsFrame DEF IInv, CopiesOK
<1>8. ReportsOK'
  BY <1>2, SameRows, ReportsFrame DEF IInv, CopiesOK
<1>9. QED
  BY <1>4, <1>5, <1>6, <1>7, <1>8 DEF IInv, CopiesOK

LEMMA IdleIsRun == Idle \in Run /\ Idle.at = "idle"
BY DEF Idle, Run

LEMMA CloseBatchInv ==
    ASSUME IInv, NEW r \in Runs, CloseBatch(r)
    PROVE  IInv'
<1>1. /\ Held(r) = {} /\ run' = [run EXCEPT ![r] = Idle]
      /\ batches' = [batches EXCEPT ![run[r].batch].status = "done"] \/ UNCHANGED batches
      /\ UNCHANGED <<apps, deviceCv, delivered, stale, lock, req, active, task, queue, report, faults>>
  BY DEF CloseBatch
<1>2. run' \in [Runs -> Run] /\ batches' \in [Requests -> Batch]
  <2>1. run' \in [Runs -> Run]
    BY <1>1, IdleIsRun DEF IInv, TypeOK
  <2>2. CASE UNCHANGED batches
    BY <2>1, <2>2 DEF IInv, TypeOK
  <2>3. CASE batches' = [batches EXCEPT ![run[r].batch].status = "done"]
    BY <2>1, <2>3 DEF IInv, TypeOK, Batch
  <2>4. QED
    BY <1>1, <2>2, <2>3
<1>3. TypeOK'
  BY <1>1, <1>2 DEF IInv, TypeOK, WellFormed
<1>4. CopiesOK'
  BY <1>1, IdleIsRun, RunStarts
<1>5. QED
  BY <1>3, <1>4 DEF IInv

LEMMA RunThrowsInv ==
    ASSUME IInv, NEW r \in Runs, RunThrows(r)
    PROVE  IInv'
<1>1. /\ Held(r) = {} /\ run' = [run EXCEPT ![r] = Idle] /\ Fault
      /\ queue' \in [Sweeps -> SUBSET Requests]
      /\ UNCHANGED <<apps, batches, deviceCv, delivered, stale>>
      /\ UNCHANGED <<lock, req, active, task, report>>
  BY DEF RunThrows, stored, IInv, TypeOK
<1>2. faults' \in 0..MaxFaults
  BY <1>1, ConstantsAssumption DEF IInv, TypeOK, Fault
<1>3. TypeOK'
  BY <1>1, <1>2, IdleIsRun DEF IInv, TypeOK, WellFormed
<1>4. CopiesOK'
  BY <1>1, IdleIsRun, RunStarts
<1>5. QED
  BY <1>3, <1>4 DEF IInv

LEMMA GoStaleInv ==
    ASSUME IInv, NEW j \in Jobs, GoStale(j)
    PROVE  IInv'
<1>1. /\ stale' = stale \cup {j}
      /\ UNCHANGED <<apps, batches, deviceCv, delivered, lock, req, active, run, task, queue, report, faults>>
  BY DEF GoStale
<1>2. TypeOK'
  BY <1>1 DEF IInv, TypeOK, WellFormed
<1>3. CopiesOK'
  BY <1>1, SameRows, TasksFrame, RequestsFrame, ReportsFrame DEF IInv, CopiesOK
<1>4. QED
  BY <1>2, <1>3 DEF IInv

LEMMA SweepReadInv ==
    ASSUME IInv, NEW s \in Sweeps, SweepRead(s)
    PROVE  IInv'
<1>1. /\ queue' = [queue EXCEPT ![s] = {apps[j].batch : j \in {i \in Jobs : Interrupted(i)}}]
      /\ UNCHANGED <<apps, batches, deviceCv, delivered, stale>>
      /\ UNCHANGED <<lock, req, active, run, task, report, faults>>
  BY DEF SweepRead, stored
<1>2. \A j \in Jobs : Interrupted(j) => apps[j].batch \in Requests
  BY ProcessingHasBatch DEF IInv, TypeOK, Interrupted
<1>3. TypeOK'
  BY <1>1, <1>2 DEF IInv, TypeOK, WellFormed
<1>4. CopiesOK'
  BY <1>1, SameRows, TasksFrame, RequestsFrame, ReportsFrame DEF IInv, CopiesOK
<1>5. QED
  BY <1>3, <1>4 DEF IInv

LEMMA ResumeNextInv ==
    ASSUME IInv, NEW s \in Sweeps, ResumeNext(s)
    PROVE  IInv'
<1>1. PICK b \in queue[s] :
        /\ run' = [run EXCEPT ![s] = [Idle EXCEPT !.at = "start", !.batch = b]]
        /\ queue' = [queue EXCEPT ![s] = @ \ {b}]
  BY DEF ResumeNext
<1> DEFINE new == [Idle EXCEPT !.at = "start", !.batch = b]
<1>2. b \in Requests /\ s \in Runs
  BY DEF IInv, TypeOK, Runs
<1>3. new \in Run /\ new.batch # None
  BY <1>2, ConstantsAssumption DEF Idle, Run
<1>4. /\ run[s].at = "idle"
      /\ UNCHANGED <<apps, batches, deviceCv, delivered, stale>>
      /\ UNCHANGED <<lock, req, active, task, report, faults>>
  BY DEF ResumeNext, stored
<1>5. TypeOK'
  BY <1>1, <1>2, <1>3, <1>4 DEF IInv, TypeOK, WellFormed
<1>6. Held(s) = {}
  BY <1>2, <1>4 DEF IInv, CopiesOK, RunsOK
<1>7. CopiesOK'
  BY <1>1, <1>2, <1>3, <1>4, <1>6, RunStarts
<1>8. QED
  BY <1>5, <1>7 DEF IInv

LEMMA ReadForReportInv ==
    ASSUME IInv, NEW p \in Reports, ReadForReport(p)
    PROVE  IInv'
<1>1. PICK j \in External, kind \in {"opened", "submitted"} :
         /\ IF kind = "opened" THEN MayOpen(apps[j]) ELSE MaySubmit(apps[j])
         /\ report' = [report EXCEPT ![p] = [kind |-> kind, job |-> j, row |-> apps[j]]]
  BY DEF ReadForReport
<1> DEFINE new == [kind |-> kind, job |-> j, row |-> apps[j]]
<1>2. /\ UNCHANGED <<apps, batches, deviceCv, delivered, stale>>
      /\ UNCHANGED <<lock, req, active, run, task, queue, faults>>
  BY DEF ReadForReport, stored
<1>3. /\ j \in Jobs /\ new \in Report /\ WellFormed(apps[j])
      /\ apps[j].status \in {"prepared", "opened"}
  BY <1>1, ConstantsAssumption DEF MayOpen, MaySubmit, Report, IInv, TypeOK
<1>4. report' \in [Reports -> Report]
  BY <1>1, <1>3 DEF IInv, TypeOK
<1>5. TypeOK'
  BY <1>2, <1>4 DEF IInv, TypeOK, WellFormed
<1>6. ReportsOK'
  <2> SUFFICES ASSUME NEW p2 \in Reports, report'[p2].kind # "idle"
               PROVE  /\ report'[p2].job \in Jobs
                      /\ report'[p2].row.status \in {"prepared", "opened"}
                      /\ WellFormed(report'[p2].row)
                      /\ apps[report'[p2].job].status # "absent"
    BY <1>2 DEF ReportsOK, WellFormed
  <2>1. CASE p2 = p
    BY <1>1, <1>3, <2>1 DEF IInv, TypeOK
  <2>2. CASE p2 # p
    BY <1>1, <2>2 DEF IInv, TypeOK, CopiesOK, ReportsOK
  <2>3. QED
    BY <2>1, <2>2
<1>7. RunsOK' /\ TasksOK' /\ RequestsOK'
  BY <1>2, SameRows, TasksFrame, RequestsFrame DEF IInv, CopiesOK
<1>8. QED
  BY <1>5, <1>6, <1>7 DEF IInv, CopiesOK

LEMMA SaveReportInv ==
    ASSUME IInv, NEW p \in Reports, SaveReport(p)
    PROVE  IInv'
<1> DEFINE j == report[p].job
<1>1. /\ report[p].kind # "idle" /\ Save(j, Reported(p))
      /\ report' = [report EXCEPT ![p] = NoReport]
      /\ UNCHANGED <<batches, deviceCv, delivered, lock, req, active, run, task, queue, faults>>
  BY DEF SaveReport
<1>2. j \in Jobs /\ apps[j].status # "absent"
  BY <1>1 DEF IInv, CopiesOK, ReportsOK
<1>3. Reported(p) \in Row /\ WellFormed(Reported(p)) /\ Reported(p).status # "absent"
  BY <1>1, ReportedIsRow DEF IInv, CopiesOK
<1>4. /\ apps' \in [Jobs -> Row] /\ \A k \in Jobs : WellFormed(apps[k])'
      /\ stale' \subseteq Jobs
  BY <1>1, <1>2, <1>3, SaveType DEF IInv
<1>5. RowsStay /\ NoInsert
  BY <1>1, <1>2, <1>3, SaveKeepsRows DEF IInv
<1>6. NoReport \in Report /\ NoReport.kind = "idle"
  BY NoRowIsRow DEF NoReport, Report
<1>7. TypeOK'
  BY <1>1, <1>4, <1>6 DEF IInv, TypeOK
<1>8. ReportsOK'
  <2> SUFFICES ASSUME NEW p2 \in Reports, report'[p2].kind # "idle"
               PROVE  /\ report'[p2].job \in Jobs
                      /\ report'[p2].row.status \in {"prepared", "opened"}
                      /\ WellFormed(report'[p2].row)
                      /\ apps'[report'[p2].job].status # "absent"
    BY DEF ReportsOK, WellFormed
  <2>1. p2 # p /\ report'[p2] = report[p2]
    BY <1>1, <1>6 DEF IInv, TypeOK
  <2>2. QED
    BY <1>5, <2>1 DEF IInv, CopiesOK, ReportsOK, RowsStay
<1>9. RunsOK' /\ TasksOK' /\ RequestsOK'
  BY <1>1, <1>5, TasksFrame, RequestsFrame DEF IInv, CopiesOK
<1>10. QED
  BY <1>7, <1>8, <1>9 DEF IInv, CopiesOK

LEMMA ChangeCvInv ==
    ASSUME IInv, ChangeCv
    PROVE  IInv'
<1>1. /\ deviceCv' \in Cvs \cup {None}
      /\ UNCHANGED <<apps, batches, delivered, stale, lock, req, active, run, task, queue, report, faults>>
  BY DEF ChangeCv
<1>2. TypeOK'
  BY <1>1 DEF IInv, TypeOK, WellFormed
<1>3. CopiesOK'
  BY <1>1, SameRows, TasksFrame, RequestsFrame, ReportsFrame DEF IInv, CopiesOK
<1>4. QED
  BY <1>2, <1>3 DEF IInv

LEMMA CrashInv ==
    ASSUME IInv, Crash
    PROVE  IInv'
<1>1. /\ lock' = None /\ active' = {} /\ Fault
      /\ req' = [q \in Requests |-> IF req[q].at = "locked"
                                    THEN [NoRequest EXCEPT !.at = "aborted"] ELSE req[q]]
      /\ run' = [r \in Runs |-> Idle]
      /\ task' = [r \in Runs |-> [j \in Jobs |-> NoTask]]
      /\ queue' = [s \in Sweeps |-> {}]
      /\ report' = [p \in Reports |-> NoReport]
      /\ UNCHANGED <<apps, batches, deviceCv, delivered, stale>>
  BY DEF Crash, stored
<1>2. /\ [NoRequest EXCEPT !.at = "aborted"] \in Request
      /\ [NoRequest EXCEPT !.at = "aborted"].at = "aborted"
  BY NoRowIsRow DEF NoRequest, Request
<1>3. NoReport \in Report /\ NoReport.kind = "idle"
  BY NoRowIsRow DEF NoReport, Report
<1>4. TypeOK'
  <2>1. faults' \in 0..MaxFaults
    BY <1>1, ConstantsAssumption DEF IInv, TypeOK, Fault
  <2>2. /\ req' \in [Requests -> Request] /\ run' \in [Runs -> Run]
        /\ task' \in [Runs -> [Jobs -> Task]] /\ queue' \in [Sweeps -> SUBSET Requests]
        /\ report' \in [Reports -> Report]
    BY <1>1, <1>2, <1>3, IdleIsRun, NoTaskIsTask DEF IInv, TypeOK
  <2>3. QED
    BY <1>1, <2>1, <2>2 DEF IInv, TypeOK, WellFormed
<1>5. RunsOK'
  BY <1>1, IdleIsRun, NoTaskIsTask DEF RunsOK, Held, InFlight, Working
<1>6. TasksOK'
  BY <1>1, NoTaskIsTask DEF TasksOK
<1>7. RequestsOK'
  BY <1>1, <1>2, IdleIsRun DEF RequestsOK, Runs
<1>8. ReportsOK'
  BY <1>1, <1>3 DEF ReportsOK
<1>9. QED
  BY <1>4, <1>5, <1>6, <1>7, <1>8 DEF IInv, CopiesOK

-----------------------------------------------------------------------------
(* The invariant.                                                          *)

LEMMA InitInv == Init => IInv
<1> SUFFICES ASSUME Init PROVE IInv
  OBVIOUS
<1>1. NoRequest \in Request /\ NoRequest.at = "idle"
  BY NoRowIsRow DEF NoRequest, Request
<1>2. NoReport \in Report /\ NoReport.kind = "idle"
  BY NoRowIsRow DEF NoReport, Report
<1>3. NoBatch \in Batch
  BY DEF NoBatch, Batch
<1>4. TypeOK
  BY <1>1, <1>2, <1>3, NoRowIsRow, IdleIsRun, NoTaskIsTask, ConstantsAssumption DEF Init, TypeOK
<1>5. RunsOK
  BY IdleIsRun, NoTaskIsTask DEF Init, RunsOK, Held, InFlight, Working
<1>6. TasksOK
  BY NoTaskIsTask DEF Init, TasksOK
<1>7. RequestsOK
  BY <1>1, IdleIsRun DEF Init, RequestsOK, Runs
<1>8. ReportsOK
  BY <1>2 DEF Init, ReportsOK
<1>9. QED
  BY <1>4, <1>5, <1>6, <1>7, <1>8 DEF IInv, CopiesOK

LEMMA NextInv == IInv /\ [Next]_vars => IInv'
<1> SUFFICES ASSUME IInv, [Next]_vars PROVE IInv'
  OBVIOUS
<1>1. ASSUME NEW q \in Requests, ReadExisting(q) \/ Commit(q) \/ PollBatch(q) PROVE IInv'
  BY <1>1, ReadExistingInv, CommitInv, PollBatchInv
<1>2. ASSUME NEW r \in Runs, NEW j \in Jobs, WorkOn(r, j) \/ ProcessThrows(r, j) PROVE IInv'
  BY <1>2, StartNextInv, TailorInv, PrepareInv, BeginSendInv, SendInv, SaveSentInv,
     ProcessThrowsInv DEF WorkOn
<1>3. ASSUME NEW r \in Runs, RunStep(r) \/ RunThrows(r) PROVE IInv'
  BY <1>2, <1>3, LoadBatchInv, LoadCvInv, CloseBatchInv, RunThrowsInv DEF RunStep
<1>4. ASSUME NEW s \in Sweeps, SweepStep(s) PROVE IInv'
  BY <1>4, SweepReadInv, ResumeNextInv DEF SweepStep
<1>5. ASSUME NEW j \in Jobs, GoStale(j) PROVE IInv'
  BY <1>5, GoStaleInv
<1>6. ASSUME NEW p \in Reports, ReadForReport(p) \/ SaveReport(p) PROVE IInv'
  BY <1>6, ReadForReportInv, SaveReportInv
<1>7. ASSUME UNCHANGED vars PROVE IInv'
  <2>1. TypeOK'
    BY <1>7 DEF vars, stored, IInv, TypeOK, WellFormed
  <2>2. CopiesOK'
    BY <1>7, SameRows, TasksFrame, RequestsFrame, ReportsFrame DEF vars, stored, IInv, CopiesOK
  <2>3. QED
    BY <2>1, <2>2 DEF IInv
<1>8. QED
  BY <1>1, <1>2, <1>3, <1>4, <1>5, <1>6, <1>7, ChangeCvInv, CrashInv DEF Next

LEMMA Invariance == Spec => []IInv
BY InitInv, NextInv, PTL DEF Spec

(* Every variable keeps its type and every row is in a stage exactly while *)
(* it is processing.                                                       *)
THEOREM TypeCorrect == Spec => []TypeOK
<1>1. IInv => TypeOK
  BY DEF IInv
<1>2. QED
  BY <1>1, Invariance, PTL

(* The copies in memory are what their holders take them for.              *)
THEOREM CopiesCorrect == Spec => []CopiesOK
<1>1. IInv => CopiesOK
  BY DEF IInv
<1>2. QED
  BY <1>1, Invariance, PTL

-----------------------------------------------------------------------------
(* Two requests of one device never race to the unique index.              *)

LEMMA NextNoCollision == IInv /\ NoCollision /\ [Next]_vars => NoCollision'
<1> SUFFICES ASSUME IInv, NoCollision, [Next]_vars, NEW q \in Requests
             PROVE  req'[q].at # "collided"
  BY DEF NoCollision
<1>1. req[q].at # "collided" /\ req \in [Requests -> Request]
  BY DEF NoCollision, IInv, TypeOK
<1>2. CASE \E q2 \in Requests : ReadExisting(q2)
  BY <1>1, <1>2 DEF ReadExisting
<1>3. ASSUME NEW q2 \in Requests, Commit(q2) PROVE req'[q].at # "collided"
  <2>1. CASE q2 = q
    BY <1>3, <2>1, CommitInv
  <2>2. CASE q2 # q
    BY <1>1, <1>3, <2>2 DEF Commit
  <2>3. QED
    BY <2>1, <2>2
<1>4. CASE Crash
  BY <1>1, <1>4 DEF Crash, NoRequest
<1>5. CASE UNCHANGED req
  BY <1>1, <1>5
<1>6. ASSUME NEW r \in Runs, RunStep(r) \/ RunThrows(r) PROVE UNCHANGED req
  BY <1>6 DEF RunStep, WorkOn, LoadBatch, LoadCv, CloseBatch, StartNext, Tailor, Prepare,
     BeginSend, Send, SaveSent, RunThrows
<1>7. ASSUME NEW r \in Runs, NEW j \in Jobs, ProcessThrows(r, j) PROVE UNCHANGED req
  BY <1>7 DEF ProcessThrows
<1>8. ASSUME NEW s \in Sweeps, SweepStep(s) PROVE UNCHANGED req
  BY <1>8 DEF SweepStep, SweepRead, ResumeNext
<1>9. ASSUME NEW p \in Reports, ReadForReport(p) \/ SaveReport(p) PROVE UNCHANGED req
  BY <1>9 DEF ReadForReport, SaveReport
<1>10. ASSUME NEW q2 \in Requests, PollBatch(q2) PROVE UNCHANGED req
  BY <1>10 DEF PollBatch
<1>11. ASSUME NEW j \in Jobs, GoStale(j) PROVE UNCHANGED req
  BY <1>11 DEF GoStale
<1>12. CASE ChangeCv
  BY <1>12, <1>5 DEF ChangeCv
<1>13. CASE UNCHANGED vars
  BY <1>13, <1>5 DEF vars
<1>14. QED
  BY <1>2, <1>3, <1>4, <1>5, <1>6, <1>7, <1>8, <1>9, <1>10, <1>11, <1>12, <1>13 DEF Next

(* However many requests of one device run at once, and wherever they      *)
(* crash, none finds at its commit a row it did not see: the device lock   *)
(* makes the one-application-per-job check and its inserts one step.       *)
THEOREM LockPreventsCollision == Spec => []NoCollision
<1>1. Init => NoCollision
  BY DEF Init, NoCollision, NoRequest
<1>2. QED
  BY <1>1, Invariance, NextNoCollision, PTL DEF Spec

-----------------------------------------------------------------------------
(* No two workers are at one application.                                  *)

(* An application a worker is at is in `active`, and no second worker is. *)
BusyOK ==
    /\ \A r \in Runs, j \in Jobs : task[r][j].at \in Working => j \in active
    /\ \A r1, r2 \in Runs : \A j \in Jobs :
          task[r1][j].at \in Working /\ task[r2][j].at \in Working => r1 = r2

LEMMA BusyFrame ==
    ASSUME BusyOK, UNCHANGED active,
           \A r \in Runs, j \in Jobs :
              task'[r][j].at \in Working => task[r][j].at \in Working
    PROVE  BusyOK'
BY DEF BusyOK

LEMMA BusyRelease ==
    ASSUME IInv, BusyOK, NEW r \in Runs, NEW j \in Jobs,
           task[r][j].at \in Working, Release(r, j)
    PROVE  BusyOK'
<1>1. /\ task'[r][j] = NoTask /\ active' = active \ {j}
      /\ \A r2 \in Runs, j2 \in Jobs :
            (r2 # r \/ j2 # j) => task'[r2][j2] = task[r2][j2]
  BY ReleaseType DEF IInv, Release
<1>2. NoTask.at \notin Working
  BY DEF NoTask, Working
<1>3. \A r2 \in Runs, j2 \in Jobs :
        task'[r2][j2].at \in Working =>
           task[r2][j2].at \in Working /\ (r2 # r \/ j2 # j)
  BY <1>1, <1>2
<1>4. \A r2 \in Runs, j2 \in Jobs : task'[r2][j2].at \in Working => j2 # j
  BY <1>3 DEF BusyOK
<1>5. QED
  BY <1>1, <1>3, <1>4 DEF BusyOK

(* A worker keeping the application it is at. *)
LEMMA BusyKeep ==
    ASSUME IInv, BusyOK, NEW r \in Runs, NEW j \in Jobs, NEW step, NEW row, NEW n,
           task[r][j].at \in Working, Keep(r, j, step, row, n), UNCHANGED active
    PROVE  BusyOK'
<1>1. \A r2 \in Runs, j2 \in Jobs :
        (r2 # r \/ j2 # j) => task'[r2][j2] = task[r2][j2]
  BY DEF Keep, IInv, TypeOK
<1>2. QED
  BY <1>1, BusyFrame

LEMMA StartNextBusy ==
    ASSUME IInv, BusyOK, NEW r \in Runs, NEW j \in Jobs, StartNext(r, j)
    PROVE  BusyOK'
<1>1. /\ \A r2 \in Runs, j2 \in Jobs :
            (r2 # r \/ j2 # j) => task'[r2][j2] = task[r2][j2]
      /\ task[r][j].at = "queued"
  BY DEF StartNext, Keep, IInv, TypeOK
<1>2. CASE task' = [task EXCEPT ![r][j] = NoTask] /\ UNCHANGED active
  <2>1. task'[r][j] = NoTask /\ NoTask.at \notin Working
    BY <1>2 DEF IInv, TypeOK, NoTask, Working
  <2>2. QED
    BY <1>1, <1>2, <2>1, BusyFrame
<1>3. CASE ~Busy(j) /\ active' = active \cup {j}
  <2>1. \A r2 \in Runs : task[r2][j].at \notin Working
    BY <1>3 DEF Busy, BusyOK
  <2>2. \A r2 \in Runs, j2 \in Jobs :
          task'[r2][j2].at \in Working =>
             \/ r2 = r /\ j2 = j
             \/ j2 # j /\ task[r2][j2].at \in Working
    BY <1>1, <2>1
  <2>3. QED
    BY <1>3, <2>2 DEF BusyOK
<1>4. QED
  BY <1>2, <1>3 DEF StartNext

LEMMA AttemptFailsBusy ==
    ASSUME IInv, BusyOK, NEW r \in Runs, NEW j \in Jobs,
           task[r][j].at \in Working, AttemptFails(r, j)
    PROVE  BusyOK'
BY BusyKeep, BusyRelease DEF AttemptFails

LEMMA NextBusy == IInv /\ BusyOK /\ [Next]_vars => BusyOK'
<1> SUFFICES ASSUME IInv, BusyOK, [Next]_vars PROVE BusyOK'
  OBVIOUS
<1>1. CASE UNCHANGED <<active, task>>
  BY <1>1, BusyFrame
<1>2. ASSUME NEW r \in Runs, LoadBatch(r) PROVE BusyOK'
  <2>1. /\ UNCHANGED active
        /\ \A r2 \in Runs, j \in Jobs :
              task'[r2][j].at \in Working => task[r2][j].at \in Working
    BY <1>2 DEF LoadBatch, NoTask, Working, IInv, TypeOK
  <2>2. QED
    BY <2>1, BusyFrame
<1>3. ASSUME NEW r \in Runs, NEW j \in Jobs, WorkOn(r, j) \/ ProcessThrows(r, j)
      PROVE  BusyOK'
  <2>1. CASE StartNext(r, j)
    BY <2>1, StartNextBusy
  <2>2. CASE Tailor(r, j)
    BY <2>2, BusyKeep DEF Tailor, Working
  <2>3. CASE Prepare(r, j)
    BY <2>3, BusyRelease DEF Prepare, Working
  <2>4. CASE BeginSend(r, j)
    BY <2>4, BusyKeep, BusyRelease DEF BeginSend, Working
  <2>5. CASE Send(r, j)
    BY <2>5, BusyKeep, AttemptFailsBusy DEF Send, Working
  <2>6. CASE SaveSent(r, j)
    BY <2>6, BusyRelease, AttemptFailsBusy DEF SaveSent, Working
  <2>7. CASE ProcessThrows(r, j)
    BY <2>7, BusyRelease DEF ProcessThrows, Working
  <2>8. QED
    BY <1>3, <2>1, <2>2, <2>3, <2>4, <2>5, <2>6, <2>7 DEF WorkOn
<1>4. CASE Crash
  BY <1>4 DEF Crash, BusyOK, NoTask, Working
<1>5. QED
  BY <1>1, <1>2, <1>3, <1>4 DEF Next, vars, RunStep, SweepStep, ReadExisting, Commit, PollBatch,
     LoadCv, CloseBatch, RunThrows, SweepRead, ResumeNext, GoStale, ReadForReport, SaveReport,
     ChangeCv

(* Whatever runs and sweeps overlap, the `active` set keeps processBatch   *)
(* from having two workers at one application.                             *)
THEOREM ActiveExcludes == Spec => []NoDoubleWork
<1>1. Init => BusyOK
  BY DEF Init, BusyOK, NoTask, Working
<1>2. BusyOK => NoDoubleWork
  BY DEF BusyOK, NoDoubleWork, InFlight
<1>3. QED
  BY <1>1, <1>2, Invariance, NextBusy, PTL DEF Spec

-----------------------------------------------------------------------------
(* Nothing is shown as sent that the provider did not take.                *)

(* SentWasDelivered alone is not inductive: the email leaves one step      *)
(* before the row says so, and only the worker knows it meanwhile.         *)
SentOK ==
    /\ SentWasDelivered
    /\ \A r \in Runs, j \in Jobs :
          task[r][j].at = "accepted" => Taken(j, task[r][j].row.batch)

(* No row becomes sent, no worker learns of an accepted email. *)
NoneSent == \A j \in Jobs :
    apps'[j].status = "sent" => apps[j].status = "sent" /\ apps'[j].batch = apps[j].batch

NoneAccepted == \A r \in Runs, j \in Jobs :
    task'[r][j].at = "accepted" => task'[r][j] = task[r][j]

LEMMA SentFrame ==
    ASSUME SentOK, NoneSent, NoneAccepted, delivered \subseteq delivered'
    PROVE  SentOK'
<1>1. ASSUME NEW j \in Jobs, apps'[j].status = "sent"
      PROVE  \E cv \in TailoredCvs : <<j, apps'[j].batch, cv>> \in delivered'
  BY <1>1 DEF SentOK, SentWasDelivered, NoneSent, Taken
<1>2. ASSUME NEW r \in Runs, NEW j \in Jobs, task'[r][j].at = "accepted"
      PROVE  \E cv \in TailoredCvs : <<j, task'[r][j].row.batch, cv>> \in delivered'
  BY <1>2 DEF SentOK, NoneAccepted, Taken
<1>3. QED
  BY <1>1, <1>2 DEF SentOK, SentWasDelivered, Taken

LEMMA SameRowsNoneSent ==
    ASSUME UNCHANGED apps
    PROVE  NoneSent
BY DEF NoneSent

LEMMA SaveNoneSent ==
    ASSUME TypeOK, NEW j \in Jobs, NEW row, row.status # "sent", Save(j, row)
    PROVE  NoneSent
BY DEF NoneSent, Save, TypeOK

LEMMA SameTasksNoneAccepted ==
    ASSUME UNCHANGED task
    PROVE  NoneAccepted
BY DEF NoneAccepted

LEMMA KeepNoneAccepted ==
    ASSUME TypeOK, NEW r \in Runs, NEW j \in Jobs, NEW step, step # "accepted",
           NEW row, NEW n, Keep(r, j, step, row, n)
    PROVE  NoneAccepted
BY DEF NoneAccepted, Keep, TypeOK

LEMMA ReleaseNoneAccepted ==
    ASSUME TypeOK, NEW r \in Runs, NEW j \in Jobs, Release(r, j)
    PROVE  NoneAccepted
<1>1. NoTask.at # "accepted"
  BY DEF NoTask
<1>2. QED
  BY <1>1, ReleaseType DEF NoneAccepted

(* A failed attempt changes at most the row, to failed, and the worker's task. *)
LEMMA AttemptFailsNoneSent ==
    ASSUME IInv, NEW r \in Runs, NEW j \in Jobs, task[r][j].at # "none", AttemptFails(r, j)
    PROVE  NoneSent /\ NoneAccepted
<1>1. /\ task[r][j].row \in Row /\ WellFormed(task[r][j].row)
      /\ task[r][j].row.status = "processing"
  BY TaskInHand
<1>2. Failed(task[r][j].row).status = "failed"
  BY <1>1, FailedIsRow
<1>3. CASE task[r][j].tries + 1 < SEND_ATTEMPTS
  BY <1>3, SameRowsNoneSent, KeepNoneAccepted DEF AttemptFails, IInv
<1>4. CASE ~(task[r][j].tries + 1 < SEND_ATTEMPTS)
  BY <1>2, <1>4, SaveNoneSent, ReleaseNoneAccepted DEF AttemptFails, IInv
<1>5. QED
  BY <1>3, <1>4

(* Taken or not before, the email is taken after. *)
LEMMA DeliverTakes ==
    ASSUME IInv, NEW r \in Runs, NEW j \in Jobs, task[r][j].at = "sending",
           Deliver(j, task[r][j].row)
    PROVE  /\ delivered \subseteq delivered'
           /\ \E cv \in TailoredCvs : <<j, task[r][j].row.batch, cv>> \in delivered'
<1>1. task[r][j].row.cv \in TailoredCvs
  BY TaskInHand
<1>2. QED
  BY <1>1 DEF Deliver, Deduplicated, Taken

LEMMA StartNextSent ==
    ASSUME IInv, SentOK, NEW r \in Runs, NEW j \in Jobs, StartNext(r, j)
    PROVE  SentOK'
<1> DEFINE row == task[r][j].row
<1>1. row \in Row /\ WellFormed(row) /\ row.status = "processing" /\ UNCHANGED delivered
  BY TaskInHand DEF StartNext
<1>2. Failed(row).status = "failed"
  BY <1>1, FailedIsRow
<1>3. [row EXCEPT !.stage = "tailoring"].status = "processing"
  BY <1>1, StagedIsRow
<1>4. NoneSent
  BY <1>2, <1>3, SaveNoneSent, SameRowsNoneSent DEF StartNext, IInv
<1>5. CASE task' = [task EXCEPT ![r][j] = NoTask]
  <2>1. task'[r][j] = NoTask /\ NoTask.at # "accepted"
    BY <1>5 DEF IInv, TypeOK, NoTask
  <2>2. NoneAccepted
    BY <1>5, <2>1 DEF NoneAccepted, IInv, TypeOK
  <2>3. QED
    BY <1>1, <1>4, <2>2, SentFrame
<1>6. CASE \E step \in {"tailoring", "ready"} : \E kept : Keep(r, j, step, kept, 0)
  <2>1. NoneAccepted
    BY <1>6, KeepNoneAccepted DEF IInv
  <2>2. QED
    BY <1>1, <1>4, <2>1, SentFrame
<1>7. QED
  BY <1>5, <1>6 DEF StartNext

LEMMA SendSent ==
    ASSUME IInv, SentOK, NEW r \in Runs, NEW j \in Jobs, Send(r, j)
    PROVE  SentOK'
<1> DEFINE t == task[r][j]
<1>1. t.at = "sending" /\ t.at # "none"
  BY DEF Send
<1>2. CASE Deliver(j, t.row) /\ Keep(r, j, "accepted", t.row, t.tries) /\ UNCHANGED apps
  <2>1. /\ delivered \subseteq delivered'
        /\ \E cv \in TailoredCvs : <<j, t.row.batch, cv>> \in delivered'
    BY <1>1, <1>2, DeliverTakes
  <2>2. /\ task'[r][j].row = t.row
        /\ \A r2 \in Runs, j2 \in Jobs :
              (r2 # r \/ j2 # j) => task'[r2][j2] = task[r2][j2]
    BY <1>2 DEF Keep, IInv, TypeOK
  <2>3. ASSUME NEW r2 \in Runs, NEW j2 \in Jobs, task'[r2][j2].at = "accepted"
        PROVE  \E cv \in TailoredCvs : <<j2, task'[r2][j2].row.batch, cv>> \in delivered'
    BY <2>1, <2>2, <2>3 DEF SentOK, Taken
  <2>4. ASSUME NEW j2 \in Jobs, apps'[j2].status = "sent"
        PROVE  \E cv \in TailoredCvs : <<j2, apps'[j2].batch, cv>> \in delivered'
    BY <1>2, <2>1, <2>4 DEF SentOK, SentWasDelivered, Taken
  <2>5. QED
    BY <2>3, <2>4 DEF SentOK, SentWasDelivered, Taken
<1>3. CASE (Deliver(j, t.row) \/ UNCHANGED delivered) /\ AttemptFails(r, j)
  <2>1. delivered \subseteq delivered'
    BY <1>1, <1>3, DeliverTakes
  <2>2. QED
    BY <1>1, <1>3, <2>1, AttemptFailsNoneSent, SentFrame
<1>4. QED
  BY <1>2, <1>3 DEF Send

LEMMA SaveSentSent ==
    ASSUME IInv, SentOK, NEW r \in Runs, NEW j \in Jobs, SaveSent(r, j)
    PROVE  SentOK'
<1> DEFINE row == task[r][j].row
           sent == [row EXCEPT !.status = "sent", !.stage = "none"]
<1>1. task[r][j].at = "accepted" /\ UNCHANGED delivered
  BY DEF SaveSent
<1>2. CASE Save(j, sent) /\ Release(r, j)
  <2>1. NoneAccepted
    BY <1>2, ReleaseNoneAccepted DEF IInv
  <2>2. row \in Row /\ row.status = "processing" /\ WellFormed(row)
    BY <1>1, TaskInHand
  <2>3. sent \in Row /\ WellFormed(sent) /\ sent.batch = row.batch
    BY <2>2, EndedIsRow
  <2>4. apps'[j] = sent /\ \A k \in Jobs : k # j => apps'[k] = apps[k]
    BY <1>2, <2>3, SaveType DEF IInv
  <2>5. ASSUME NEW k \in Jobs, apps'[k].status = "sent"
        PROVE  \E cv \in TailoredCvs : <<k, apps'[k].batch, cv>> \in delivered'
    <3>1. CASE k = j
      <4>1. Taken(j, row.batch)
        BY <1>1 DEF SentOK
      <4>2. apps'[k].batch = row.batch
        BY <2>3, <2>4, <3>1
      <4>3. QED
        BY <1>1, <3>1, <4>1, <4>2 DEF Taken
    <3>2. CASE k # j
      BY <1>1, <2>4, <2>5, <3>2 DEF SentOK, SentWasDelivered, Taken
    <3>3. QED
      BY <3>1, <3>2
  <2>6. ASSUME NEW r2 \in Runs, NEW j2 \in Jobs, task'[r2][j2].at = "accepted"
        PROVE  \E cv \in TailoredCvs : <<j2, task'[r2][j2].row.batch, cv>> \in delivered'
    BY <1>1, <2>1, <2>6 DEF NoneAccepted, SentOK, Taken
  <2>7. QED
    BY <2>5, <2>6 DEF SentOK, SentWasDelivered, Taken
<1>3. CASE AttemptFails(r, j)
  BY <1>1, <1>3, AttemptFailsNoneSent, SentFrame
<1>4. QED
  BY <1>2, <1>3 DEF SaveSent

(* The worker's other steps. *)
LEMMA WorkSent ==
    ASSUME IInv, SentOK, NEW r \in Runs, NEW j \in Jobs,
           WorkOn(r, j) \/ ProcessThrows(r, j)
    PROVE  SentOK'
<1> DEFINE row == task[r][j].row
<1>1. CASE StartNext(r, j) \/ Send(r, j) \/ SaveSent(r, j)
  BY <1>1, StartNextSent, SendSent, SaveSentSent
<1>2. CASE Tailor(r, j)
  <2>1. task[r][j].at # "none" /\ task[r][j].at = "tailoring" /\ UNCHANGED delivered
    BY <1>2 DEF Tailor
  <2>2. PICK changed \in BOOLEAN :
          LET new == [row EXCEPT !.cv = <<run[r].cv, changed>>] IN
             Save(j, new) /\ Keep(r, j, "ready", new, 0)
    BY <1>2 DEF Tailor
  <2>3. [row EXCEPT !.cv = <<run[r].cv, changed>>].status = "processing"
    BY <2>1, TaskInHand, TailoredIsRow
  <2>4. NoneSent /\ NoneAccepted
    BY <2>2, <2>3, SaveNoneSent, KeepNoneAccepted DEF IInv
  <2>5. QED
    BY <2>1, <2>4, SentFrame
<1>3. CASE Prepare(r, j)
  <2>1. task[r][j].at # "none" /\ UNCHANGED delivered /\ Release(r, j)
        /\ Save(j, [row EXCEPT !.status = "prepared", !.stage = "none"])
    BY <1>3 DEF Prepare
  <2>2. [row EXCEPT !.status = "prepared", !.stage = "none"].status = "prepared"
    BY <2>1, TaskInHand, EndedIsRow
  <2>3. NoneSent /\ NoneAccepted
    BY <2>1, <2>2, SaveNoneSent, ReleaseNoneAccepted DEF IInv
  <2>4. QED
    BY <2>1, <2>3, SentFrame
<1>4. CASE BeginSend(r, j)
  <2>1. task[r][j].at # "none" /\ UNCHANGED delivered
    BY <1>4 DEF BeginSend
  <2>2. /\ [row EXCEPT !.stage = "sending"].status = "processing"
        /\ Failed(row).status = "failed"
    BY <2>1, TaskInHand, StagedIsRow, FailedIsRow
  <2>3. NoneSent
    BY <1>4, <2>2, SaveNoneSent DEF BeginSend, IInv
  <2>4. NoneAccepted
    BY <1>4, KeepNoneAccepted, ReleaseNoneAccepted DEF BeginSend, IInv
  <2>5. QED
    BY <2>1, <2>3, <2>4, SentFrame
<1>5. CASE ProcessThrows(r, j)
  <2>1. task[r][j].at # "none" /\ UNCHANGED delivered /\ Release(r, j)
        /\ (Save(j, Failed(row)) \/ UNCHANGED apps)
    BY <1>5 DEF ProcessThrows
  <2>2. Failed(row).status = "failed"
    BY <2>1, TaskInHand, FailedIsRow
  <2>3. NoneSent /\ NoneAccepted
    BY <2>1, <2>2, SaveNoneSent, SameRowsNoneSent, ReleaseNoneAccepted DEF IInv
  <2>4. QED
    BY <2>1, <2>3, SentFrame
<1>6. QED
  BY <1>1, <1>2, <1>3, <1>4, <1>5 DEF WorkOn

LEMMA NextSent == IInv /\ SentOK /\ [Next]_vars => SentOK'
<1> SUFFICES ASSUME IInv, SentOK, [Next]_vars PROVE SentOK'
  OBVIOUS
<1>1. CASE UNCHANGED <<apps, delivered, task>>
  BY <1>1, SameRowsNoneSent, SameTasksNoneAccepted, SentFrame
<1>2. ASSUME NEW q \in Requests, ReadExisting(q) \/ PollBatch(q) PROVE SentOK'
  BY <1>1, <1>2 DEF ReadExisting, PollBatch, stored
<1>3. ASSUME NEW q \in Requests, Commit(q) PROVE SentOK'
  <2>1. UNCHANGED <<delivered, task>>
    BY <1>3 DEF Commit
  <2>2. Fresh(q).status # "sent"
    BY FreshIsRow
  <2>3. NoneSent
    BY <1>3, <2>2 DEF Commit, NoneSent
  <2>4. QED
    BY <2>1, <2>3, SameTasksNoneAccepted, SentFrame
<1>4. ASSUME NEW r \in Runs, NEW j \in Jobs, WorkOn(r, j) \/ ProcessThrows(r, j)
      PROVE  SentOK'
  BY <1>4, WorkSent
<1>5. ASSUME NEW r \in Runs, LoadBatch(r) PROVE SentOK'
  <2>1. UNCHANGED <<apps, delivered>>
    BY <1>5 DEF LoadBatch, stored
  <2>2. NoneAccepted
    BY <1>5 DEF LoadBatch, NoneAccepted, NoTask, IInv, TypeOK
  <2>3. QED
    BY <2>1, <2>2, SameRowsNoneSent, SentFrame
<1>6. ASSUME NEW r \in Runs, LoadCv(r) \/ CloseBatch(r) \/ RunThrows(r) PROVE SentOK'
  BY <1>1, <1>6 DEF LoadCv, CloseBatch, RunThrows, stored
<1>7. ASSUME NEW s \in Sweeps, SweepStep(s) PROVE SentOK'
  BY <1>1, <1>7 DEF SweepStep, SweepRead, ResumeNext, stored
<1>8. ASSUME NEW p \in Reports, SaveReport(p) PROVE SentOK'
  <2>1. report[p].kind # "idle" /\ UNCHANGED <<delivered, task>>
        /\ Save(report[p].job, Reported(p))
    BY <1>8 DEF SaveReport
  <2>2. report[p].job \in Jobs /\ Reported(p).status # "sent"
    BY <2>1, ReportedIsRow DEF IInv, CopiesOK, ReportsOK
  <2>3. NoneSent
    BY <2>1, <2>2, SaveNoneSent DEF IInv
  <2>4. QED
    BY <2>1, <2>3, SameTasksNoneAccepted, SentFrame
<1>9. ASSUME NEW p \in Reports, ReadForReport(p) PROVE SentOK'
  BY <1>1, <1>9 DEF ReadForReport, stored
<1>10. ASSUME NEW j \in Jobs, GoStale(j) PROVE SentOK'
  BY <1>1, <1>10 DEF GoStale
<1>11. CASE ChangeCv
  BY <1>1, <1>11 DEF ChangeCv
<1>12. CASE Crash
  <2>1. UNCHANGED <<apps, delivered>> /\ NoTask.at # "accepted"
    BY <1>12 DEF Crash, stored, NoTask
  <2>2. NoneAccepted
    BY <1>12, <2>1 DEF Crash, NoneAccepted
  <2>3. QED
    BY <2>1, <2>2, SameRowsNoneSent, SentFrame
<1>13. CASE UNCHANGED vars
  BY <1>1, <1>13 DEF vars, stored
<1>14. QED
  BY <1>2, <1>3, <1>4, <1>5, <1>6, <1>7, <1>8, <1>9, <1>10, <1>11, <1>12, <1>13
  DEF Next, RunStep

(* A crash, a lost answer, a second run of the batch or a retry under a    *)
(* new request: in no behaviour is an application shown as sent without    *)
(* the email of that very request having been taken.                       *)
THEOREM SentOnlyWhenDelivered == Spec => []SentWasDelivered
<1>1. Init => SentOK
  BY DEF Init, SentOK, SentWasDelivered, NoRow, NoTask
<1>2. SentOK => SentWasDelivered
  BY DEF SentOK
<1>3. QED
  BY <1>1, <1>2, Invariance, NextSent, PTL DEF Spec
=============================================================================
