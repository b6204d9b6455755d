---------------------------- MODULE Applications ----------------------------
(***************************************************************************)
(* Applying to jobs: src/modules/applications.                             *)
(*                                                                         *)
(* One device asks for batches of applications (POST /applications).  Each *)
(* batch is worked off in the background by a run of `processBatch`: the   *)
(* run reads the batch's `processing` rows and the CV once, then a pool of *)
(* CONCURRENCY workers tailors the CV for one job after another and emails *)
(* it (method `email`) or keeps it for download (method `external`).  A    *)
(* sweep restarts batches whose rows nobody touched for three minutes, and *)
(* the app polls the batch and reports opened and submitted listings.      *)
(*                                                                         *)
(* A run works on the row it READ: saving writes every column of that copy *)
(* back, whatever the row holds by then.  The copies are therefore state   *)
(* (task[r][j].row, report[p].row, req[q].seen).                           *)
(*                                                                         *)
(* Devices share nothing (rows, lock and CV are per device): the module is *)
(* about one device.  A job has at most one row (the unique index on       *)
(* deviceId and jobId), so rows are indexed by job; a batch has the name   *)
(* of the request that made it.                                            *)
(***************************************************************************)
EXTENDS Integers, FiniteSets

CONSTANTS
    Jobs,           \* the jobs the device can apply to
    External,       \* those whose apply method is `external`; the rest are `email`
    Requests,       \* calls of POST /applications
    Sweeps,         \* firings of the sweep timer that may overlap
    Reports,        \* in-flight calls of PATCH /applications/:id/opened, /submitted
    Cvs,            \* contents the device's CV may have
    Mailable,       \* those with a valid email for Reply-To
    None,           \* no CV, no batch, nobody
    CONCURRENCY,    \* workers of one run
    SEND_ATTEMPTS,  \* tries of one email
    MaxFaults       \* bound: crashes, database and rendering errors of a behaviour

(* A tailored CV: made of which CV, and changed or left as written. *)
TailoredCvs == Cvs \X BOOLEAN

ASSUME ConstantsAssumption ==
    /\ External \subseteq Jobs
    /\ Mailable \subseteq Cvs
    /\ Requests \cap Sweeps = {}
    /\ None \notin Requests \cup Sweeps \cup Reports \cup Cvs \cup TailoredCvs
    /\ CONCURRENCY \in Nat \ {0}
    /\ SEND_ATTEMPTS \in Nat \ {0}
    /\ MaxFaults \in Nat

VARIABLES
    apps,       \* table applications: job -> row
    batches,    \* table application_batches: request -> row
    deviceCv,   \* the device's CV (cvs, cv_sections), None when it has none
    delivered,  \* emails the provider took: <<job, batch, cv>>, the first two being the idempotency key
    stale,      \* jobs whose row was last written more than STALE_AFTER_MS ago
    lock,       \* holder of the device's advisory lock
    req,        \* POST /applications, between its read and its commit
    active,     \* ApplicationsService.active
    run,        \* calls of processBatch
    task,       \* what each run still holds: `pending`, and the rows its workers are at
    queue,      \* batches a firing of resumeStale still has to resume
    report,     \* markOpened and markSubmitted, between their read and their save
    faults

stored   == <<apps, batches, deviceCv, delivered, stale>>
vars     == <<stored, lock, req, active, run, task, queue, report, faults>>

(* A run of a batch's own request, or of a sweep. *)
Runs == Requests \cup Sweeps

-----------------------------------------------------------------------------
(* Rows and in-memory records.                                             *)

Statuses == {"absent", "processing", "sent", "prepared", "opened", "submitted", "failed"}

Row == [status    : Statuses,
        stage     : {"none", "tailoring", "sending"},
        batch     : Requests \cup {None},
        cv        : TailoredCvs \cup {None},       \* tailoredCv
        opened    : Reports \cup {None},            \* openedAt: whose time
        submitted : Reports \cup {None}]            \* submittedAt

NoRow == [status |-> "absent", stage |-> "none", batch |-> None,
          cv |-> None, opened |-> None, submitted |-> None]

Batch   == [status : {"absent", "processing", "done"}, apps : SUBSET Jobs]
NoBatch == [status |-> "absent", apps |-> {}]

Request   == [at : {"idle", "locked", "committed", "collided", "aborted"},
              wanted : SUBSET Jobs, seen : [Jobs -> Row]]
NoRequest == [at |-> "idle", wanted |-> {}, seen |-> [j \in Jobs |-> NoRow]]

(* `done` is the status of the batch object the run read, not of its row. *)
Run   == [at : {"idle", "start", "loadCv", "work"}, batch : Requests \cup {None},
          cv : Cvs \cup {None}, done : BOOLEAN]
Idle  == [at |-> "idle", batch |-> None, cv |-> None, done |-> FALSE]

Working == {"tailoring", "ready", "sending", "accepted"}
Task    == [at : {"none", "queued"} \cup Working, row : Row, tries : Nat]
NoTask  == [at |-> "none", row |-> NoRow, tries |-> 0]

Report   == [kind : {"idle", "opened", "submitted"}, job : Jobs \cup {None}, row : Row]
NoReport == [kind |-> "idle", job |-> None, row |-> NoRow]

(* A row is in a stage exactly while it is processing; it has a batch as   *)
(* soon as it is there.                                                    *)
WellFormed(row) ==
    /\ row.status = "processing" <=> row.stage # "none"
    /\ row.status = "absent" <=> row.batch = None

Init ==
    /\ apps = [j \in Jobs |-> NoRow]
    /\ batches = [q \in Requests |-> NoBatch]
    /\ deviceCv \in Cvs
    /\ delivered = {}
    /\ stale = {}
    /\ lock = None
    /\ req = [q \in Requests |-> NoRequest]
    /\ active = {}
    /\ run = [r \in Runs |-> Idle]
    /\ task = [r \in Runs |-> [j \in Jobs |-> NoTask]]
    /\ queue = [s \in Sweeps |-> {}]
    /\ report = [p \in Reports |-> NoReport]
    /\ faults = 0

-----------------------------------------------------------------------------
(* Saving an entity: the ORM compares it with the row and writes every     *)
(* column that differs.  Equal to the row, it writes nothing and the row   *)
(* keeps its age.                                                          *)
Save(j, row) ==
    /\ apps' = [apps EXCEPT ![j] = row]
    /\ stale' = IF row = apps[j] THEN stale ELSE stale \ {j}

Keep(r, j, step, row, n) ==
    task' = [task EXCEPT ![r][j] = [at |-> step, row |-> row, tries |-> n]]

(* The `finally` of processApplication. *)
Release(r, j) ==
    /\ task' = [task EXCEPT ![r][j] = NoTask]
    /\ active' = active \ {j}

FailedInStage(row) == [row EXCEPT !.status = "failed"]
Failed(row)        == [row EXCEPT !.status = "failed", !.stage = "none"]

(* A worker of this process is at the application. *)
NeverBusy(j) == FALSE
Busy(j)      == j \in active

InFlight(r) == {j \in Jobs : task[r][j].at \in Working}
Held(r)     == {j \in Jobs : task[r][j].at # "none"}

(* A worker takes its next application in the turn of the event loop that  *)
(* freed it, or that read the CV: with a worker idle and an application    *)
(* waiting in its run, nothing else happens first.  Every action but       *)
(* StartNext has this guard.                                               *)
IdleWorker(r) ==
    /\ run[r].at = "work"
    /\ \E j \in Jobs : task[r][j].at = "queued"
    /\ Cardinality(InFlight(r)) < CONCURRENCY

TurnOver == \A r \in Runs : ~IdleWorker(r)

(* A database error, an exception of the PDF renderer, a crash. *)
Fault == faults < MaxFaults /\ faults' = faults + 1

-----------------------------------------------------------------------------
(* POST /applications.                                                     *)

(* Only a failed attempt may be tried again. *)
RetryableUnlessRunning(row) == row.status # "processing"
Retryable(row) == row.status \in {"absent", "failed"}

NoLock   == TRUE
LockFree == lock = None

(* The CV check, the lock and the read of the existing rows.  A request    *)
(* refused for want of a CV changes nothing and is left out.               *)
ReadExisting(q) ==
    /\ TurnOver
    /\ req[q].at = "idle"
    /\ LockFree
    /\ deviceCv # None
    /\ \E wanted \in SUBSET Jobs \ {{}} :
          req' = [req EXCEPT ![q] = [at |-> "locked", wanted |-> wanted,
                    seen |-> [j \in Jobs |-> IF j \in wanted THEN apps[j] ELSE NoRow]]]
    /\ lock' = q
    /\ UNCHANGED <<stored, active, run, task, queue, report, faults>>

Fresh(q) == [NoRow EXCEPT !.status = "processing", !.stage = "tailoring", !.batch = q]

(* The batch row, then every application of it, in the transaction of the  *)
(* read; a row inserted meanwhile violates the unique index and rolls the  *)
(* transaction back.  After the commit the batch's run is started.         *)
Commit(q) ==
    LET toProcess == {j \in req[q].wanted : Retryable(req[q].seen[j])}
        collides  == \E j \in toProcess : /\ req[q].seen[j].status = "absent"
                                          /\ apps[j].status # "absent"
    IN
    /\ TurnOver
    /\ req[q].at = "locked"
    /\ lock' = None
    /\ req' = [req EXCEPT ![q] = [NoRequest EXCEPT
                 !.at = IF collides THEN "collided" ELSE "committed"]]
    /\ IF collides
       THEN UNCHANGED <<apps, batches, stale, run>>
       ELSE /\ apps' = [j \in Jobs |-> IF j \in toProcess THEN Fresh(q) ELSE apps[j]]
            /\ stale' = stale \ toProcess
            /\ batches' = [batches EXCEPT ![q] =
                 [status |-> IF toProcess = {} THEN "done" ELSE "processing",
                  apps |-> toProcess]]
            /\ run' = IF toProcess = {} THEN run
                      ELSE [run EXCEPT ![q] = [Idle EXCEPT !.at = "start", !.batch = q]]
    /\ UNCHANGED <<deviceCv, delivered, active, task, queue, report, faults>>

-----------------------------------------------------------------------------
(* A run of processBatch.                                                  *)

(* Of the batch's list, the rows still processing that nobody is at. *)
EveryRowOf(b) == {j \in batches[b].apps : ~Busy(j)}
Pending(b)    == {j \in batches[b].apps : apps[j].status = "processing" /\ ~Busy(j)}

LoadBatch(r) ==
    LET b == run[r].batch
        pending == Pending(b)
    IN
    /\ TurnOver
    /\ run[r].at = "start"
    /\ run' = [run EXCEPT ![r].at = IF pending = {} THEN "work" ELSE "loadCv",
                          ![r].done = (batches[b].status = "done")]
    /\ task' = [task EXCEPT ![r] = [j \in Jobs |->
                  IF j \in pending THEN [at |-> "queued", row |-> apps[j], tries |-> 0]
                                   ELSE NoTask]]
    /\ UNCHANGED <<stored, lock, req, active, queue, report, faults>>

(* One CV snapshot for the whole batch; any error reading it counts as no CV. *)
LoadCv(r) ==
    /\ TurnOver
    /\ run[r].at = "loadCv"
    /\ \/ /\ run' = [run EXCEPT ![r].at = "work", ![r].cv = deviceCv]
          /\ UNCHANGED faults
       \/ /\ run' = [run EXCEPT ![r].at = "work", ![r].cv = None]
          /\ Fault
    /\ UNCHANGED <<stored, lock, req, active, task, queue, report>>

NeverTailored(row) == FALSE
HasTailoredCv(row) == row.cv # None

(* A worker takes an application from `pending` up to its first long wait: *)
(* skipped when active, failed without a CV (unless saving that fails),    *)
(* sent to tailoring without a tailored CV, otherwise resumed with the one *)
(* it has.                                                                 *)
StartNext(r, j) ==
    LET row == task[r][j].row IN
    /\ run[r].at = "work"
    /\ task[r][j].at = "queued"
    /\ Cardinality(InFlight(r)) < CONCURRENCY
    /\ \/ /\ Busy(j)
          /\ task' = [task EXCEPT ![r][j] = NoTask]
          /\ UNCHANGED <<apps, stale, active, faults>>
       \/ /\ ~Busy(j) /\ run[r].cv = None
          /\ \/ Save(j, Failed(row)) /\ UNCHANGED faults
             \/ UNCHANGED <<apps, stale>> /\ Fault
          /\ task' = [task EXCEPT ![r][j] = NoTask]
          /\ UNCHANGED active
       \/ /\ ~Busy(j) /\ run[r].cv # None /\ ~HasTailoredCv(row)
          /\ LET tailoring == [row EXCEPT !.stage = "tailoring"] IN
                Save(j, tailoring) /\ Keep(r, j, "tailoring", tailoring, 0)
          /\ active' = active \cup {j}
          /\ UNCHANGED faults
       \/ /\ ~Busy(j) /\ run[r].cv # None /\ HasTailoredCv(row)
          /\ Keep(r, j, "ready", row, 0)
          /\ active' = active \cup {j}
          /\ UNCHANGED <<apps, stale, faults>>
    /\ UNCHANGED <<batches, deviceCv, delivered, lock, req, run, queue, report>>

(* The CV tailored to the job, or the CV as written when tailoring gave    *)
(* nothing usable; CvTailorService.tailor never throws.                    *)
Tailor(r, j) ==
    /\ TurnOver
    /\ task[r][j].at = "tailoring"
    /\ \E changed \in BOOLEAN :
          LET row == [task[r][j].row EXCEPT !.cv = <<run[r].cv, changed>>] IN
             Save(j, row) /\ Keep(r, j, "ready", row, 0)
    /\ UNCHANGED <<batches, deviceCv, delivered, lock, req, active, run, queue, report, faults>>

Prepare(r, j) ==
    /\ TurnOver
    /\ task[r][j].at = "ready"
    /\ j \in External
    /\ Save(j, [task[r][j].row EXCEPT !.status = "prepared", !.stage = "none"])
    /\ Release(r, j)
    /\ UNCHANGED <<batches, deviceCv, delivered, lock, req, run, queue, report, faults>>

(* `send`, up to the call of the email provider. *)
BeginSend(r, j) ==
    LET row == task[r][j].row
        sending == [row EXCEPT !.stage = "sending"]
    IN
    /\ TurnOver
    /\ task[r][j].at = "ready"
    /\ j \notin External
    /\ IF row.cv[1] \in Mailable
       THEN Save(j, sending) /\ Keep(r, j, "sending", sending, 0) /\ UNCHANGED active
       ELSE Save(j, Failed(row)) /\ Release(r, j)
    /\ UNCHANGED <<batches, deviceCv, delivered, lock, req, run, queue, report, faults>>

(* The provider takes an email unless it already took one under this key. *)
Taken(j, b)     == \E cv \in TailoredCvs : <<j, b, cv>> \in delivered
TakenEver(j, b) == \E d \in delivered : d[1] = j
Deduplicated(j, b) == Taken(j, b)

Deliver(j, row) ==
    delivered' = IF Deduplicated(j, row.batch) THEN delivered
                 ELSE delivered \cup {<<j, row.batch, row.cv>>}

(* The catch of one attempt: try again, or give up as send_failed. *)
AttemptFails(r, j) ==
    LET t == task[r][j] IN
    IF t.tries + 1 < SEND_ATTEMPTS
    THEN /\ Keep(r, j, "sending", t.row, t.tries + 1)
         /\ UNCHANGED <<apps, stale, active>>
    ELSE Save(j, Failed(t.row)) /\ Release(r, j)

(* One call of the provider: taken and answered; taken, the answer lost    *)
(* (a timeout); refused or never arrived.                                  *)
Send(r, j) ==
    LET t == task[r][j] IN
    /\ TurnOver
    /\ t.at = "sending"
    /\ \/ /\ Deliver(j, t.row)
          /\ Keep(r, j, "accepted", t.row, t.tries)
          /\ UNCHANGED <<apps, stale, active>>
       \/ Deliver(j, t.row) /\ AttemptFails(r, j)
       \/ UNCHANGED delivered /\ AttemptFails(r, j)
    /\ UNCHANGED <<batches, deviceCv, lock, req, run, queue, report, faults>>

(* The provider answered: save `sent`.  This save is inside the attempt's  *)
(* try block, so its failure is one more failed attempt.                   *)
SaveSent(r, j) ==
    LET row == task[r][j].row IN
    /\ TurnOver
    /\ task[r][j].at = "accepted"
    /\ \/ /\ Save(j, [row EXCEPT !.status = "sent", !.stage = "none"])
          /\ Release(r, j)
          /\ UNCHANGED faults
       \/ AttemptFails(r, j) /\ Fault
    /\ UNCHANGED <<batches, deviceCv, delivered, lock, req, run, queue, report>>

(* The catch of processApplication: save `failed`, unless that fails too. *)
ProcessThrows(r, j) ==
    /\ TurnOver
    /\ task[r][j].at \in {"tailoring", "ready", "sending"}
    /\ \/ Save(j, Failed(task[r][j].row))
       \/ UNCHANGED <<apps, stale>>
    /\ Release(r, j)
    /\ Fault
    /\ UNCHANGED <<batches, deviceCv, delivered, lock, req, run, queue, report>>

SomethingEnded(b)    == \E j \in Jobs : apps[j].batch = b /\ apps[j].status # "processing"
NothingProcessing(b) == \A j \in Jobs : ~(apps[j].batch = b /\ apps[j].status = "processing")

(* The end of processBatch. *)
CloseBatch(r) ==
    LET b == run[r].batch IN
    /\ TurnOver
    /\ run[r].at = "work"
    /\ Held(r) = {}
    /\ batches' = IF NothingProcessing(b) /\ ~run[r].done
                  THEN [batches EXCEPT ![b].status = "done"] ELSE batches
    /\ run' = [run EXCEPT ![r] = Idle]
    /\ UNCHANGED <<apps, deviceCv, delivered, stale, lock, req, active, task, queue, report, faults>>

(* A query of processBatch itself fails: the run ends, and so does the     *)
(* sweep that awaits it.                                                   *)
RunThrows(r) ==
    /\ TurnOver
    /\ run[r].at \in {"start", "work"}
    /\ Held(r) = {}
    /\ run' = [run EXCEPT ![r] = Idle]
    /\ queue' = IF r \in Sweeps THEN [queue EXCEPT ![r] = {}] ELSE queue
    /\ Fault
    /\ UNCHANGED <<stored, lock, req, active, task, report>>

-----------------------------------------------------------------------------
(* The stale sweep.                                                        *)

(* The two reads of a starting run do not take three minutes. *)
Settled == \A r \in Runs : run[r].at \notin {"start", "loadCv"}

(* Three minutes pass over a row.  A row a worker is at does not grow old: *)
(* what a worker does between two saves is bounded by the timeouts of its  *)
(* calls (two tailoring attempts of 45s, two sends of 30s).  Waiting for a *)
(* busy pool is not bounded.                                               *)
GoStale(j) ==
    /\ TurnOver
    /\ apps[j].status = "processing"
    /\ j \notin stale \cup active
    /\ Settled
    /\ stale' = stale \cup {j}
    /\ UNCHANGED <<apps, batches, deviceCv, delivered, lock, req, active, run, task, queue, report, faults>>

InterruptedTailoring(j) == apps[j].stage = "tailoring" /\ j \in stale /\ ~Busy(j)
Interrupted(j) == apps[j].status = "processing" /\ j \in stale /\ ~Busy(j)

SweepRead(s) ==
    /\ TurnOver
    /\ run[s].at = "idle"
    /\ queue[s] = {}
    /\ \E j \in Jobs : Interrupted(j)
    /\ queue' = [queue EXCEPT ![s] = {apps[j].batch : j \in {i \in Jobs : Interrupted(i)}}]
    /\ UNCHANGED <<stored, lock, req, active, run, task, report, faults>>

(* The stale batches are resumed one after the other. *)
ResumeNext(s) ==
    /\ TurnOver
    /\ run[s].at = "idle"
    /\ \E b \in queue[s] :
          /\ run' = [run EXCEPT ![s] = [Idle EXCEPT !.at = "start", !.batch = b]]
          /\ queue' = [queue EXCEPT ![s] = @ \ {b}]
    /\ UNCHANGED <<stored, lock, req, active, task, report, faults>>

-----------------------------------------------------------------------------
(* The app's other calls, the CV, and crashes.                             *)

MayOpenUnlessRunning(row) == row.status \notin {"absent", "processing", "failed"}
MayOpen(row)   == row.status = "prepared"
MaySubmit(row) == row.status \in {"prepared", "opened"}

(* markOpened, markSubmitted: the read that goes on to a save.  A call     *)
(* that is refused, or finds its report already recorded, changes nothing. *)
ReadForReport(p) ==
    /\ TurnOver
    /\ report[p].kind = "idle"
    /\ \E j \in External : \E kind \in {"opened", "submitted"} :
          /\ IF kind = "opened" THEN MayOpen(apps[j]) ELSE MaySubmit(apps[j])
          /\ report' = [report EXCEPT ![p] = [kind |-> kind, job |-> j, row |-> apps[j]]]
    /\ UNCHANGED <<stored, lock, req, active, run, task, queue, faults>>

Reported(p) ==
    LET row == report[p].row IN
    IF report[p].kind = "opened" THEN [row EXCEPT !.status = "opened", !.opened = p]
                                 ELSE [row EXCEPT !.status = "submitted", !.submitted = p]

SaveReport(p) ==
    /\ TurnOver
    /\ report[p].kind # "idle"
    /\ Save(report[p].job, Reported(p))
    /\ report' = [report EXCEPT ![p] = NoReport]
    /\ UNCHANGED <<batches, deviceCv, delivered, lock, req, active, run, task, queue, faults>>

(* getBatch closes a batch whose row a crash left behind. *)
AllSucceeded(q) == \A j \in batches[q].apps : apps[j].status \notin {"processing", "failed"}
AllEnded(q)     == \A j \in batches[q].apps : apps[j].status # "processing"

PollBatch(q) ==
    /\ TurnOver
    /\ batches[q].status = "processing"
    /\ AllEnded(q)
    /\ batches' = [batches EXCEPT ![q].status = "done"]
    /\ UNCHANGED <<apps, deviceCv, delivered, stale, lock, req, active, run, task, queue, report, faults>>

(* PATCH /cv, a new build over the old CV, DELETE of the conversation. *)
ChangeCv ==
    /\ TurnOver
    /\ deviceCv' \in (Cvs \cup {None}) \ {deviceCv}
    /\ UNCHANGED <<apps, batches, delivered, stale, lock, req, active, run, task, queue, report, faults>>

(* The process dies and restarts: the tables stay, the open transaction is *)
(* rolled back, everything in memory is gone.                              *)
Crash ==
    /\ TurnOver
    /\ Fault
    /\ lock' = None
    /\ req' = [q \in Requests |-> IF req[q].at = "locked"
                                  THEN [NoRequest EXCEPT !.at = "aborted"] ELSE req[q]]
    /\ active' = {}
    /\ run' = [r \in Runs |-> Idle]
    /\ task' = [r \in Runs |-> [j \in Jobs |-> NoTask]]
    /\ queue' = [s \in Sweeps |-> {}]
    /\ report' = [p \in Reports |-> NoReport]
    /\ UNCHANGED stored

-----------------------------------------------------------------------------
WorkOn(r, j) ==
    \/ StartNext(r, j)
    \/ Tailor(r, j) \/ Prepare(r, j) \/ BeginSend(r, j)
    \/ Send(r, j) \/ SaveSent(r, j)

(* What a run does, given time. *)
RunStep(r) ==
    \/ LoadBatch(r) \/ LoadCv(r) \/ CloseBatch(r)
    \/ \E j \in Jobs : WorkOn(r, j)

SweepStep(s) == SweepRead(s) \/ ResumeNext(s)

Next ==
    \/ \E q \in Requests : ReadExisting(q) \/ Commit(q) \/ PollBatch(q)
    \/ \E r \in Runs : RunStep(r) \/ RunThrows(r)
    \/ \E r \in Runs, j \in Jobs : ProcessThrows(r, j)
    \/ \E s \in Sweeps : SweepStep(s)
    \/ \E j \in Jobs : GoStale(j)
    \/ \E p \in Reports : ReadForReport(p) \/ SaveReport(p)
    \/ ChangeCv
    \/ Crash

Spec == Init /\ [][Next]_vars

(* A started run goes on (the event loop), time passes, the timer fires,   *)
(* and the app polls its batch until it is done.  Nothing obliges the user *)
(* to apply, report or edit the CV, and no fault has to happen.            *)
Fairness ==
    /\ \A q \in Requests : WF_vars(Commit(q)) /\ WF_vars(PollBatch(q))
    /\ \A r \in Runs : WF_vars(RunStep(r))
    /\ \A s \in Sweeps : WF_vars(SweepStep(s))
    /\ \A j \in Jobs : WF_vars(GoStale(j))

FairSpec == Spec /\ Fairness

-----------------------------------------------------------------------------
(* Properties.                                                             *)

(* Every variable has its type, and a row is in a stage exactly while it   *)
(* is processing (the columns `create`, `fail` and the saves maintain).    *)
TypeOK ==
    /\ apps \in [Jobs -> Row] /\ \A j \in Jobs : WellFormed(apps[j])
    /\ batches \in [Requests -> Batch]
    /\ deviceCv \in Cvs \cup {None}
    /\ delivered \subseteq Jobs \X Requests \X TailoredCvs
    /\ stale \subseteq Jobs
    /\ lock \in Requests \cup {None}
    /\ req \in [Requests -> Request]
    /\ active \subseteq Jobs
    /\ run \in [Runs -> Run]
    /\ task \in [Runs -> [Jobs -> Task]]
    /\ queue \in [Sweeps -> SUBSET Requests]
    /\ report \in [Reports -> Report]
    /\ faults \in 0..MaxFaults

(* The copies in memory are what their holders take them for: a row in a   *)
(* run's hands was processing when read and has a tailored CV from         *)
(* `ready` on; a worker in `tailoring` has a CV to tailor; a report's row  *)
(* was prepared or opened; none of them is a copy of a row that is gone; a *)
(* request that is inserting holds the lock, has no run yet, and sees as   *)
(* absent only what still is.                                              *)
RunsOK == \A r \in Runs :
    /\ run[r].at # "idle" => run[r].batch # None
    /\ run[r].at \in {"idle", "start"} => Held(r) = {}
    /\ run[r].at = "loadCv" => InFlight(r) = {}

TasksOK == \A r \in Runs, j \in Jobs :
    LET t == task[r][j] IN
    /\ t.at # "none" =>
         /\ t.row.status = "processing" /\ WellFormed(t.row)
         /\ apps[j].status # "absent"
    /\ t.at = "tailoring" => run[r].cv # None
    /\ t.at \in {"ready", "sending", "accepted"} => t.row.cv # None

RequestsOK == \A q \in Requests :
    /\ req[q].at \in {"idle", "locked"} => run[q].at = "idle"
    /\ req[q].at = "locked" =>
         /\ lock = q
         /\ \A j \in req[q].wanted :
               req[q].seen[j].status = "absent" => apps[j].status = "absent"

ReportsOK == \A p \in Reports :
    report[p].kind # "idle" =>
        /\ report[p].job \in Jobs
        /\ report[p].row.status \in {"prepared", "opened"}
        /\ WellFormed(report[p].row)
        /\ apps[report[p].job].status # "absent"

CopiesOK == RunsOK /\ TasksOK /\ RequestsOK /\ ReportsOK

(* The device lock makes the "already applied?" check and the inserts one  *)
(* step: no request of a double tap ever meets the unique index and fails  *)
(* (inDeviceLock).                                                         *)
NoCollision == \A q \in Requests : req[q].at # "collided"

(* Whatever sweeps overlap with whatever runs, no two workers are inside   *)
(* processApplication for one application at once (the `active` set).      *)
NoDoubleWork ==
    \A r1, r2 \in Runs : \A j \in Jobs :
        (j \in InFlight(r1) /\ j \in InFlight(r2)) => r1 = r2

(* An application is shown as sent only when the provider took the email   *)
(* of the very request the row is of: not on a lost answer's guess, not on *)
(* an earlier request's email (send, the sent save).                       *)
SentWasDelivered ==
    \A j \in Jobs : apps[j].status = "sent" =>
        Taken(j, apps[j].batch)

(* The CV a sent application shows and offers for download is the one the  *)
(* company got, also after a crash between the email and the save (the     *)
(* tailoredCv check of processApplication, "exactly the CV that was sent"). *)
SentCvIsRecorded ==
    \A j \in Jobs : apps[j].status = "sent" =>
        <<j, apps[j].batch, apps[j].cv>> \in delivered

(* A finished batch has no application of its own still processing: an app *)
(* that stops polling at `done` has seen every outcome (processBatch's     *)
(* count, getBatch's repair).                                              *)
DoneBatchHasNoWork ==
    \A q \in Requests : batches[q].status = "done" =>
        \A j \in Jobs : apps[j].batch = q => apps[j].status # "processing"

(* Only a failed application goes to another request (create).             *)
OnlyFailedIsRetried ==
    [][\A j \in Jobs : (apps[j].status # "absent" /\ apps[j].batch' # apps[j].batch)
                          => apps[j].status = "failed"]_vars

(* Once the app was told `sent`, nothing touches the application and no    *)
(* further email about the job leaves.                                     *)
SentIsFinal ==
    [][\A j \in Jobs : apps[j].status = "sent" =>
          /\ apps[j]' = apps[j]
          /\ \A d \in delivered' \ delivered : d[1] # j]_vars

(* A submission reported by the user stays, with the time of the first     *)
(* report (markOpened, markSubmitted).                                     *)
SubmittedIsFinal ==
    [][\A j \in Jobs : apps[j].status = "submitted" => apps[j]' = apps[j]]_vars

(* No application is left processing: whatever crashes, the runs or the    *)
(* sweep bring it to an outcome (resumeStale).                             *)
EveryApplicationEnds ==
    \A j \in Jobs : apps[j].status = "processing" ~> apps[j].status # "processing"

(* Every batch the app polls gets done (getBatch's repair).                *)
EveryBatchEnds ==
    \A q \in Requests : batches[q].status = "processing" ~> batches[q].status = "done"

(* The tables, seen as the promise of ApplicationLifecycle: the statuses,  *)
(* and for each job whether the provider took its batch's email.           *)
Lifecycle == INSTANCE ApplicationLifecycle
    WITH status <- [j \in Jobs |-> apps[j].status],
         mailed <- {j \in Jobs : Taken(j, apps[j].batch)}

(* Batches that fit the pool keep that promise: no copy of a row outlives  *)
(* the row's outcome.                                                      *)
KeepsPromise == Lifecycle!Spec
=============================================================================
