-------------------------------- MODULE Uploads --------------------------------
(***************************************************************************)
(* Uploading a CV: src/modules/upload, with the analysis of                *)
(* src/ai/services/cv-analysis.service.ts.                                 *)
(*                                                                         *)
(* POST /cv/uploads stores the file and a row and starts `processUpload`   *)
(* in the background: the model reads the file under a deadline, the       *)
(* analysis replaces the device's CV, the row says `done`, the file is     *)
(* deleted.  The app polls; a poll that finds the row still parsing long   *)
(* after its creation reports it interrupted.  A cleanup deletes rows and  *)
(* files a day old.  A crash ends every job and nothing resumes them.      *)
(*                                                                         *)
(* As everywhere, a row object read is saved whole (job[u].copy,           *)
(* poll[u].copy), and saving one whose row is gone inserts it again.       *)
(* Time is the age of an upload: fresh, overdue (INTERRUPTED_AFTER_MS),    *)
(* expired (expiresAt).                                                    *)
(***************************************************************************)
EXTENDS Integers, FiniteSets

CONSTANTS
    Uploads,        \* the device's uploads
    Nobody,         \* no upload
    MAX_ATTEMPTS,   \* calls of the model for one analysis
    MaxFaults       \* bound: crashes and database errors of a behaviour

ASSUME UploadsAssumption ==
    /\ Nobody \notin Uploads
    /\ MAX_ATTEMPTS \in Nat \ {0}
    /\ MaxFaults \in Nat

VARIABLES
    uploads,    \* table uploads
    files,      \* uploads whose file is on disk
    age,        \* of each upload
    cvFrom,     \* the upload whose analysis is in cv_analyses and was put into the CV last
    replaced,   \* history: every upload whose analysis ever replaced the CV
    job,        \* processUpload of each upload
    poll,       \* getStatus of each upload, between its read and its save
    sweep,      \* rows the running cleanup has still to delete
    faults

vars == <<uploads, files, age, cvFrom, replaced, job, poll, sweep, faults>>

Codes  == {"none", "unreadable", "timeout", "interrupted", "internal"}
Row    == [status : {"absent", "parsing", "done", "failed"}, code : Codes,
           stage : {"none", "reading", "analyzing", "checking"}]
NoRow  == [status |-> "absent", code |-> "none", stage |-> "none"]
NewRow == [status |-> "parsing", code |-> "none", stage |-> "reading"]

(* The stretches of create and processUpload between two waits.            *)
Stretch == {"idle", "stored", "start", "begin", "analyze", "save", "finish", "fail", "delete", "over"}
Job     == [at : Stretch, copy : Row, attempt : 0 .. MAX_ATTEMPTS]
NoJob   == [at |-> "idle", copy |-> NoRow, attempt |-> 0]

Poll   == [at : {"idle", "overdue"}, copy : Row]
NoPoll == [at |-> "idle", copy |-> NoRow]

(* Mutant of Failed: errorCode is not set.                                 *)
FailedUncoded(row, code) == [row EXCEPT !.status = "failed"]

(* markFailed on a row object.                                             *)
Failed(row, code) == [row EXCEPT !.status = "failed", !.code = code]

Init ==
    /\ uploads = [u \in Uploads |-> NoRow]
    /\ files = {}
    /\ age = [u \in Uploads |-> "fresh"]
    /\ cvFrom = Nobody /\ replaced = {}
    /\ job = [u \in Uploads |-> NoJob]
    /\ poll = [u \in Uploads |-> NoPoll]
    /\ sweep = {}
    /\ faults = 0

Fault == faults < MaxFaults /\ faults' = faults + 1

-----------------------------------------------------------------------------
(* create: the file, then the row, then the job, not awaited.              *)

StoreFile(u) ==
    /\ job[u].at = "idle" /\ uploads[u] = NoRow /\ u \notin files
    /\ age[u] = "fresh"
    /\ files' = files \cup {u}
    /\ job' = [job EXCEPT ![u].at = "stored"]
    /\ UNCHANGED <<uploads, age, cvFrom, replaced, poll, sweep, faults>>

(* A row that cannot be inserted leaves the file behind.                   *)
InsertRow(u) ==
    /\ job[u].at = "stored"
    /\ \/ /\ uploads' = [uploads EXCEPT ![u] = NewRow]
          /\ job' = [job EXCEPT ![u].at = "start"]
          /\ UNCHANGED faults
       \/ /\ Fault
          /\ job' = [job EXCEPT ![u].at = "over"]
          /\ UNCHANGED uploads
    /\ UNCHANGED <<files, age, cvFrom, replaced, poll, sweep>>

-----------------------------------------------------------------------------
(* processUpload.                                                          *)

(* The row is read; an error here is only logged.                          *)
ReadRow(u) ==
    /\ job[u].at = "start"
    /\ \/ /\ job' = [job EXCEPT ![u].at = "begin", ![u].copy = [uploads[u] EXCEPT !.stage = "analyzing"]]
          /\ UNCHANGED faults
       \/ /\ Fault
          /\ job' = [job EXCEPT ![u].at = "over"]
    /\ UNCHANGED <<uploads, files, age, cvFrom, replaced, poll, sweep>>

(* A step of the try block: done, or thrown into the catch.                *)
Thrown(u, code) ==
    job' = [job EXCEPT ![u].at = "fail", ![u].copy = Failed(@, code)]

SaveStage(u) ==
    /\ job[u].at = "begin"
    /\ \/ /\ uploads' = [uploads EXCEPT ![u] = job[u].copy]
          /\ job' = [job EXCEPT ![u].at = "analyze"]
          /\ UNCHANGED faults
       \/ Fault /\ Thrown(u, "internal") /\ UNCHANGED uploads
    /\ UNCHANGED <<files, age, cvFrom, replaced, poll, sweep>>

(* Mutant of AfterAnalysis: the analysis is never put into the CV.         *)
StraightToDone == "finish"

(* Where a valid analysis leads.                                           *)
AfterAnalysis == "save"

(* One call of the model in analyze: a valid analysis ends it, an invalid  *)
(* one is tried again up to MAX_ATTEMPTS times.                            *)
Analyze(u) ==
    /\ job[u].at = "analyze"
    /\ job' = [job EXCEPT ![u].attempt = @ + 1]
       \/ job' = [job EXCEPT ![u].at = AfterAnalysis, ![u].copy.stage = "checking"]
    /\ job[u].attempt < MAX_ATTEMPTS
    /\ UNCHANGED <<uploads, files, age, cvFrom, replaced, poll, sweep, faults>>

(* No valid result: the only failure not thrown.                           *)
Unreadable(u) ==
    /\ job[u].at = "analyze" /\ job[u].attempt = MAX_ATTEMPTS
    /\ Thrown(u, "unreadable")
    /\ UNCHANGED <<uploads, files, age, cvFrom, replaced, poll, sweep, faults>>

(* The file cannot be read, the call fails or takes too long, or the       *)
(* deadline of the whole analysis passes: what it still computes is never  *)
(* looked at.                                                              *)
AnalysisThrows(u) ==
    /\ job[u].at = "analyze"
    /\ \E code \in {"timeout", "internal"} : Thrown(u, code)
    /\ UNCHANGED <<uploads, files, age, cvFrom, replaced, poll, sweep, faults>>

(* Mutant of Saving: the save is part of what the deadline bounds, as the  *)
(* comment on ANALYSIS_TIMEOUT_MS has it, so it goes on after the deadline.*)
SavingUnderDeadline(u) ==
    job[u].at = "save" \/ (job[u].at \in {"fail", "delete", "over"} /\ job[u].copy.code = "timeout")

(* When the analysis reaches the CV.                                       *)
Saving(u) == job[u].at = "save"

(* saveAnalysis: analysis and CV in one transaction.                       *)
SaveAnalysis(u) ==
    /\ Saving(u)
    /\ \/ /\ cvFrom' = u /\ replaced' = replaced \cup {u}
          /\ job' = IF job[u].at = "save"
                    THEN [job EXCEPT ![u].at = "finish"] ELSE job
          /\ UNCHANGED faults
       \/ Fault /\ Thrown(u, "internal") /\ UNCHANGED <<cvFrom, replaced>>
    /\ UNCHANGED <<uploads, files, age, poll, sweep>>

SaveDone(u) ==
    /\ job[u].at = "finish"
    /\ \/ /\ uploads' = [uploads EXCEPT ![u] = [job[u].copy EXCEPT !.status = "done"]]
          /\ job' = [job EXCEPT ![u].at = "delete"]
          /\ UNCHANGED faults
       \/ Fault /\ Thrown(u, "internal") /\ UNCHANGED uploads
    /\ UNCHANGED <<files, age, cvFrom, replaced, poll, sweep>>

(* markFailed.  Its own failure is swallowed in the catch; thrown by the   *)
(* unreadable branch it lands in that catch.                               *)
SaveFailed(u) ==
    /\ job[u].at = "fail"
    /\ \/ /\ uploads' = [uploads EXCEPT ![u] = job[u].copy]
          /\ job' = [job EXCEPT ![u].at = "delete"]
          /\ UNCHANGED faults
       \/ /\ Fault
          /\ IF job[u].copy.code = "unreadable" THEN Thrown(u, "internal")
             ELSE job' = [job EXCEPT ![u].at = "delete"]
          /\ UNCHANGED uploads
    /\ UNCHANGED <<files, age, cvFrom, replaced, poll, sweep>>

(* The finally block.                                                      *)
DeleteFile(u) ==
    /\ job[u].at = "delete"
    /\ files' = files \ {u}
    /\ job' = [job EXCEPT ![u].at = "over"]
    /\ UNCHANGED <<uploads, age, cvFrom, replaced, poll, sweep, faults>>

-----------------------------------------------------------------------------
(* getStatus.                                                              *)

(* Mutant of Interrupted: a row that parses is never given up.             *)
NeverInterrupted(u) == FALSE

(* A row that still parses so long after its creation counts as dead.      *)
Interrupted(u) == uploads[u].status = "parsing" /\ age[u] # "fresh"

PollReads(u) ==
    /\ poll[u].at = "idle" /\ Interrupted(u)
    /\ poll' = [poll EXCEPT ![u] = [at |-> "overdue", copy |-> Failed(uploads[u], "interrupted")]]
    /\ UNCHANGED <<uploads, files, age, cvFrom, replaced, job, sweep, faults>>

PollSaves(u) ==
    /\ poll[u].at = "overdue"
    /\ \/ uploads' = [uploads EXCEPT ![u] = poll[u].copy] /\ UNCHANGED faults
       \/ Fault /\ UNCHANGED uploads
    /\ poll' = [poll EXCEPT ![u] = NoPoll]
    /\ UNCHANGED <<files, age, cvFrom, replaced, job, sweep>>

-----------------------------------------------------------------------------
(* upload-cleanup.                                                         *)

(* Mutant of Expired: only uploads that went well are cleaned up.          *)
ExpiredAndDone(u) == uploads[u].status = "done" /\ age[u] = "expired"

Expired(u) == uploads[u].status # "absent" /\ age[u] = "expired"

FindExpired ==
    /\ sweep = {}
    /\ sweep' = {u \in Uploads : Expired(u)}
    /\ sweep' # {}
    /\ UNCHANGED <<uploads, files, age, cvFrom, replaced, job, poll, faults>>

(* One row: the file first, then the row.  An error ends the sweep.        *)
Purge(u) ==
    /\ u \in sweep
    /\ \/ /\ files' = files \ {u}
          /\ UNCHANGED <<uploads, sweep, faults>>
       \/ /\ u \notin files
          /\ uploads' = [uploads EXCEPT ![u] = NoRow]
          /\ sweep' = sweep \ {u}
          /\ UNCHANGED <<files, faults>>
       \/ /\ Fault
          /\ sweep' = {}
          /\ UNCHANGED <<uploads, files>>
    /\ UNCHANGED <<age, cvFrom, replaced, job, poll>>

-----------------------------------------------------------------------------
(* Time and crashes.                                                       *)

(* Mutant of MayBeOverdue: a threshold shorter than the analysis may take. *)
AnyMayBeOverdue(u) == uploads[u].status # "absent"

(* A job takes less than five minutes: its analysis less than 170 s, and   *)
(* between its other steps are single queries.                             *)
MayBeOverdue(u) == uploads[u].status # "absent" /\ job[u].at \in {"idle", "over"}

GrowOverdue(u) ==
    /\ age[u] = "fresh" /\ MayBeOverdue(u)
    /\ age' = [age EXCEPT ![u] = "overdue"]
    /\ UNCHANGED <<uploads, files, cvFrom, replaced, job, poll, sweep, faults>>

Expire(u) ==
    /\ age[u] = "overdue"
    /\ age' = [age EXCEPT ![u] = "expired"]
    /\ UNCHANGED <<uploads, files, cvFrom, replaced, job, poll, sweep, faults>>

Crash ==
    /\ Fault
    /\ job' = [u \in Uploads |-> IF job[u].at = "idle" THEN NoJob ELSE [NoJob EXCEPT !.at = "over"]]
    /\ poll' = [u \in Uploads |-> NoPoll]
    /\ sweep' = {}
    /\ UNCHANGED <<uploads, files, age, cvFrom, replaced>>

-----------------------------------------------------------------------------
Process(u) ==
    \/ InsertRow(u) \/ ReadRow(u) \/ SaveStage(u) \/ Analyze(u) \/ Unreadable(u)
    \/ AnalysisThrows(u) \/ SaveAnalysis(u) \/ SaveDone(u) \/ SaveFailed(u) \/ DeleteFile(u)

Polling(u) == PollReads(u) \/ PollSaves(u)

Next ==
    \/ \E u \in Uploads : StoreFile(u) \/ Process(u) \/ Polling(u) \/ Purge(u)
                          \/ GrowOverdue(u) \/ Expire(u)
    \/ FindExpired \/ Crash

Spec == Init /\ [][Next]_vars

(* The event loop runs what is ready and every call of a job is bounded;   *)
(* the app polls an upload until it ends; time passes.                     *)
Fairness ==
    \A u \in Uploads : WF_vars(Process(u)) /\ WF_vars(Polling(u)) /\ WF_vars(GrowOverdue(u))

FairSpec == Spec /\ Fairness

(* A day passes, and the cleanup's timer fires.                            *)
CleanupRuns ==
    WF_vars(FindExpired) /\ \A u \in Uploads : WF_vars(Expire(u)) /\ WF_vars(Purge(u))

-----------------------------------------------------------------------------
(* Properties.                                                             *)

(* Every variable keeps its type, and a row has an error code exactly when *)
(* it failed (markFailed).                                                 *)
TypeOK ==
    /\ uploads \in [Uploads -> Row]
    /\ \A u \in Uploads : uploads[u].status = "failed" <=> uploads[u].code # "none"
    /\ files \subseteq Uploads
    /\ age \in [Uploads -> {"fresh", "overdue", "expired"}]
    /\ cvFrom \in Uploads \cup {Nobody} /\ replaced \subseteq Uploads
    /\ job \in [Uploads -> Job]
    /\ poll \in [Uploads -> Poll]
    /\ sweep \subseteq Uploads
    /\ faults \in 0 .. MaxFaults

(* An upload shown as done has put its analysis into the CV: the app may   *)
(* open a conversation over it (getCompletedAnalysis), through crashes,    *)
(* failing saves and polls with old copies.                                *)
DoneWasSaved == \A u \in Uploads : uploads[u].status = "done" => u \in replaced

(* A user told to upload again because the file was unreadable or the      *)
(* analysis too slow still has the CV of before: "a result that lands      *)
(* after the deadline is discarded" (upload.service.ts:175-177).  After    *)
(* any other failure the CV may be the new one, but only after a fault.    *)
FailureLeavesCv ==
    \A u \in Uploads : (uploads[u].status = "failed" /\ u \in replaced) =>
        uploads[u].code \in {"internal", "interrupted"} /\ faults > 0

(* What the app was shown as the end of an upload stays: a poll that calls *)
(* a job dead never meets one that is alive and ends otherwise             *)
(* (INTERRUPTED_AFTER_MS against ANALYSIS_TIMEOUT_MS).  Only the cleanup   *)
(* removes the row.                                                        *)
EndIsFinal ==
    [][\A u \in Uploads : uploads[u].status \in {"done", "failed"}
            => uploads'[u] \in {uploads[u], NoRow}]_vars

(* Every upload ends: an app that polls does not wait for ever, although   *)
(* the job may die, or fail to write down that it failed, and although     *)
(* nothing removes the row.                                                *)
EveryUploadEnds ==
    \A u \in Uploads : (uploads[u].status = "parsing") ~> (uploads[u].status # "parsing")

(* The file of an upload does not outlive it: whatever happens to its job, *)
(* the file of every row goes away once the cleanup has come round.        *)
EveryFileGoes ==
    CleanupRuns => \A u \in Uploads : (uploads[u].status # "absent") ~> (u \notin files)
=============================================================================
