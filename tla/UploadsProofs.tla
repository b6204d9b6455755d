---------------------------- MODULE UploadsProofs ----------------------------
(***************************************************************************)
(* Proofs about Uploads, for any uploads, attempts and faults.             *)
(*                                                                         *)
(* TypeOK, DoneWasSaved and FailureLeavesCv are not inductive: what a job  *)
(* or a poll will save depends on the row object it holds and on what else *)
(* can have written the row since.  The argument is that one of them at a  *)
(* time owns a row.  While its job lives an upload is fresh, so no poll    *)
(* calls it dead and no cleanup touches it; the job reads the row once and *)
(* finds it parsing until its own last save.  A poll that calls it dead    *)
(* therefore holds a parsing row whose job is over, which takes a fault.   *)
(***************************************************************************)
EXTENDS Uploads, TLAPS

(* From its insertion to the job's last save the row is the job's.         *)
Working == {"start", "begin", "analyze", "save", "finish", "fail"}

Types ==
    /\ uploads \in [Uploads -> Row]
    /\ files \subseteq Uploads
    /\ age \in [Uploads -> {"fresh", "overdue", "expired"}]
    /\ cvFrom \in Uploads \cup {Nobody} /\ replaced \subseteq Uploads
    /\ job \in [Uploads -> Job]
    /\ poll \in [Uploads -> Poll]
    /\ sweep \subseteq Uploads
    /\ faults \in 0 .. MaxFaults

(* Who owns the row of u.                                                  *)
Owned(u) ==
    /\ job[u].at \in {"idle", "stored"} => uploads[u] = NoRow
    /\ job[u].at \in Working => uploads[u].status = "parsing" /\ uploads[u].code = "none"
    /\ job[u].at # "over" => age[u] = "fresh"
    /\ u \in sweep => age[u] = "expired"
    /\ job[u].at \in {"delete", "over"} /\ uploads[u].status = "parsing" => faults > 0

(* What the job and the poll of u hold.                                    *)
Held(u) ==
    /\ job[u].at \in {"begin", "analyze", "save", "finish"} =>
            job[u].copy.status = "parsing" /\ job[u].copy.code = "none"
    /\ job[u].at = "fail" =>
            /\ job[u].copy.status = "failed" /\ job[u].copy.code # "none"
            /\ u \in replaced => job[u].copy.code = "internal" /\ faults > 0
    /\ poll[u].at = "overdue" =>
            /\ age[u] # "fresh" /\ faults > 0
            /\ poll[u].copy.status = "failed" /\ poll[u].copy.code = "interrupted"
            /\ uploads[u].status \in {"parsing", "absent"}

(* What the row of u says of the CV.                                       *)
Shown(u) ==
    /\ job[u].at \in {"idle", "stored", "start", "begin", "analyze", "save"} => u \notin replaced
    /\ job[u].at = "finish" => u \in replaced
    /\ uploads[u].status = "failed" <=> uploads[u].code # "none"
    /\ uploads[u].status = "done" => u \in replaced
    /\ uploads[u].status = "failed" /\ u \in replaced =>
            uploads[u].code \in {"internal", "interrupted"} /\ faults > 0

Sound(u) == Owned(u) /\ Held(u) /\ Shown(u)

IInv == Types /\ \A u \in Uploads : Sound(u)

-----------------------------------------------------------------------------
(* An upload that a step leaves alone stays sound: whether there was a     *)
(* fault yet is all that its soundness takes from outside, and a step only *)
(* adds faults.                                                            *)
LEMMA SoundStays ==
    ASSUME IInv, Types', NEW v \in Uploads,
           uploads'[v] = uploads[v], age'[v] = age[v], job'[v] = job[v], poll'[v] = poll[v],
           v \in sweep' => v \in sweep,
           v \in replaced' <=> v \in replaced,
           faults' >= faults
    PROVE  Sound(v)'
<1>1. Sound(v) /\ faults \in Nat /\ faults' \in Nat
  BY UploadsAssumption DEF IInv, Types
<1>2. Owned(v)'
  BY <1>1 DEF Sound, Owned
<1>3. Held(v)'
  BY <1>1 DEF Sound, Held
<1>4. Shown(v)'
  BY <1>1 DEF Sound, Shown
<1> QED
  BY <1>2, <1>3, <1>4 DEF Sound

LEMMA FaultCounts ==
    ASSUME Types, Fault
    PROVE  faults' \in 0 .. MaxFaults /\ faults' > 0 /\ faults' >= faults
BY UploadsAssumption DEF Types, Fault

(* What the catch holds.                                                   *)
LEMMA ThrownHolds ==
    ASSUME Types, NEW u \in Uploads, NEW code \in Codes, Thrown(u, code)
    PROVE  /\ job'[u] \in Job
           /\ job'[u].at = "fail"
           /\ job'[u].copy.status = "failed" /\ job'[u].copy.code = code
<1>1. job[u] \in Job
  BY DEF Types
<1>2. job'[u] = [job[u] EXCEPT !.at = "fail", !.copy = Failed(job[u].copy, code)]
  BY DEF Types, Thrown
<1> QED
  BY <1>1, <1>2 DEF Job, Stretch, Row, Codes, Failed

LEMMA InitIsSound == Init => IInv
<1> SUFFICES ASSUME Init
             PROVE  IInv
  OBVIOUS
<1>1. Types
  BY UploadsAssumption DEF Init, Types, Row, NoRow, Codes, Job, NoJob, Stretch, Poll, NoPoll
<1>2. ASSUME NEW u \in Uploads
      PROVE  Sound(u)
  BY <1>2 DEF Init, Sound, Owned, Held, Shown, Working, NoRow, NoJob, NoPoll
<1> QED
  BY <1>1, <1>2 DEF IInv

-----------------------------------------------------------------------------
(* The steps of a job: each changes at most its own upload.                *)
LEMMA StoreFileKeeps ==
    ASSUME IInv, NEW u \in Uploads, StoreFile(u)
    PROVE  IInv'
<1>1. Types'
  <2>1. job[u] \in Job /\ uploads[u] \in Row /\ poll[u] \in Poll
    BY DEF IInv, Types
  <2>2. uploads'[u] \in Row
    BY <2>1, UploadsAssumption DEF IInv, Types, StoreFile, Row, NoRow, Codes, Job, Poll
  <2>3. job'[u] \in Job
    BY <2>1, UploadsAssumption DEF IInv, Types, StoreFile, Row, NoRow, Codes, Job, Stretch, Poll
  <2>4. poll'[u] \in Poll
    BY <2>1, UploadsAssumption DEF IInv, Types, StoreFile, Row, NoRow, Codes, Job, Poll
  <2> QED
    BY <2>2, <2>3, <2>4, UploadsAssumption DEF IInv, Types, StoreFile
<1>2. Owned(u)'
  BY <1>1, UploadsAssumption DEF IInv, Types, Sound, Owned, Held, Working, StoreFile, Row, NoRow, Codes, Job, Poll
<1>3. Held(u)'
  BY <1>1, UploadsAssumption DEF IInv, Types, Sound, Owned, Held, Shown, Working, StoreFile, Row, NoRow, Codes, Job, Poll
<1>4. Shown(u)'
  BY <1>1, UploadsAssumption DEF IInv, Types, Sound, Owned, Held, Shown, Working, StoreFile, Row, NoRow, Codes, Job, Poll
<1>5. ASSUME NEW v \in Uploads \ {u}
      PROVE  Sound(v)'
  <2>1. /\ uploads'[v] = uploads[v] /\ age'[v] = age[v]
        /\ job'[v] = job[v] /\ poll'[v] = poll[v]
        /\ v \in sweep' => v \in sweep
        /\ v \in replaced' <=> v \in replaced
        /\ faults' >= faults
    BY UploadsAssumption DEF IInv, Types, StoreFile
  <2> QED
    BY <1>1, <2>1, SoundStays
<1> QED
  BY <1>1, <1>2, <1>3, <1>4, <1>5 DEF IInv, Sound

LEMMA InsertRowKeeps ==
    ASSUME IInv, NEW u \in Uploads, InsertRow(u)
    PROVE  IInv'
<1>0. Fault => faults' \in 0 .. MaxFaults /\ faults' > 0 /\ faults' >= faults
  BY FaultCounts DEF IInv
<1>1. Types'
  <2>1. job[u] \in Job /\ uploads[u] \in Row /\ poll[u] \in Poll
    BY DEF IInv, Types
  <2>2. uploads'[u] \in Row
    BY <1>0, <2>1, UploadsAssumption DEF IInv, Types, InsertRow, NewRow, Row, NoRow, Codes, Job, Poll
  <2>3. job'[u] \in Job
    <3>1. \/ job'[u] = [job[u] EXCEPT !.at = "start"]
          \/ job'[u] = [job[u] EXCEPT !.at = "over"]
      BY DEF IInv, Types, InsertRow
    <3> QED
      BY <2>1, <3>1 DEF Job, Stretch
  <2>4. poll'[u] \in Poll
    BY <1>0, <2>1, UploadsAssumption DEF IInv, Types, InsertRow, NewRow, Row, NoRow, Codes, Job, Poll
  <2> QED
    BY <1>0, <2>2, <2>3, <2>4, UploadsAssumption DEF IInv, Types, InsertRow, NewRow
<1>2. Owned(u)'
  BY <1>0, <1>1, UploadsAssumption DEF IInv, Types, Sound, Owned, Held, Working, InsertRow, NewRow, Row, NoRow, Codes, Job, Poll
<1>3. Held(u)'
  BY <1>0, <1>1, UploadsAssumption DEF IInv, Types, Sound, Owned, Held, Shown, Working, InsertRow, NewRow, Row, NoRow, Codes, Job, Poll
<1>4. Shown(u)'
  BY <1>0, <1>1, UploadsAssumption DEF IInv, Types, Sound, Owned, Held, Shown, Working, InsertRow, NewRow, Row, NoRow, Codes, Job, Poll
<1>5. ASSUME NEW v \in Uploads \ {u}
      PROVE  Sound(v)'
  <2>1. /\ uploads'[v] = uploads[v] /\ age'[v] = age[v]
        /\ job'[v] = job[v] /\ poll'[v] = poll[v]
        /\ v \in sweep' => v \in sweep
        /\ v \in replaced' <=> v \in replaced
        /\ faults' >= faults
    BY <1>0, UploadsAssumption DEF IInv, Types, InsertRow, NewRow
  <2> QED
    BY <1>1, <2>1, SoundStays
<1> QED
  BY <1>1, <1>2, <1>3, <1>4, <1>5 DEF IInv, Sound

LEMMA ReadRowKeeps ==
    ASSUME IInv, NEW u \in Uploads, ReadRow(u)
    PROVE  IInv'
<1>0. Fault => faults' \in 0 .. MaxFaults /\ faults' > 0 /\ faults' >= faults
  BY FaultCounts DEF IInv
<1>1. Types'
  <2>1. job[u] \in Job /\ uploads[u] \in Row /\ poll[u] \in Poll
    BY DEF IInv, Types
  <2>2. uploads'[u] \in Row
    BY <1>0, <2>1, UploadsAssumption DEF IInv, Types, ReadRow, Row, NoRow, Codes, Job, Poll
  <2>3. job'[u] \in Job
    BY <1>0, <2>1, UploadsAssumption DEF IInv, Types, ReadRow, Row, NoRow, Codes, Job, Stretch, Poll
  <2>4. poll'[u] \in Poll
    BY <1>0, <2>1, UploadsAssumption DEF IInv, Types, ReadRow, Row, NoRow, Codes, Job, Poll
  <2> QED
    BY <1>0, <2>2, <2>3, <2>4, UploadsAssumption DEF IInv, Types, ReadRow
<1>2. Owned(u)'
  BY <1>0, <1>1, UploadsAssumption DEF IInv, Types, Sound, Owned, Held, Working, ReadRow, Row, NoRow, Codes, Job, Poll
<1>3. Held(u)'
  BY <1>0, <1>1, UploadsAssumption DEF IInv, Types, Sound, Owned, Held, Shown, Working, ReadRow, Row, NoRow, Codes, Job, Poll
<1>4. Shown(u)'
  BY <1>0, <1>1, UploadsAssumption DEF IInv, Types, Sound, Owned, Held, Shown, Working, ReadRow, Row, NoRow, Codes, Job, Poll
<1>5. ASSUME NEW v \in Uploads \ {u}
      PROVE  Sound(v)'
  <2>1. /\ uploads'[v] = uploads[v] /\ age'[v] = age[v]
        /\ job'[v] = job[v] /\ poll'[v] = poll[v]
        /\ v \in sweep' => v \in sweep
        /\ v \in replaced' <=> v \in replaced
        /\ faults' >= faults
    BY <1>0, UploadsAssumption DEF IInv, Types, ReadRow
  <2> QED
    BY <1>1, <2>1, SoundStays
<1> QED
  BY <1>1, <1>2, <1>3, <1>4, <1>5 DEF IInv, Sound

LEMMA SaveStageKeeps ==
    ASSUME IInv, NEW u \in Uploads, SaveStage(u)
    PROVE  IInv'
<1>0. Fault => faults' \in 0 .. MaxFaults /\ faults' > 0 /\ faults' >= faults
  BY FaultCounts DEF IInv
<1>1. Types'
  <2>1. job[u] \in Job /\ uploads[u] \in Row /\ poll[u] \in Poll
    BY DEF IInv, Types
  <2>2. uploads'[u] \in Row
    BY <1>0, <2>1, UploadsAssumption DEF IInv, Types, SaveStage, Thrown, Failed, Row, NoRow, Codes, Job, Poll
  <2>3. job'[u] \in Job
    BY <1>0, <2>1, UploadsAssumption DEF IInv, Types, SaveStage, Thrown, Failed, Row, NoRow, Codes, Job, Stretch, Poll
  <2>4. poll'[u] \in Poll
    BY <1>0, <2>1, UploadsAssumption DEF IInv, Types, SaveStage, Thrown, Failed, Row, NoRow, Codes, Job, Poll
  <2> QED
    BY <1>0, <2>2, <2>3, <2>4, UploadsAssumption DEF IInv, Types, SaveStage, Thrown, Failed
<1>2. Owned(u)'
  BY <1>0, <1>1, UploadsAssumption DEF IInv, Types, Sound, Owned, Held, Working, SaveStage, Thrown, Failed, Row, NoRow, Codes, Job, Poll
<1>3. Held(u)'
  <2>1. CASE /\ job' = [job EXCEPT ![u].at = "analyze"]
             /\ UNCHANGED faults
    BY <2>1, <1>1, UploadsAssumption DEF IInv, Types, Sound, Owned, Held, SaveStage, Job, Row
  <2>2. CASE Fault /\ Thrown(u, "internal")
    <3>1. job'[u].at = "fail" /\ job'[u].copy.status = "failed" /\ job'[u].copy.code = "internal"
      BY <2>2, ThrownHolds DEF IInv, Codes
    <3>2. faults' > 0 /\ poll'[u] = poll[u] /\ poll[u].at # "overdue"
      BY <1>0, <2>2 DEF IInv, Sound, Owned, Held, SaveStage
    <3> QED
      BY <3>1, <3>2 DEF Held
  <2> QED
    BY <2>1, <2>2 DEF SaveStage
<1>4. Shown(u)'
  BY <1>0, <1>1, UploadsAssumption DEF IInv, Types, Sound, Owned, Held, Shown, Working, SaveStage, Thrown, Failed, Row, NoRow, Codes, Job, Poll
<1>5. ASSUME NEW v \in Uploads \ {u}
      PROVE  Sound(v)'
  <2>1. /\ uploads'[v] = uploads[v] /\ age'[v] = age[v]
        /\ job'[v] = job[v] /\ poll'[v] = poll[v]
        /\ v \in sweep' => v \in sweep
        /\ v \in replaced' <=> v \in replaced
        /\ faults' >= faults
    BY <1>0, UploadsAssumption DEF IInv, Types, SaveStage, Thrown, Failed
  <2> QED
    BY <1>1, <2>1, SoundStays
<1> QED
  BY <1>1, <1>2, <1>3, <1>4, <1>5 DEF IInv, Sound

LEMMA AnalyzeKeeps ==
    ASSUME IInv, NEW u \in Uploads, Analyze(u)
    PROVE  IInv'
<1>1. Types'
  <2>1. job[u] \in Job /\ uploads[u] \in Row /\ poll[u] \in Poll
    BY DEF IInv, Types
  <2>2. uploads'[u] \in Row
    BY <2>1, UploadsAssumption DEF IInv, Types, Analyze, AfterAnalysis, Row, NoRow, Codes, Job, Poll
  <2>3. job'[u] \in Job
    BY <2>1, UploadsAssumption DEF IInv, Types, Analyze, AfterAnalysis, Row, NoRow, Codes, Job, Stretch, Poll
  <2>4. poll'[u] \in Poll
    BY <2>1, UploadsAssumption DEF IInv, Types, Analyze, AfterAnalysis, Row, NoRow, Codes, Job, Poll
  <2> QED
    BY <2>2, <2>3, <2>4, UploadsAssumption DEF IInv, Types, Analyze, AfterAnalysis
<1>2. Owned(u)'
  BY <1>1, UploadsAssumption DEF IInv, Types, Sound, Owned, Held, Working, Analyze, AfterAnalysis, Row, NoRow, Codes, Job, Poll
<1>3. Held(u)'
  BY <1>1, UploadsAssumption DEF IInv, Types, Sound, Owned, Held, Shown, Working, Analyze, AfterAnalysis, Row, NoRow, Codes, Job, Poll
<1>4. Shown(u)'
  BY <1>1, UploadsAssumption DEF IInv, Types, Sound, Owned, Held, Shown, Working, Analyze, AfterAnalysis, Row, NoRow, Codes, Job, Poll
<1>5. ASSUME NEW v \in Uploads \ {u}
      PROVE  Sound(v)'
  <2>1. /\ uploads'[v] = uploads[v] /\ age'[v] = age[v]
        /\ job'[v] = job[v] /\ poll'[v] = poll[v]
        /\ v \in sweep' => v \in sweep
        /\ v \in replaced' <=> v \in replaced
        /\ faults' >= faults
    BY UploadsAssumption DEF IInv, Types, Analyze, AfterAnalysis
  <2> QED
    BY <1>1, <2>1, SoundStays
<1> QED
  BY <1>1, <1>2, <1>3, <1>4, <1>5 DEF IInv, Sound

LEMMA UnreadableKeeps ==
    ASSUME IInv, NEW u \in Uploads, Unreadable(u)
    PROVE  IInv'
<1>1. Types'
  <2>1. job[u] \in Job /\ uploads[u] \in Row /\ poll[u] \in Poll
    BY DEF IInv, Types
  <2>2. uploads'[u] \in Row
    BY <2>1, UploadsAssumption DEF IInv, Types, Unreadable, Thrown, Failed, Row, NoRow, Codes, Job, Poll
  <2>3. job'[u] \in Job
    BY <2>1, UploadsAssumption DEF IInv, Types, Unreadable, Thrown, Failed, Row, NoRow, Codes, Job, Stretch, Poll
  <2>4. poll'[u] \in Poll
    BY <2>1, UploadsAssumption DEF IInv, Types, Unreadable, Thrown, Failed, Row, NoRow, Codes, Job, Poll
  <2> QED
    BY <2>2, <2>3, <2>4, UploadsAssumption DEF IInv, Types, Unreadable, Thrown, Failed
<1>2. Owned(u)'
  BY <1>1, UploadsAssumption DEF IInv, Types, Sound, Owned, Held, Working, Unreadable, Thrown, Failed, Row, NoRow, Codes, Job, Poll
<1>3. Held(u)'
  BY <1>1, UploadsAssumption DEF IInv, Types, Sound, Owned, Held, Shown, Working, Unreadable, Thrown, Failed, Row, NoRow, Codes, Job, Poll
<1>4. Shown(u)'
  BY <1>1, UploadsAssumption DEF IInv, Types, Sound, Owned, Held, Shown, Working, Unreadable, Thrown, Failed, Row, NoRow, Codes, Job, Poll
<1>5. ASSUME NEW v \in Uploads \ {u}
      PROVE  Sound(v)'
  <2>1. /\ uploads'[v] = uploads[v] /\ age'[v] = age[v]
        /\ job'[v] = job[v] /\ poll'[v] = poll[v]
        /\ v \in sweep' => v \in sweep
        /\ v \in replaced' <=> v \in replaced
        /\ faults' >= faults
    BY UploadsAssumption DEF IInv, Types, Unreadable, Thrown, Failed
  <2> QED
    BY <1>1, <2>1, SoundStays
<1> QED
  BY <1>1, <1>2, <1>3, <1>4, <1>5 DEF IInv, Sound

LEMMA AnalysisThrowsKeeps ==
    ASSUME IInv, NEW u \in Uploads, AnalysisThrows(u)
    PROVE  IInv'
<1>1. Types'
  <2>1. job[u] \in Job /\ uploads[u] \in Row /\ poll[u] \in Poll
    BY DEF IInv, Types
  <2>2. uploads'[u] \in Row
    BY <2>1, UploadsAssumption DEF IInv, Types, AnalysisThrows, Thrown, Failed, Row, NoRow, Codes, Job, Poll
  <2>3. job'[u] \in Job
    BY ThrownHolds, <2>1, UploadsAssumption DEF IInv, Types, AnalysisThrows, Row, NoRow, Codes, Job, Stretch, Poll
  <2>4. poll'[u] \in Poll
    BY <2>1, UploadsAssumption DEF IInv, Types, AnalysisThrows, Thrown, Failed, Row, NoRow, Codes, Job, Poll
  <2> QED
    BY <2>2, <2>3, <2>4, UploadsAssumption DEF IInv, Types, AnalysisThrows, Thrown, Failed
<1>2. Owned(u)'
  BY <1>1, UploadsAssumption DEF IInv, Types, Sound, Owned, Held, Working, AnalysisThrows, Thrown, Failed, Row, NoRow, Codes, Job, Poll
<1>3. Held(u)'
  BY ThrownHolds, <1>1, UploadsAssumption DEF IInv, Types, Sound, Owned, Held, Shown, Working, AnalysisThrows, Row, NoRow, Codes, Job, Poll
<1>4. Shown(u)'
  BY <1>1, UploadsAssumption DEF IInv, Types, Sound, Owned, Held, Shown, Working, AnalysisThrows, Thrown, Failed, Row, NoRow, Codes, Job, Poll
<1>5. ASSUME NEW v \in Uploads \ {u}
      PROVE  Sound(v)'
  <2>1. /\ uploads'[v] = uploads[v] /\ age'[v] = age[v]
        /\ job'[v] = job[v] /\ poll'[v] = poll[v]
        /\ v \in sweep' => v \in sweep
        /\ v \in replaced' <=> v \in replaced
        /\ faults' >= faults
    BY UploadsAssumption DEF IInv, Types, AnalysisThrows, Thrown, Failed
  <2> QED
    BY <1>1, <2>1, SoundStays
<1> QED
  BY <1>1, <1>2, <1>3, <1>4, <1>5 DEF IInv, Sound

LEMMA SaveAnalysisKeeps ==
    ASSUME IInv, NEW u \in Uploads, SaveAnalysis(u)
    PROVE  IInv'
<1>0. Fault => faults' \in 0 .. MaxFaults /\ faults' > 0 /\ faults' >= faults
  BY FaultCounts DEF IInv
<1>1. Types'
  <2>1. job[u] \in Job /\ uploads[u] \in Row /\ poll[u] \in Poll
    BY DEF IInv, Types
  <2>2. uploads'[u] \in Row
    BY <1>0, <2>1, UploadsAssumption DEF IInv, Types, SaveAnalysis, Saving, Thrown, Failed, Row, NoRow, Codes, Job, Poll
  <2>3. job'[u] \in Job
    BY <1>0, <2>1, UploadsAssumption DEF IInv, Types, SaveAnalysis, Saving, Thrown, Failed, Row, NoRow, Codes, Job, Stretch, Poll
  <2>4. poll'[u] \in Poll
    BY <1>0, <2>1, UploadsAssumption DEF IInv, Types, SaveAnalysis, Saving, Thrown, Failed, Row, NoRow, Codes, Job, Poll
  <2> QED
    BY <1>0, <2>2, <2>3, <2>4, UploadsAssumption DEF IInv, Types, SaveAnalysis, Saving, Thrown, Failed
<1>2. Owned(u)'
  BY <1>0, <1>1, UploadsAssumption DEF IInv, Types, Sound, Owned, Held, Working, SaveAnalysis, Saving, Thrown, Failed, Row, NoRow, Codes, Job, Poll
<1>3. Held(u)'
  BY ThrownHolds, <1>0, <1>1, UploadsAssumption DEF IInv, Types, Sound, Owned, Held, Shown, Working, SaveAnalysis, Saving, Row, NoRow, Codes, Job, Poll
<1>4. Shown(u)'
  BY <1>0, <1>1, UploadsAssumption DEF IInv, Types, Sound, Owned, Held, Shown, Working, SaveAnalysis, Saving, Thrown, Failed, Row, NoRow, Codes, Job, Poll
<1>5. ASSUME NEW v \in Uploads \ {u}
      PROVE  Sound(v)'
  <2>1. /\ uploads'[v] = uploads[v] /\ age'[v] = age[v]
        /\ job'[v] = job[v] /\ poll'[v] = poll[v]
        /\ v \in sweep' => v \in sweep
        /\ v \in replaced' <=> v \in replaced
        /\ faults' >= faults
    BY <1>0, UploadsAssumption DEF IInv, Types, SaveAnalysis, Saving, Thrown, Failed
  <2> QED
    BY <1>1, <2>1, SoundStays
<1> QED
  BY <1>1, <1>2, <1>3, <1>4, <1>5 DEF IInv, Sound

LEMMA SaveDoneKeeps ==
    ASSUME IInv, NEW u \in Uploads, SaveDone(u)
    PROVE  IInv'
<1>0. Fault => faults' \in 0 .. MaxFaults /\ faults' > 0 /\ faults' >= faults
  BY FaultCounts DEF IInv
<1>1. Types'
  <2>1. job[u] \in Job /\ uploads[u] \in Row /\ poll[u] \in Poll
    BY DEF IInv, Types
  <2>2. uploads'[u] \in Row
    <3>1. uploads'[u] \in {uploads[u], [job[u].copy EXCEPT !.status = "done"]}
      BY DEF IInv, Types, SaveDone
    <3> QED
      BY <2>1, <3>1 DEF Row, Job
  <2>3. job'[u] \in Job
    BY <1>0, <2>1, UploadsAssumption DEF IInv, Types, SaveDone, Thrown, Failed, Row, NoRow, Codes, Job, Stretch, Poll
  <2>4. poll'[u] \in Poll
    BY <1>0, <2>1, UploadsAssumption DEF IInv, Types, SaveDone, Thrown, Failed, Row, NoRow, Codes, Job, Poll
  <2> QED
    BY <1>0, <2>2, <2>3, <2>4, UploadsAssumption DEF IInv, Types, SaveDone, Thrown, Failed
<1>2. Owned(u)'
  BY <1>0, <1>1, UploadsAssumption DEF IInv, Types, Sound, Owned, Held, Working, SaveDone, Thrown, Failed, Row, NoRow, Codes, Job, Poll
<1>3. Held(u)'
  BY ThrownHolds, <1>0, <1>1, UploadsAssumption DEF IInv, Types, Sound, Owned, Held, Shown, Working, SaveDone, Row, NoRow, Codes, Job, Poll
<1>4. Shown(u)'
  BY <1>0, <1>1, UploadsAssumption DEF IInv, Types, Sound, Owned, Held, Shown, Working, SaveDone, Thrown, Failed, Row, NoRow, Codes, Job, Poll
<1>5. ASSUME NEW v \in Uploads \ {u}
      PROVE  Sound(v)'
  <2>1. /\ uploads'[v] = uploads[v] /\ age'[v] = age[v]
        /\ job'[v] = job[v] /\ poll'[v] = poll[v]
        /\ v \in sweep' => v \in sweep
        /\ v \in replaced' <=> v \in replaced
        /\ faults' >= faults
    BY <1>0, UploadsAssumption DEF IInv, Types, SaveDone, Thrown, Failed
  <2> QED
    BY <1>1, <2>1, SoundStays
<1> QED
  BY <1>1, <1>2, <1>3, <1>4, <1>5 DEF IInv, Sound

LEMMA SaveFailedKeeps ==
    ASSUME IInv, NEW u \in Uploads, SaveFailed(u)
    PROVE  IInv'
<1>0. Fault => faults' \in 0 .. MaxFaults /\ faults' > 0 /\ faults' >= faults
  BY FaultCounts DEF IInv
<1>1. Types'
  <2>1. job[u] \in Job /\ uploads[u] \in Row /\ poll[u] \in Poll
    BY DEF IInv, Types
  <2>2. uploads'[u] \in Row
    BY <1>0, <2>1, UploadsAssumption DEF IInv, Types, SaveFailed, Thrown, Failed, Row, NoRow, Codes, Job, Poll
  <2>3. job'[u] \in Job
    BY <1>0, <2>1, UploadsAssumption DEF IInv, Types, SaveFailed, Thrown, Failed, Row, NoRow, Codes, Job, Stretch, Poll
  <2>4. poll'[u] \in Poll
    BY <1>0, <2>1, UploadsAssumption DEF IInv, Types, SaveFailed, Thrown, Failed, Row, NoRow, Codes, Job, Poll
  <2> QED
    BY <1>0, <2>2, <2>3, <2>4, UploadsAssumption DEF IInv, Types, SaveFailed, Thrown, Failed
<1>2. Owned(u)'
  BY <1>0, <1>1, UploadsAssumption DEF IInv, Types, Sound, Owned, Held, Working, SaveFailed, Thrown, Failed, Row, NoRow, Codes, Job, Poll
<1>3. Held(u)'
  BY <1>0, <1>1, UploadsAssumption DEF IInv, Types, Sound, Owned, Held, Shown, Working, SaveFailed, Thrown, Failed, Row, NoRow, Codes, Job, Poll
<1>4. Shown(u)'
  BY <1>0, <1>1, UploadsAssumption DEF IInv, Types, Sound, Owned, Held, Shown, Working, SaveFailed, Thrown, Failed, Row, NoRow, Codes, Job, Poll
<1>5. ASSUME NEW v \in Uploads \ {u}
      PROVE  Sound(v)'
  <2>1. /\ uploads'[v] = uploads[v] /\ age'[v] = age[v]
        /\ job'[v] = job[v] /\ poll'[v] = poll[v]
        /\ v \in sweep' => v \in sweep
        /\ v \in replaced' <=> v \in replaced
        /\ faults' >= faults
    BY <1>0, UploadsAssumption DEF IInv, Types, SaveFailed, Thrown, Failed
  <2> QED
    BY <1>1, <2>1, SoundStays
<1> QED
  BY <1>1, <1>2, <1>3, <1>4, <1>5 DEF IInv, Sound

LEMMA DeleteFileKeeps ==
    ASSUME IInv, NEW u \in Uploads, DeleteFile(u)
    PROVE  IInv'
<1>1. Types'
  <2>1. job[u] \in Job /\ uploads[u] \in Row /\ poll[u] \in Poll
    BY DEF IInv, Types
  <2>2. uploads'[u] \in Row
    BY <2>1, UploadsAssumption DEF IInv, Types, DeleteFile, Row, NoRow, Codes, Job, Poll
  <2>3. job'[u] \in Job
    BY <2>1, UploadsAssumption DEF IInv, Types, DeleteFile, Row, NoRow, Codes, Job, Stretch, Poll
  <2>4. poll'[u] \in Poll
    BY <2>1, UploadsAssumption DEF IInv, Types, DeleteFile, Row, NoRow, Codes, Job, Poll
  <2> QED
    BY <2>2, <2>3, <2>4, UploadsAssumption DEF IInv, Types, DeleteFile
<1>2. Owned(u)'
  BY <1>1, UploadsAssumption DEF IInv, Types, Sound, Owned, Held, Working, DeleteFile, Row, NoRow, Codes, Job, Poll
<1>3. Held(u)'
  BY <1>1, UploadsAssumption DEF IInv, Types, Sound, Owned, Held, Shown, Working, DeleteFile, Row, NoRow, Codes, Job, Poll
<1>4. Shown(u)'
  BY <1>1, UploadsAssumption DEF IInv, Types, Sound, Owned, Held, Shown, Working, DeleteFile, Row, NoRow, Codes, Job, Poll
<1>5. ASSUME NEW v \in Uploads \ {u}
      PROVE  Sound(v)'
  <2>1. /\ uploads'[v] = uploads[v] /\ age'[v] = age[v]
        /\ job'[v] = job[v] /\ poll'[v] = poll[v]
        /\ v \in sweep' => v \in sweep
        /\ v \in replaced' <=> v \in replaced
        /\ faults' >= faults
    BY UploadsAssumption DEF IInv, Types, DeleteFile
  <2> QED
    BY <1>1, <2>1, SoundStays
<1> QED
  BY <1>1, <1>2, <1>3, <1>4, <1>5 DEF IInv, Sound

-----------------------------------------------------------------------------
(* The steps of a poll, of the cleanup and of time.                        *)
LEMMA PollReadsKeeps ==
    ASSUME IInv, NEW u \in Uploads, PollReads(u)
    PROVE  IInv'
<1>1. Types'
  <2>1. job[u] \in Job /\ uploads[u] \in Row /\ poll[u] \in Poll
    BY DEF IInv, Types
  <2>2. uploads'[u] \in Row
    BY <2>1, UploadsAssumption DEF IInv, Types, PollReads, Interrupted, Failed, Row, NoRow, Codes, Job, Poll
  <2>3. job'[u] \in Job
    BY <2>1, UploadsAssumption DEF IInv, Types, PollReads, Interrupted, Failed, Row, NoRow, Codes, Job, Stretch, Poll
  <2>4. poll'[u] \in Poll
    BY <2>1, UploadsAssumption DEF IInv, Types, PollReads, Interrupted, Failed, Row, NoRow, Codes, Job, Poll
  <2> QED
    BY <2>2, <2>3, <2>4, UploadsAssumption DEF IInv, Types, PollReads, Interrupted, Failed
<1>2. Owned(u)'
  BY <1>1, UploadsAssumption DEF IInv, Types, Sound, Owned, Held, Working, PollReads, Interrupted, Failed, Row, NoRow, Codes, Job, Poll
<1>3. Held(u)'
  BY <1>1, UploadsAssumption DEF IInv, Types, Sound, Owned, Held, Shown, Working, PollReads, Interrupted, Failed, Row, NoRow, Codes, Job, Poll
<1>4. Shown(u)'
  BY <1>1, UploadsAssumption DEF IInv, Types, Sound, Owned, Held, Shown, Working, PollReads, Interrupted, Failed, Row, NoRow, Codes, Job, Poll
<1>5. ASSUME NEW v \in Uploads \ {u}
      PROVE  Sound(v)'
  <2>1. /\ uploads'[v] = uploads[v] /\ age'[v] = age[v]
        /\ job'[v] = job[v] /\ poll'[v] = poll[v]
        /\ v \in sweep' => v \in sweep
        /\ v \in replaced' <=> v \in replaced
        /\ faults' >= faults
    BY UploadsAssumption DEF IInv, Types, PollReads, Interrupted, Failed
  <2> QED
    BY <1>1, <2>1, SoundStays
<1> QED
  BY <1>1, <1>2, <1>3, <1>4, <1>5 DEF IInv, Sound

LEMMA PollSavesKeeps ==
    ASSUME IInv, NEW u \in Uploads, PollSaves(u)
    PROVE  IInv'
<1>0. Fault => faults' \in 0 .. MaxFaults /\ faults' > 0 /\ faults' >= faults
  BY FaultCounts DEF IInv
<1>1. Types'
  <2>1. job[u] \in Job /\ uploads[u] \in Row /\ poll[u] \in Poll
    BY DEF IInv, Types
  <2>2. uploads'[u] \in Row
    BY <1>0, <2>1, UploadsAssumption DEF IInv, Types, PollSaves, NoPoll, Row, NoRow, Codes, Job, Poll
  <2>3. job'[u] \in Job
    BY <1>0, <2>1, UploadsAssumption DEF IInv, Types, PollSaves, NoPoll, Row, NoRow, Codes, Job, Stretch, Poll
  <2>4. poll'[u] \in Poll
    BY <1>0, <2>1, UploadsAssumption DEF IInv, Types, PollSaves, NoPoll, Row, NoRow, Codes, Job, Poll
  <2> QED
    BY <1>0, <2>2, <2>3, <2>4, UploadsAssumption DEF IInv, Types, PollSaves, NoPoll
<1>2. Owned(u)'
  BY <1>0, <1>1, UploadsAssumption DEF IInv, Types, Sound, Owned, Held, Working, PollSaves, NoPoll, Row, NoRow, Codes, Job, Poll
<1>3. Held(u)'
  BY <1>0, <1>1, UploadsAssumption DEF IInv, Types, Sound, Owned, Held, Shown, Working, PollSaves, NoPoll, Row, NoRow, Codes, Job, Poll
<1>4. Shown(u)'
  BY <1>0, <1>1, UploadsAssumption DEF IInv, Types, Sound, Owned, Held, Shown, Working, PollSaves, NoPoll, Row, NoRow, Codes, Job, Poll
<1>5. ASSUME NEW v \in Uploads \ {u}
      PROVE  Sound(v)'
  <2>1. /\ uploads'[v] = uploads[v] /\ age'[v] = age[v]
        /\ job'[v] = job[v] /\ poll'[v] = poll[v]
        /\ v \in sweep' => v \in sweep
        /\ v \in replaced' <=> v \in replaced
        /\ faults' >= faults
    BY <1>0, UploadsAssumption DEF IInv, Types, PollSaves, NoPoll
  <2> QED
    BY <1>1, <2>1, SoundStays
<1> QED
  BY <1>1, <1>2, <1>3, <1>4, <1>5 DEF IInv, Sound

LEMMA PurgeKeeps ==
    ASSUME IInv, NEW u \in Uploads, Purge(u)
    PROVE  IInv'
<1>0. Fault => faults' \in 0 .. MaxFaults /\ faults' > 0 /\ faults' >= faults
  BY FaultCounts DEF IInv
<1>1. Types'
  <2>1. job[u] \in Job /\ uploads[u] \in Row /\ poll[u] \in Poll
    BY DEF IInv, Types
  <2>2. uploads'[u] \in Row
    BY <1>0, <2>1, UploadsAssumption DEF IInv, Types, Purge, NoRow, Row, NoRow, Codes, Job, Poll
  <2>3. job'[u] \in Job
    BY <1>0, <2>1, UploadsAssumption DEF IInv, Types, Purge, NoRow, Row, NoRow, Codes, Job, Stretch, Poll
  <2>4. poll'[u] \in Poll
    BY <1>0, <2>1, UploadsAssumption DEF IInv, Types, Purge, NoRow, Row, NoRow, Codes, Job, Poll
  <2> QED
    BY <1>0, <2>2, <2>3, <2>4, UploadsAssumption DEF IInv, Types, Purge, NoRow
<1>2. Owned(u)'
  BY <1>0, <1>1, UploadsAssumption DEF IInv, Types, Sound, Owned, Held, Working, Purge, NoRow, Row, NoRow, Codes, Job, Poll
<1>3. Held(u)'
  BY <1>0, <1>1, UploadsAssumption DEF IInv, Types, Sound, Owned, Held, Shown, Working, Purge, NoRow, Row, NoRow, Codes, Job, Poll
<1>4. Shown(u)'
  BY <1>0, <1>1, UploadsAssumption DEF IInv, Types, Sound, Owned, Held, Shown, Working, Purge, NoRow, Row, NoRow, Codes, Job, Poll
<1>5. ASSUME NEW v \in Uploads \ {u}
      PROVE  Sound(v)'
  <2>1. /\ uploads'[v] = uploads[v] /\ age'[v] = age[v]
        /\ job'[v] = job[v] /\ poll'[v] = poll[v]
        /\ v \in sweep' => v \in sweep
        /\ v \in replaced' <=> v \in replaced
        /\ faults' >= faults
    BY <1>0, UploadsAssumption DEF IInv, Types, Purge, NoRow
  <2> QED
    BY <1>1, <2>1, SoundStays
<1> QED
  BY <1>1, <1>2, <1>3, <1>4, <1>5 DEF IInv, Sound

LEMMA GrowOverdueKeeps ==
    ASSUME IInv, NEW u \in Uploads, GrowOverdue(u)
    PROVE  IInv'
<1>1. Types'
  <2>1. job[u] \in Job /\ uploads[u] \in Row /\ poll[u] \in Poll
    BY DEF IInv, Types
  <2>2. uploads'[u] \in Row
    BY <2>1, UploadsAssumption DEF IInv, Types, GrowOverdue, MayBeOverdue, Row, NoRow, Codes, Job, Poll
  <2>3. job'[u] \in Job
    BY <2>1, UploadsAssumption DEF IInv, Types, GrowOverdue, MayBeOverdue, Row, NoRow, Codes, Job, Stretch, Poll
  <2>4. poll'[u] \in Poll
    BY <2>1, UploadsAssumption DEF IInv, Types, GrowOverdue, MayBeOverdue, Row, NoRow, Codes, Job, Poll
  <2> QED
    BY <2>2, <2>3, <2>4, UploadsAssumption DEF IInv, Types, GrowOverdue, MayBeOverdue
<1>2. Owned(u)'
  BY <1>1, UploadsAssumption DEF IInv, Types, Sound, Owned, Held, Working, GrowOverdue, MayBeOverdue, Row, NoRow, Codes, Job, Poll
<1>3. Held(u)'
  BY <1>1, UploadsAssumption DEF IInv, Types, Sound, Owned, Held, Shown, Working, GrowOverdue, MayBeOverdue, Row, NoRow, Codes, Job, Poll
<1>4. Shown(u)'
  BY <1>1, UploadsAssumption DEF IInv, Types, Sound, Owned, Held, Shown, Working, GrowOverdue, MayBeOverdue, Row, NoRow, Codes, Job, Poll
<1>5. ASSUME NEW v \in Uploads \ {u}
      PROVE  Sound(v)'
  <2>1. /\ uploads'[v] = uploads[v] /\ age'[v] = age[v]
        /\ job'[v] = job[v] /\ poll'[v] = poll[v]
        /\ v \in sweep' => v \in sweep
        /\ v \in replaced' <=> v \in replaced
        /\ faults' >= faults
    BY UploadsAssumption DEF IInv, Types, GrowOverdue, MayBeOverdue
  <2> QED
    BY <1>1, <2>1, SoundStays
<1> QED
  BY <1>1, <1>2, <1>3, <1>4, <1>5 DEF IInv, Sound

LEMMA ExpireKeeps ==
    ASSUME IInv, NEW u \in Uploads, Expire(u)
    PROVE  IInv'
<1>1. Types'
  <2>1. job[u] \in Job /\ uploads[u] \in Row /\ poll[u] \in Poll
    BY DEF IInv, Types
  <2>2. uploads'[u] \in Row
    BY <2>1, UploadsAssumption DEF IInv, Types, Expire, Row, NoRow, Codes, Job, Poll
  <2>3. job'[u] \in Job
    BY <2>1, UploadsAssumption DEF IInv, Types, Expire, Row, NoRow, Codes, Job, Stretch, Poll
  <2>4. poll'[u] \in Poll
    BY <2>1, UploadsAssumption DEF IInv, Types, Expire, Row, NoRow, Codes, Job, Poll
  <2> QED
    BY <2>2, <2>3, <2>4, UploadsAssumption DEF IInv, Types, Expire
<1>2. Owned(u)'
  BY <1>1, UploadsAssumption DEF IInv, Types, Sound, Owned, Held, Working, Expire, Row, NoRow, Codes, Job, Poll
<1>3. Held(u)'
  BY <1>1, UploadsAssumption DEF IInv, Types, Sound, Owned, Held, Shown, Working, Expire, Row, NoRow, Codes, Job, Poll
<1>4. Shown(u)'
  BY <1>1, UploadsAssumption DEF IInv, Types, Sound, Owned, Held, Shown, Working, Expire, Row, NoRow, Codes, Job, Poll
<1>5. ASSUME NEW v \in Uploads \ {u}
      PROVE  Sound(v)'
  <2>1. /\ uploads'[v] = uploads[v] /\ age'[v] = age[v]
        /\ job'[v] = job[v] /\ poll'[v] = poll[v]
        /\ v \in sweep' => v \in sweep
        /\ v \in replaced' <=> v \in replaced
        /\ faults' >= faults
    BY UploadsAssumption DEF IInv, Types, Expire
  <2> QED
    BY <1>1, <2>1, SoundStays
<1> QED
  BY <1>1, <1>2, <1>3, <1>4, <1>5 DEF IInv, Sound

-----------------------------------------------------------------------------
(* The steps of all uploads at once.                                       *)
LEMMA FindExpiredKeeps ==
    ASSUME IInv, FindExpired
    PROVE  IInv'
<1>1. Types'
  BY DEF IInv, Types, FindExpired
<1>2. ASSUME NEW u \in Uploads
      PROVE  Sound(u)'
  BY <1>2 DEF IInv, Sound, Owned, Held, Shown, FindExpired, Expired
<1> QED
  BY <1>1, <1>2 DEF IInv

LEMMA CrashKeeps ==
    ASSUME IInv, Crash
    PROVE  IInv'
<1>0. faults' \in 0 .. MaxFaults /\ faults' > 0
  BY FaultCounts DEF IInv, Crash
<1>1. ASSUME NEW u \in Uploads
      PROVE  /\ job'[u] \in Job /\ job'[u].at = IF job[u].at = "idle" THEN "idle" ELSE "over"
             /\ poll'[u] \in Poll /\ poll'[u].at = "idle"
  BY UploadsAssumption DEF Crash, NoJob, NoPoll, Job, Poll, Stretch, Row, NoRow, Codes
<1>2. Types'
  BY <1>0, <1>1 DEF IInv, Types, Crash
<1>3. ASSUME NEW u \in Uploads
      PROVE  Sound(u)'
  <2>1. Sound(u)
    BY DEF IInv
  <2>2. uploads' = uploads /\ age' = age /\ replaced' = replaced /\ sweep' = {}
    BY DEF Crash
  <2>3. Owned(u)'
    BY <1>0, <1>1, <2>1, <2>2 DEF Sound, Owned, Working
  <2>4. Held(u)'
    BY <1>0, <1>1, <2>1, <2>2 DEF Sound, Held
  <2>5. Shown(u)'
    BY <1>0, <1>1, <2>1, <2>2 DEF Sound, Shown
  <2> QED
    BY <2>3, <2>4, <2>5 DEF Sound
<1> QED
  BY <1>2, <1>3 DEF IInv

LEMMA StutterKeeps ==
    ASSUME IInv, UNCHANGED vars
    PROVE  IInv'
<1>1. Types'
  BY DEF IInv, Types, vars
<1>2. ASSUME NEW u \in Uploads
      PROVE  Sound(u)'
  BY DEF IInv, Sound, Owned, Held, Shown, vars
<1> QED
  BY <1>1, <1>2 DEF IInv

LEMMA StepsKeep == IInv /\ [Next]_vars => IInv'
<1> SUFFICES ASSUME IInv, [Next]_vars
             PROVE  IInv'
  OBVIOUS
<1>1. ASSUME NEW u \in Uploads, Process(u)
      PROVE  IInv'
  BY <1>1, InsertRowKeeps, ReadRowKeeps, SaveStageKeeps, AnalyzeKeeps, UnreadableKeeps,
     AnalysisThrowsKeeps, SaveAnalysisKeeps, SaveDoneKeeps, SaveFailedKeeps, DeleteFileKeeps
     DEF Process
<1>2. ASSUME NEW u \in Uploads, Polling(u)
      PROVE  IInv'
  BY <1>2, PollReadsKeeps, PollSavesKeeps DEF Polling
<1>3. ASSUME NEW u \in Uploads, StoreFile(u) \/ Purge(u) \/ GrowOverdue(u) \/ Expire(u)
      PROVE  IInv'
  BY <1>3, StoreFileKeeps, PurgeKeeps, GrowOverdueKeeps, ExpireKeeps
<1> QED
  BY <1>1, <1>2, <1>3, FindExpiredKeeps, CrashKeeps, StutterKeeps DEF Next

LEMMA Invariance == Spec => []IInv
BY InitIsSound, StepsKeep, PTL DEF Spec

-----------------------------------------------------------------------------
(* Every variable of Uploads keeps its type, and a row has an error code   *)
(* exactly when it failed.                                                 *)
THEOREM TypeCorrect == Spec => []TypeOK
<1>1. IInv => TypeOK
  BY DEF IInv, Types, Sound, Shown, TypeOK
<1> QED
  BY <1>1, Invariance, PTL

(* An upload shown as done has put its analysis into the CV, for any       *)
(* number of uploads, crashes, failing saves and polls.                    *)
THEOREM DoneMeansSaved == Spec => []DoneWasSaved
<1>1. IInv => DoneWasSaved
  BY DEF IInv, Sound, Shown, DoneWasSaved
<1> QED
  BY <1>1, Invariance, PTL

(* Told that the file was unreadable or too slow to analyse, a user still  *)
(* has the CV of before; told anything else after a change, there was a    *)
(* fault.                                                                  *)
THEOREM FailureKeepsCv == Spec => []FailureLeavesCv
<1>1. IInv => FailureLeavesCv
  BY DEF IInv, Sound, Shown, FailureLeavesCv
<1> QED
  BY <1>1, Invariance, PTL

(* The end of an upload that the app was shown stays until the cleanup     *)
(* removes the row: whoever saves a row that has ended holds no older copy *)
(* of it.                                                                  *)
THEOREM EndsAreFinal == Spec => EndIsFinal
<1>1. ASSUME IInv, [Next]_vars, NEW u \in Uploads, uploads[u].status \in {"done", "failed"}
      PROVE  uploads'[u] \in {uploads[u], NoRow}
  <2>1. uploads \in [Uploads -> Row] /\ Owned(u) /\ Held(u)
    BY <1>1 DEF IInv, Types, Sound
  <2>2. uploads[u].status # "absent" /\ uploads[u].status # "parsing"
    BY <1>1
  <2>3. job[u].at \notin Working \cup {"idle", "stored"} /\ poll[u].at # "overdue"
    BY <2>1, <2>2 DEF Owned, Held, NoRow
  <2>4. ASSUME NEW v \in Uploads, Process(v)
        PROVE  uploads'[u] = uploads[u]
    BY <2>1, <2>3, <2>4 DEF Working, Process, InsertRow, ReadRow, SaveStage, Analyze, Unreadable,
       AnalysisThrows, SaveAnalysis, SaveDone, SaveFailed, DeleteFile
  <2>5. ASSUME NEW v \in Uploads, Polling(v)
        PROVE  uploads'[u] = uploads[u]
    BY <2>1, <2>3, <2>5 DEF Polling, PollReads, PollSaves
  <2>6. ASSUME NEW v \in Uploads, Purge(v)
        PROVE  uploads'[u] \in {uploads[u], NoRow}
    BY <2>1, <2>6 DEF Purge
  <2>7. ASSUME NEW v \in Uploads, StoreFile(v) \/ GrowOverdue(v) \/ Expire(v)
        PROVE  uploads'[u] = uploads[u]
    BY <2>7 DEF StoreFile, GrowOverdue, Expire
  <2>8. CASE FindExpired \/ Crash \/ UNCHANGED vars
    BY <2>8 DEF FindExpired, Crash, vars
  <2> QED
    BY <1>1, <2>4, <2>5, <2>6, <2>7, <2>8 DEF Next
<1>2. IInv /\ [Next]_vars =>
        [\A u \in Uploads : uploads[u].status \in {"done", "failed"}
            => uploads'[u] \in {uploads[u], NoRow}]_vars
  BY <1>1
<1> QED
  BY <1>2, Invariance, PTL DEF Spec, EndIsFinal
=============================================================================
