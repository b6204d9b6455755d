---------------------------- MODULE MatchingProofs ----------------------------
(***************************************************************************)
(* Proofs about Matching, for any requests, CVs, jobs, sizes and faults.   *)
(*                                                                         *)
(* ServedIsCurrent follows from what a request carries: it learns its CV   *)
(* once, before it has an answer, and every answer is read for that CV,    *)
(* whatever the runs write meanwhile.  OneRun follows from where a run     *)
(* begins and ends: it begins only while no run is remembered, with at     *)
(* least one batch, and is forgotten in the step in which its last worker  *)
(* ends or one of them fails.  The types need that only the first of the   *)
(* queue computes, and knows its CV (Chained), and that what the tables    *)
(* hold is for some CV (Stored).                                           *)
(***************************************************************************)
EXTENDS Matching, WellFoundedInduction, FiniteSetTheorems, TLAPS

Carries == [at : Stage, hash : Hashes \cup {None}, found : SUBSET Jobs,
            answer : SUBSET (Jobs \X (Hashes \cup {None}))]

(* What a request carries.  A request before its turn has no answer.       *)
Carried ==
    /\ cv \in Hashes \cup {None}
    /\ request \in [Requests -> Carries]
    /\ \A q \in Requests : request[q].at \in {"idle", "queued"} => request[q].answer = {}
    /\ ServedIsCurrent

Runs ==
    /\ run \in [Requests -> Run]
    /\ explaining \in Requests \cup {None}
    /\ OneRun

Computing(q) == request[q].at \notin {"idle", "queued"} \cup Ended

(* Only the first of the queue computes, and it knows its CV.              *)
Chained ==
    /\ queue \in Seq(Requests)
    /\ \A q \in Requests : Computing(q) =>
            queue # <<>> /\ q = Head(queue) /\ request[q].hash \in Hashes

(* What the tables hold, and what was read of them.                        *)
Stored ==
    /\ profile \in Profile
    /\ explained \in [Jobs -> Explanation]
    /\ \A q \in Requests : request[q].answer \subseteq Jobs \X Hashes

IInv == Carried /\ Runs /\ Chained /\ Stored

-----------------------------------------------------------------------------
(* A run that begins has work for its first worker.                        *)

LEMMA LeastExists ==
    ASSUME NEW S, S \subseteq Nat, S # {}
    PROVE  \E k \in S : \A m \in S : k <= m
<1>1. IsWellFoundedOn(OpToRel(<, Nat), Nat)
  BY NatLessThanWellFounded
<1>2. PICK k \in S : \A m \in S : <<m, k>> \notin OpToRel(<, Nat)
  BY <1>1, WFMin
<1>3. ASSUME NEW m \in S PROVE k <= m
  <2>1. m \in Nat /\ k \in Nat /\ <<m, k>> \in Nat \X Nat
    OBVIOUS
  <2>2. ~(m < k)
    BY <1>2, <2>1 DEF OpToRel
  <2> QED
    BY <2>1, <2>2
<1> QED
  BY <1>3

LEMMA FirstBatchHasAJob ==
    ASSUME NEW jobs, jobs \subseteq Jobs, jobs # {}
    PROVE  Batch(jobs, 1) # {}
<1>1. PICK j \in jobs : \A i \in jobs : j <= i
  BY LeastExists, MatchingAssumption
<1>2. {i \in jobs : i <= j} = {j}
  <2>1. ASSUME NEW i \in jobs, i <= j
        PROVE  i = j
    <3>1. i \in Nat /\ j \in Nat /\ j <= i
      BY <1>1, MatchingAssumption
    <3> QED
      BY <2>1, <3>1
  <2>2. j <= j
    BY <1>1
  <2> QED
    BY <2>1, <2>2
<1>3. Cardinality({i \in jobs : i <= j}) = 1
  BY <1>2, FS_Singleton
<1>4. (1 - 1) * BATCH_SIZE < 1 /\ 1 <= 1 * BATCH_SIZE
  BY MatchingAssumption
<1>5. j \in Batch(jobs, 1)
  BY <1>3, <1>4 DEF Batch
<1> QED
  BY <1>5

LEMMA BatchIsPart ==
    ASSUME NEW jobs, NEW b
    PROVE  Batch(jobs, b) \subseteq jobs
BY DEF Batch

LEMMA InitHolds == Init => IInv
<1> SUFFICES ASSUME Init
             PROVE  IInv
  OBVIOUS
<1>1. Carried
  BY DEF Init, Carried, Carries, ServedIsCurrent, Stage
<1>2. \A q \in Requests : run[q] = NoRun
  BY DEF Init
<1>3. Runs
  BY <1>2 DEF Init, Runs, OneRun, Run, NoRun
<1>4. Chained /\ Stored
  BY DEF Init, Chained, Stored, Computing, Profile, Explanation
<1> QED
  BY <1>1, <1>3, <1>4 DEF IInv

-----------------------------------------------------------------------------
(* The steps of a request: what it carries.                                *)

(* A request that only moves on carries what it did; one that ends too.    *)
LEMMA MovingKeeps ==
    ASSUME Carried, NEW q \in Requests, NEW at \in Stage \ {"idle"},
           request' = [request EXCEPT ![q].at = at],
           at = "queued" => request[q].at = "idle",
           cv' \in Hashes \cup {None}
    PROVE  Carried'
BY DEF Carried, Carries, ServedIsCurrent

LEMMA AskKeeps ==
    ASSUME Carried, NEW q \in Requests, Ask(q)
    PROVE  Carried'
BY MovingKeeps DEF Ask, Stage, Carried

LEMMA LoadKeeps ==
    ASSUME Carried, NEW q \in Requests, Load(q)
    PROVE  Carried'
<1>1. CASE Ends(q, "failed") \/ Ends(q, "done")
  BY <1>1, MovingKeeps DEF Load, Ends, Stage, Carried
<1>2. CASE request' = [request EXCEPT ![q].at = "profile", ![q].hash = cv]
  <2>1. request[q].answer = {}
    BY DEF Load, Turn, Carried
  <2>2. /\ request'[q].at = "profile" /\ request'[q].hash = cv
        /\ request'[q].found = request[q].found /\ request'[q].answer = {}
        /\ \A other \in Requests \ {q} : request'[other] = request[other]
    BY <1>2, <2>1 DEF Carried
  <2>3. request' \in [Requests -> Carries]
    <3>1. request'[q] = [request[q] EXCEPT !.at = "profile", !.hash = cv]
      BY <1>2 DEF Carried
    <3>2. request[q] \in Carries /\ cv \in Hashes \cup {None}
      BY DEF Carried
    <3>3. request'[q] \in Carries
      BY <3>1, <3>2 DEF Carries, Stage
    <3> QED
      BY <1>2, <3>3 DEF Carried
  <2> QED
    BY <2>2, <2>3 DEF Load, Carried, Carries, ServedIsCurrent
<1> QED
  BY <1>1, <1>2 DEF Load

LEMMA SearchKeeps ==
    ASSUME Carried, NEW q \in Requests, Search(q)
    PROVE  Carried'
<1>1. CASE Ends(q, "done")
  BY <1>1, MovingKeeps DEF Search, Ends, Stage, Carried
<1>2. CASE \E found \in SUBSET Jobs \ {{}} :
              request' = [request EXCEPT ![q].at = "cache", ![q].found = found]
  <2>1. PICK found \in SUBSET Jobs : request' = [request EXCEPT ![q].at = "cache", ![q].found = found]
    BY <1>2
  <2>2. /\ request'[q].at = "cache" /\ request'[q].hash = request[q].hash
        /\ request'[q].answer = request[q].answer
        /\ \A other \in Requests \ {q} : request'[other] = request[other]
    BY <2>1 DEF Carried
  <2>3. request' \in [Requests -> Carries]
    <3>1. request'[q] = [request[q] EXCEPT !.at = "cache", !.found = found]
      BY <2>1 DEF Carried
    <3>2. request[q] \in Carries
      BY DEF Carried
    <3>3. request'[q] \in Carries
      BY <3>1, <3>2 DEF Carries, Stage
    <3> QED
      BY <2>1, <3>3 DEF Carried
  <2> QED
    BY <2>2, <2>3 DEF Search, Carried, Carries, ServedIsCurrent
<1> QED
  BY <1>1, <1>2 DEF Search

LEMMA ReadCacheKeeps ==
    ASSUME Carried, NEW q \in Requests, ReadCache(q)
    PROVE  Carried'
<1>1. Cached(q) \subseteq Jobs \X (Hashes \cup {None})
  BY DEF Cached, Carried, Carries
<1>2. \A pair \in Cached(q) : pair[2] = request[q].hash
  BY DEF Cached
<1>3. PICK at \in {"decide", "end"} :
        request' = [request EXCEPT ![q].at = at, ![q].answer = Cached(q)]
  BY DEF ReadCache
<1> HIDE DEF Cached
<1> QED
  BY <1>1, <1>2, <1>3 DEF ReadCache, Carried, Carries, ServedIsCurrent, Stage

LEMMA OtherStepsKeep ==
    ASSUME Carried, NEW q \in Requests,
           ReadProfile(q) \/ ReplaceProfile(q) \/ Decide(q) \/ Waited(q) \/ Finish(q) \/ RequestThrows(q)
    PROVE  Carried'
<1>1. PICK at \in {"search", "embed", "done", "race", "first", "read", "failed"} :
        request' = [request EXCEPT ![q].at = at]
  BY DEF ReadProfile, ReplaceProfile, Decide, Waited, Finish, RequestThrows, Goes, Ends
<1>2. cv' = cv
  BY DEF ReadProfile, ReplaceProfile, Decide, Waited, Finish, RequestThrows
<1> QED
  BY <1>1, <1>2, MovingKeeps DEF Stage, Carried

(* Every step of Matching.                                                 *)
LEMMA StepsCarry ==
    ASSUME Carried, [Next]_vars
    PROVE  Carried'
<1>1. CASE ChangeCv
  BY <1>1 DEF ChangeCv, Carried, Carries, ServedIsCurrent
<1>2. CASE Crash
  <2>1. cv' = cv
    BY <1>2 DEF Crash
  <2>2. ASSUME NEW q \in Requests
        PROVE  /\ request'[q] \in Carries
               /\ request'[q].answer = request[q].answer /\ request'[q].hash = request[q].hash
               /\ request'[q].at = "queued" => request[q].at = "queued"
               /\ request'[q].at = "idle" => request[q].at = "idle"
    BY <1>2 DEF Crash, Carried, Carries, Stage, Ended
  <2>3. request' \in [Requests -> Carries]
    BY <1>2, <2>2 DEF Crash
  <2> QED
    BY <2>1, <2>2, <2>3 DEF Carried, Carries, ServedIsCurrent
<1>3. CASE \E q \in Requests : Ask(q) \/ Compute(q) \/ RequestThrows(q)
  BY <1>3, AskKeeps, LoadKeeps, SearchKeeps, ReadCacheKeeps, OtherStepsKeep DEF Compute
<1>4. CASE \E q \in Requests : \E batch \in run[q].busy : BatchLands(q, batch) \/ BatchFails(q, batch)
  BY <1>4 DEF BatchLands, BatchFails, Carried, Carries, ServedIsCurrent
<1>5. CASE UNCHANGED vars
  BY <1>5 DEF vars, Carried, Carries, ServedIsCurrent
<1> QED
  BY <1>1, <1>2, <1>3, <1>4, <1>5 DEF Next

-----------------------------------------------------------------------------
(* The steps that begin, carry on or end a run.                            *)

LEMMA BeginKeeps ==
    ASSUME IInv, NEW q \in Requests, Decide(q)
    PROVE  Runs'
<1>1. CASE UNCHANGED <<explaining, run>>
  BY <1>1 DEF IInv, Runs, OneRun
<1>2. CASE Missing(q) # {} /\ ~RunGoesOn /\ ~UNCHANGED <<explaining, run>>
  <2> DEFINE batches == {Batch(Missing(q), b) : b \in 1 .. MAX_CONCURRENT_BATCHES}
             busy == batches \ {{}}
             begun == [NoRun EXCEPT !.hash = request[q].hash, !.busy = busy, !.todo = Missing(q) \ UNION busy]
  <2>1. run' = [run EXCEPT ![q] = begun] /\ explaining' = q
    BY <1>2 DEF Decide
  <2>2. Missing(q) \subseteq Jobs /\ request[q].hash \in Hashes \cup {None}
    BY DEF Missing, IInv, Carried, Carries
  <2>3. Batch(Missing(q), 1) \in busy
    BY <1>2, <2>2, FirstBatchHasAJob, MatchingAssumption
  <2>4. busy \subseteq SUBSET Jobs
    BY <2>2, BatchIsPart
  <2> HIDE DEF busy
  <2>5. begun \in Run /\ begun.busy # {} /\ begun.failed = FALSE
    BY <2>2, <2>3, <2>4 DEF Run, NoRun
  <2> HIDE DEF begun
  <2>6. \A other \in Requests : ~(run[other].busy # {} /\ ~run[other].failed)
    BY <1>2 DEF IInv, Runs, OneRun, RunGoesOn
  <2> QED
    BY <2>1, <2>5, <2>6, MatchingAssumption DEF IInv, Runs, OneRun
<1> QED
  BY <1>1, <1>2 DEF Decide

LEMMA LandingKeeps ==
    ASSUME IInv, NEW q \in Requests, NEW batch \in run[q].busy, BatchLands(q, batch)
    PROVE  Runs'
<1> DEFINE next == Batch(run[q].todo, 1)
<1>1. run' = [run EXCEPT ![q].busy = (@ \ {batch}) \cup ({next} \ {{}}),
                         ![q].todo = @ \ next, ![q].first = TRUE]
  BY DEF BatchLands
<1>2. explaining' = IF run'[q].busy = {} /\ ~run[q].failed THEN None ELSE explaining
  BY DEF BatchLands
<1>3. run[q] \in Run /\ next \subseteq Jobs
  BY BatchIsPart DEF IInv, Runs, Run
<1> HIDE DEF next
<1>4. /\ run'[q] \in Run /\ run'[q].failed = run[q].failed
      /\ \A other \in Requests \ {q} : run'[other] = run[other]
      /\ run' \in [Requests -> Run]
  <2> DEFINE busy == (run[q].busy \ {batch}) \cup ({next} \ {{}})
             todo == run[q].todo \ next
  <2>1. /\ \A other \in Requests \ {q} : run'[other] = run[other]
        /\ run'[q] = [run[q] EXCEPT !.busy = busy, !.todo = todo, !.first = TRUE]
    BY <1>1 DEF IInv, Runs
  <2>2. busy \subseteq SUBSET Jobs /\ todo \subseteq Jobs
    BY <1>3 DEF Run
  <2> HIDE DEF busy, todo
  <2>3. run'[q] \in Run /\ run'[q].failed = run[q].failed
    BY <1>3, <2>1, <2>2 DEF Run
  <2> QED
    BY <1>1, <2>1, <2>3 DEF IInv, Runs
<1>5. ~run[q].failed => explaining = q
  BY DEF IInv, Runs, OneRun
<1> QED
  BY <1>2, <1>4, <1>5, MatchingAssumption DEF IInv, Runs, OneRun

LEMMA FailureKeeps ==
    ASSUME IInv, NEW q \in Requests, NEW batch \in run[q].busy, BatchFails(q, batch)
    PROVE  Runs'
<1>1. run' = [run EXCEPT ![q].busy = @ \ {batch}, ![q].failed = TRUE, ![q].first = TRUE]
  BY DEF BatchFails, FirstAfterError
<1>2. explaining' = IF run[q].failed THEN explaining ELSE None
  BY DEF BatchFails
<1>3. /\ run'[q] \in Run /\ run'[q].failed = TRUE
      /\ \A other \in Requests \ {q} : run'[other] = run[other]
      /\ run' \in [Requests -> Run]
  <2>1. /\ \A other \in Requests \ {q} : run'[other] = run[other]
        /\ run'[q] = [run[q] EXCEPT !.busy = run[q].busy \ {batch}, !.failed = TRUE, !.first = TRUE]
    BY <1>1 DEF IInv, Runs
  <2>2. run[q] \in Run /\ run[q].busy \ {batch} \subseteq SUBSET Jobs
    BY DEF IInv, Runs, Run
  <2>3. run'[q] \in Run /\ run'[q].failed = TRUE
    BY <2>1, <2>2 DEF Run
  <2> QED
    BY <1>1, <2>1, <2>3 DEF IInv, Runs
<1>4. ~run[q].failed => explaining = q
  BY DEF IInv, Runs, OneRun
<1> QED
  BY <1>2, <1>3, <1>4, MatchingAssumption DEF IInv, Runs, OneRun

LEMMA StepsRun ==
    ASSUME IInv, [Next]_vars
    PROVE  Runs'
<1>1. CASE Crash
  <2>1. run' = [q \in Requests |-> NoRun] /\ explaining' = None
    BY <1>1 DEF Crash
  <2> QED
    BY <2>1 DEF Runs, OneRun, Run, NoRun
<1>2. CASE UNCHANGED <<explaining, run>>
  BY <1>2 DEF IInv, Runs, OneRun
<1>3. ASSUME NEW q \in Requests, Ask(q) \/ Compute(q) \/ RequestThrows(q)
      PROVE  Runs'
  <2>1. CASE Decide(q)
    BY <2>1, BeginKeeps
  <2>2. CASE ~Decide(q)
    <3>1. UNCHANGED <<explaining, run>>
      BY <1>3, <2>2 DEF Ask, Compute, Load, ReadProfile, ReplaceProfile, Search, ReadCache,
         Waited, Finish, RequestThrows
    <3> QED
      BY <3>1, <1>2
  <2> QED
    BY <2>1, <2>2
<1>4. CASE \E q \in Requests : \E batch \in run[q].busy : BatchLands(q, batch) \/ BatchFails(q, batch)
  BY <1>4, LandingKeeps, FailureKeeps
<1>5. CASE ChangeCv \/ UNCHANGED vars
  BY <1>2, <1>5 DEF ChangeCv, vars
<1> QED
  BY <1>1, <1>3, <1>4, <1>5 DEF Next

-----------------------------------------------------------------------------
(* The queue and the tables.                                               *)

(* A request is added to the queue, the first one goes on, or it leaves.   *)
LEMMA QueueKeeps ==
    ASSUME IInv, NEW q \in Requests, Ask(q) \/ Compute(q) \/ RequestThrows(q), Carried'
    PROVE  Chained'
<1>1. \A other \in Requests \ {q} : request'[other] = request[other]
  BY DEF Ask, Compute, Load, ReadProfile, ReplaceProfile, Search, ReadCache, Decide, Waited,
         Finish, RequestThrows, Goes, Ends, IInv, Carried
<1>2. CASE Ask(q)
  <2>1. ~Computing(q)'
    BY <1>2 DEF Ask, Computing, IInv, Carried, Carries
  <2>2. queue' = Append(queue, q) /\ queue \in Seq(Requests)
    BY <1>2 DEF Ask, IInv, Chained
  <2>3. /\ queue' \in Seq(Requests) /\ queue' # <<>>
        /\ queue # <<>> => Head(queue') = Head(queue)
    BY <2>2
  <2> QED
    BY <1>1, <2>1, <2>3 DEF IInv, Chained, Computing
<1>3. CASE ~Ask(q)
  <2>1. queue # <<>> /\ Head(queue) = q
    BY <1>3 DEF Compute, Load, ReadProfile, ReplaceProfile, Search, ReadCache, Decide, Waited,
           Finish, RequestThrows, Turn
  <2>2. \A other \in Requests \ {q} : ~Computing(other)
    BY <2>1 DEF IInv, Chained
  <2>3. \A other \in Requests \ {q} : ~Computing(other)'
    BY <1>1, <2>2 DEF Computing
  <2>4. CASE queue' = Tail(queue) /\ ~Computing(q)'
    <3>1. queue' \in Seq(Requests)
      BY <2>1, <2>4 DEF IInv, Chained
    <3> QED
      BY <2>3, <2>4, <3>1 DEF Chained
  <2>5. CASE queue' = queue /\ request'[q].hash \in Hashes
    BY <2>1, <2>3, <2>5 DEF IInv, Chained
  <2>6. \/ queue' = Tail(queue) /\ ~Computing(q)'
        \/ queue' = queue /\ request'[q].hash \in Hashes
    <3> DEFINE new == request'[q]
    <3>1. CASE \E at \in Ended : Ends(q, at)
      BY <3>1 DEF Ends, Ended, Computing, IInv, Carried, Carries
    <3>2. CASE Load(q) /\ ~\E at \in Ended : Ends(q, at)
      BY <3>2 DEF Load, Ended, IInv, Carried, Carries
    <3>3. CASE ~Load(q) /\ ~\E at \in Ended : Ends(q, at)
      <4>1. Computing(q)
        BY <1>3, <3>3 DEF Compute, ReadProfile, ReplaceProfile, Search, ReadCache, Decide, Waited,
               Finish, RequestThrows, Turn, Computing, Ended
      <4>2. queue' = queue /\ request'[q].hash = request[q].hash
        BY <1>3, <3>3 DEF Compute, ReadProfile, ReplaceProfile, Search, ReadCache, Decide, Waited,
               Finish, RequestThrows, Goes, Ended, IInv, Carried, Carries
      <4> QED
        BY <4>1, <4>2 DEF IInv, Chained
    <3> QED
      BY <3>1, <3>2, <3>3
  <2> QED
    BY <2>4, <2>5, <2>6
<1> QED
  BY <1>2, <1>3

LEMMA StepsChain ==
    ASSUME IInv, [Next]_vars, Carried'
    PROVE  Chained'
<1>1. CASE Crash
  <2>1. \A q \in Requests : ~Computing(q)'
    BY <1>1 DEF Crash, Computing, Ended, IInv, Carried, Carries
  <2> QED
    BY <1>1, <2>1 DEF Crash, Chained
<1>2. CASE \E q \in Requests : Ask(q) \/ Compute(q) \/ RequestThrows(q)
  BY <1>2, QueueKeeps
<1>3. CASE UNCHANGED <<queue, request>>
  BY <1>3 DEF IInv, Chained, Computing
<1> QED
  BY <1>1, <1>2, <1>3 DEF Next, ChangeCv, BatchLands, BatchFails, vars

LEMMA StepsStore ==
    ASSUME IInv, [Next]_vars, Carried'
    PROVE  Stored'
<1>1. profile' \in Profile /\ explained' \in [Jobs -> Explanation]
  <2>1. CASE \E q \in Requests : ReplaceProfile(q)
    BY <2>1 DEF ReplaceProfile, IInv, Stored, Carried, Carries, Profile, Explanation
  <2>2. CASE \E q \in Requests : \E batch \in run[q].busy : BatchLands(q, batch)
    BY <2>2 DEF BatchLands, IInv, Stored, Runs, Run, Explanation
  <2>3. CASE UNCHANGED <<profile, explained>>
    BY <2>3 DEF IInv, Stored
  <2> QED
    BY <2>1, <2>2, <2>3 DEF Next, ChangeCv, Crash, Ask, Compute, Load, ReadProfile, Search,
       ReadCache, Decide, Waited, Finish, RequestThrows, BatchFails, vars
<1>2. ASSUME NEW q \in Requests
      PROVE  request'[q].answer \subseteq Jobs \X Hashes
  <2>1. CASE ReadCache(q)
    <3>1. request[q].hash \in Hashes /\ request[q].found \subseteq Jobs
      BY <2>1 DEF ReadCache, Turn, Computing, Ended, IInv, Chained, Carried, Carries
    <3>2. Cached(q) \subseteq Jobs \X Hashes
      BY <3>1 DEF Cached
    <3>3. request'[q].answer = Cached(q)
      BY <2>1 DEF ReadCache, IInv, Carried, Carries
    <3> QED
      BY <3>2, <3>3
  <2>2. CASE request'[q].answer = request[q].answer
    BY <2>2 DEF IInv, Stored
  <2>3. ReadCache(q) \/ request'[q].answer = request[q].answer
    <3>1. CASE Crash
      BY <3>1 DEF Crash, IInv, Carried, Carries
    <3>2. ASSUME NEW other \in Requests, Ask(other) \/ Compute(other) \/ RequestThrows(other), ~ReadCache(q)
          PROVE  request'[q].answer = request[q].answer
      BY <3>2 DEF Ask, Compute, Load, ReadProfile, ReplaceProfile, Search, ReadCache, Decide, Waited,
             Finish, RequestThrows, Goes, Ends, IInv, Carried, Carries
    <3>3. CASE UNCHANGED request
      BY <3>3
    <3> QED
      BY <3>1, <3>2, <3>3 DEF Next, ChangeCv, BatchLands, BatchFails, vars
  <2> QED
    BY <2>1, <2>2, <2>3
<1> QED
  BY <1>1, <1>2 DEF Stored

LEMMA Invariance == Spec => []IInv
<1>1. IInv /\ [Next]_vars => IInv'
  BY StepsCarry, StepsRun, StepsChain, StepsStore DEF IInv
<1> QED
  BY <1>1, InitHolds, PTL DEF Spec

-----------------------------------------------------------------------------
(* Whatever runs of older CVs write over the rows, and however requests,   *)
(* runs, crashes and changes of the CV interleave, a request shows only    *)
(* explanations written for the CV it loaded.                              *)
THEOREM ServedForItsCv == Spec => []ServedIsCurrent
<1>1. IInv => ServedIsCurrent
  BY DEF IInv, Carried
<1> QED
  BY <1>1, Invariance, PTL

(* At any time one run at most goes on, apart from the workers a failed    *)
(* one leaves, and the service remembers exactly that one.                 *)
THEOREM OneRunAtATime == Spec => []OneRun
<1>1. IInv => OneRun
  BY DEF IInv, Runs
<1> QED
  BY <1>1, Invariance, PTL
(* Every variable keeps its type, and only the first of the requests that  *)
(* wait for each other computes: a request that ends, fails or is lost in  *)
(* a crash leaves the others waiting for the next one.                     *)
THEOREM TypeCorrect == Spec => []TypeOK
<1>1. ASSUME IInv
      PROVE  TypeOK
  <2>1. request \in [Requests -> Request]
    BY <1>1 DEF IInv, Carried, Carries, Stored, Request
  <2> QED
    BY <1>1, <2>1 DEF IInv, Carried, Runs, Chained, Stored, Computing, TypeOK
<1> QED
  BY <1>1, Invariance, PTL
=============================================================================
