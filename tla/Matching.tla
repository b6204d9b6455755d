------------------------------ MODULE Matching ------------------------------
(***************************************************************************)
(* The jobs that match a device's CV: src/modules/matching, with the runs  *)
(* of src/ai/services/job-match.service.ts.                                *)
(*                                                                         *)
(* GET /matches computes one answer at a time for a device: it loads the   *)
(* CV, embeds it when it changed (dropping the explanations of the older   *)
(* CV), searches jobs, and shows those the model has explained.  Jobs not  *)
(* explained yet start a run in the background, batch by batch; the answer *)
(* waits for the first batch only, and later polls find the rest in the    *)
(* cache.                                                                  *)
(*                                                                         *)
(* A CV is its hash (hashCandidate).  An explanation is the CV it was made *)
(* for; whether it makes the job a fit is left out, as a non-fit is cached *)
(* like the others.  Which jobs a search finds is free.  One device:       *)
(* nothing here is shared between devices.                                 *)
(***************************************************************************)
EXTENDS Integers, Sequences, FiniteSets

CONSTANTS
    Requests,       \* calls of GET /matches; a run has the name of the call that started it
    Hashes,         \* the contents the CV may have
    Jobs,           \* numbered, the closest to the CV first
    BATCH_SIZE,     \* jobs of one prompt
    MAX_CONCURRENT_BATCHES,
    None,           \* no CV, no profile, no explanation, no run
    MaxFaults       \* bound: crashes and errors of a behaviour

ASSUME MatchingAssumption ==
    /\ Jobs \subseteq Nat /\ IsFiniteSet(Jobs)
    /\ BATCH_SIZE \in Nat \ {0} /\ MAX_CONCURRENT_BATCHES \in Nat \ {0}
    /\ None \notin Requests \cup Hashes
    /\ MaxFaults \in Nat

VARIABLES
    cv,         \* what the device's CV is now, None without one
    profile,    \* job_match_profiles: the CV embedded last
    explained,  \* job_match_explanations: of each job, the CV its row was made for
    queue,      \* `inFlight`: the chain of requests, the one that computes first
    request,    \* the local state of each
    explaining, \* `explaining`: the run that goes on, as far as the service knows
    run,        \* every run
    faults

vars == <<cv, profile, explained, queue, request, explaining, run, faults>>

Profile     == Hashes \cup {None}
Explanation == Hashes \cup {None}

Stage   == {"idle", "queued", "profile", "embed", "search", "cache", "decide",
            "race", "first", "read", "end", "done", "failed"}
Ended   == {"done", "failed"}
Request == [at : Stage, hash : Hashes \cup {None}, found : SUBSET Jobs, answer : SUBSET (Jobs \X Hashes)]

Run   == [hash : Hashes \cup {None}, todo : SUBSET Jobs, busy : SUBSET (SUBSET Jobs),
          first : BOOLEAN, failed : BOOLEAN]
NoRun == [hash |-> None, todo |-> {}, busy |-> {}, first |-> FALSE, failed |-> FALSE]

Init ==
    /\ cv \in Hashes \cup {None}
    /\ profile = None
    /\ explained = [j \in Jobs |-> None]
    /\ queue = <<>>
    /\ request = [q \in Requests |-> [at |-> "idle", hash |-> None, found |-> {}, answer |-> {}]]
    /\ explaining = None
    /\ run = [q \in Requests |-> NoRun]
    /\ faults = 0

Fault == faults < MaxFaults /\ faults' = faults + 1

ChangeCv ==
    /\ cv' \in Hashes \ {cv}
    /\ UNCHANGED <<profile, explained, queue, request, explaining, run, faults>>

-----------------------------------------------------------------------------
(* getMatches: a request waits for the one before it, whatever becomes of  *)
(* that one.                                                               *)

Ask(q) ==
    /\ request[q].at = "idle"
    /\ request' = [request EXCEPT ![q].at = "queued"]
    /\ queue' = Append(queue, q)
    /\ UNCHANGED <<cv, profile, explained, explaining, run, faults>>

(* Mutant of Turn: nothing is chained.                                     *)
AnyTurn(q, at) == request[q].at = at

Turn(q, at) == queue # <<>> /\ Head(queue) = q /\ request[q].at = at

Goes(q, at) == request' = [request EXCEPT ![q].at = at] /\ UNCHANGED queue
Ends(q, at) == request' = [request EXCEPT ![q].at = at] /\ queue' = Tail(queue)

-----------------------------------------------------------------------------
(* computeMatches.                                                         *)

(* Without a CV, or with one that names neither title nor skills, an       *)
(* error; for a country without a job source, an empty answer.             *)
Load(q) ==
    /\ Turn(q, "queued")
    /\ \/ Ends(q, "failed")
       \/ Ends(q, "done")
       \/ /\ cv # None
          /\ request' = [request EXCEPT ![q].at = "profile", ![q].hash = cv]
          /\ UNCHANGED queue
    /\ UNCHANGED <<cv, profile, explained, explaining, run, faults>>

(* ensureProfile.                                                          *)
ReadProfile(q) ==
    /\ Turn(q, "profile")
    /\ Goes(q, IF profile = request[q].hash THEN "search" ELSE "embed")
    /\ UNCHANGED <<cv, profile, explained, explaining, run, faults>>

(* replaceProfile, one transaction.                                        *)
ReplaceProfile(q) ==
    /\ Turn(q, "embed")
    /\ profile' = request[q].hash
    /\ explained' = [j \in Jobs |-> IF explained[j] = request[q].hash THEN explained[j] ELSE None]
    /\ Goes(q, "search")
    /\ UNCHANGED <<cv, explaining, run, faults>>

Search(q) ==
    /\ Turn(q, "search")
    /\ \/ Ends(q, "done")
       \/ \E found \in SUBSET Jobs \ {{}} :
            /\ request' = [request EXCEPT ![q].at = "cache", ![q].found = found]
            /\ UNCHANGED queue
    /\ UNCHANGED <<cv, profile, explained, explaining, run, faults>>

(* Mutant of Cached: the rows of the device, whichever CV they are for.    *)
CachedOfAnyCv(q) == {<<j, explained[j]>> : j \in {i \in request[q].found : explained[i] # None}}

(* readCache.                                                              *)
Cached(q) == {<<j, explained[j]>> : j \in {i \in request[q].found : explained[i] = request[q].hash}}

ReadCache(q) ==
    /\ \/ /\ Turn(q, "cache")
          /\ request' = [request EXCEPT ![q].at = "decide", ![q].answer = Cached(q)]
       \/ /\ Turn(q, "read")
          /\ request' = [request EXCEPT ![q].at = "end", ![q].answer = Cached(q)]
    /\ UNCHANGED <<cv, profile, explained, queue, explaining, run, faults>>

Missing(q) == request[q].found \ {pair[1] : pair \in request[q].answer}

(* The b-th batch of a set of jobs.                                        *)
Batch(jobs, b) ==
    {j \in jobs : LET rank == Cardinality({i \in jobs : i <= j})
                  IN  (b - 1) * BATCH_SIZE < rank /\ rank <= b * BATCH_SIZE}

(* Mutant of RunGoesOn: it is not remembered.                              *)
NeverGoesOn == FALSE

RunGoesOn == explaining # None

(* With the cache read: nothing is missing; or a run goes on, and gets a   *)
(* moment; or one is started for what is missing, and each of its workers  *)
(* takes a batch.                                                          *)
Decide(q) ==
    /\ Turn(q, "decide")
    /\ \/ /\ Missing(q) = {}
          /\ Ends(q, "done")
          /\ UNCHANGED <<explaining, run>>
       \/ /\ Missing(q) # {} /\ RunGoesOn
          /\ Goes(q, "race")
          /\ UNCHANGED <<explaining, run>>
       \/ /\ Missing(q) # {} /\ ~RunGoesOn
          /\ LET busy == {Batch(Missing(q), b) : b \in 1 .. MAX_CONCURRENT_BATCHES} \ {{}}
             IN  run' = [run EXCEPT ![q] = [NoRun EXCEPT !.hash = request[q].hash, !.busy = busy,
                                                         !.todo = Missing(q) \ UNION busy]]
          /\ explaining' = q
          /\ Goes(q, "first")
    /\ UNCHANGED <<cv, profile, explained, faults>>

(* The end of the wait: the run's end or FIRST_RESULTS_WAIT_MS, the first  *)
(* batch of one's own run.                                                 *)
Waited(q) ==
    /\ Turn(q, "race") \/ (Turn(q, "first") /\ run[q].first)
    /\ Goes(q, "read")
    /\ UNCHANGED <<cv, profile, explained, explaining, run, faults>>

(* `pending` is looked at after the cache was read; nothing to show and    *)
(* nothing to wait for is an error.                                        *)
Finish(q) ==
    /\ Turn(q, "end")
    /\ Ends(q, IF request[q].answer = {} /\ explaining = None THEN "failed" ELSE "done")
    /\ UNCHANGED <<cv, profile, explained, explaining, run, faults>>

(* An error of the embedding call or of the database.                      *)
RequestThrows(q) ==
    /\ queue # <<>> /\ Head(queue) = q /\ request[q].at \notin {"race", "first", "end"}
    /\ Fault
    /\ Ends(q, "failed")
    /\ UNCHANGED <<cv, profile, explained, explaining, run>>

-----------------------------------------------------------------------------
(* JobMatchService.explain: the workers of a run.                          *)

(* A batch is answered, after up to three tries, for some of its jobs, and *)
(* saved; the worker takes the next one.  The last worker ends the run.    *)
BatchLands(q, batch) ==
    /\ batch \in run[q].busy
    /\ \E answered \in SUBSET batch :
        explained' = [j \in Jobs |-> IF j \in answered THEN run[q].hash ELSE explained[j]]
    /\ LET next == Batch(run[q].todo, 1)
       IN  run' = [run EXCEPT ![q].busy = (@ \ {batch}) \cup ({next} \ {{}}),
                              ![q].todo = @ \ next, ![q].first = TRUE]
    /\ explaining' = IF run'[q].busy = {} /\ ~run[q].failed THEN None ELSE explaining
    /\ UNCHANGED <<cv, profile, queue, request, faults>>

(* Mutant of FirstAfterError: only a batch that is saved releases the      *)
(* request that waits.                                                     *)
NotReleased(q) == run[q].first

(* `finally` releases it too.                                              *)
FirstAfterError(q) == TRUE

(* The save of a batch fails: its worker stops and the run counts as over, *)
(* while the other workers go on.                                          *)
BatchFails(q, batch) ==
    /\ batch \in run[q].busy
    /\ Fault
    /\ run' = [run EXCEPT ![q].busy = @ \ {batch}, ![q].failed = TRUE, ![q].first = FirstAfterError(q)]
    /\ explaining' = IF run[q].failed THEN explaining ELSE None
    /\ UNCHANGED <<cv, profile, explained, queue, request>>

(* Everything in memory is gone.                                           *)
Crash ==
    /\ Fault
    /\ request' = [q \in Requests |-> IF request[q].at = "idle" THEN request[q]
                                      ELSE [request[q] EXCEPT !.at = IF @ \in Ended THEN @ ELSE "failed"]]
    /\ queue' = <<>>
    /\ explaining' = None
    /\ run' = [q \in Requests |-> NoRun]
    /\ UNCHANGED <<cv, profile, explained>>

-----------------------------------------------------------------------------
Compute(q) ==
    Load(q) \/ ReadProfile(q) \/ ReplaceProfile(q) \/ Search(q) \/ ReadCache(q)
            \/ Decide(q) \/ Waited(q) \/ Finish(q)

Next ==
    \/ ChangeCv \/ Crash
    \/ \E q \in Requests : Ask(q) \/ Compute(q) \/ RequestThrows(q)
    \/ \E q \in Requests : \E batch \in run[q].busy : BatchLands(q, batch) \/ BatchFails(q, batch)

Spec == Init /\ [][Next]_vars

(* The event loop runs what is ready; every call a request or a batch      *)
(* makes is bounded (MATCH_CALL_TIMEOUT_MS, FIRST_RESULTS_WAIT_MS).        *)
Fairness ==
    \A q \in Requests :
        /\ WF_vars(Compute(q))
        /\ WF_vars(\E batch \in run[q].busy : BatchLands(q, batch))

FairSpec == Spec /\ Fairness

-----------------------------------------------------------------------------
(* Properties.                                                             *)

(* Every variable keeps its type, and only the first request of the queue  *)
(* computes (getMatches' chain).                                           *)
TypeOK ==
    /\ cv \in Hashes \cup {None} /\ profile \in Profile
    /\ explained \in [Jobs -> Explanation]
    /\ queue \in Seq(Requests)
    /\ request \in [Requests -> Request]
    /\ explaining \in Requests \cup {None}
    /\ run \in [Requests -> Run]
    /\ \A q \in Requests : request[q].at \notin {"idle", "queued"} \cup Ended => q = Head(queue)

(* What a request shows was written for the CV it loaded, although runs of *)
(* an older CV go on and save over the rows of the newer one after         *)
(* replaceProfile dropped them (readCache's profileHash).                  *)
ServedIsCurrent ==
    \A q \in Requests : \A pair \in request[q].answer : pair[2] = request[q].hash

(* "One background run per device at a time" (matching.service.ts:180),    *)
(* apart from what a run that failed leaves behind, and `searching` is     *)
(* never said without a run that will bring more.                          *)
OneRun ==
    {q \in Requests : run[q].busy # {} /\ ~run[q].failed} = {explaining} \ {None}

(* No request waits for ever, neither for the one before it nor for the    *)
(* first batch of a run whose save fails.                                  *)
EveryRequestEnds ==
    \A q \in Requests : (request[q].at = "queued") ~> (request[q].at \in Ended)
=============================================================================
