------------------------------ MODULE Ingestion ------------------------------
(***************************************************************************)
(* Fetching jobs for the role groups users ask about: src/modules/jobs,    *)
(* JobIngestionService and JobsService.ensureRoleIngested, on JobIndex.    *)
(*                                                                         *)
(* A row of role_ingestion_cache per role group and country is cache entry *)
(* and queue entry at once: a match request sets it to `pending`; a sweep  *)
(* takes the oldest few pending rows, calls the provider once per keyword  *)
(* while the country's budget lasts, stores what it returns, and writes    *)
(* the row back as `fresh` or `failed`.  job_search_calls counts the calls *)
(* and is the budget.                                                      *)
(*                                                                         *)
(* A sweep starts every few seconds, also while one is going on; a flag    *)
(* per process keeps it out.  The seed script is a process of its own.     *)
(* A group here is a group in one country; the provider stays the same.    *)
(***************************************************************************)
EXTENDS JobIndex

CONSTANTS
    Groups, Countries,
    CountryOf,      \* of each group
    Supported,      \* countries the provider is configured for
    KEYWORDS,       \* keywords of a group, each owned by a role
    MAX_CALLS,      \* jobs.joobleMaxCalls
    BATCH_SIZE,
    Sweeps,         \* calls of runSweepOnce; they are the writers, and enrich at their end
    Processes,      \* processes that sweep
    ProcessOf,      \* of each sweep
    Asks,           \* calls of ensureRoleIngested
    MaxFaults       \* bound: crashes and errors of a behaviour

ASSUME IngestionAssumption ==
    /\ CountryOf \in [Groups -> Countries] /\ Supported \subseteq Countries
    /\ ProcessOf \in [Sweeps -> Processes]
    /\ IsFiniteSet(Processes) /\ Processes # {}
    /\ Writers = Sweeps /\ Sweeps \subseteq Enrichers
    /\ KEYWORDS \in Nat /\ MAX_CALLS \in Nat /\ BATCH_SIZE \in Nat \ {0} /\ MaxFaults \in Nat

VARIABLES
    cache,      \* role_ingestion_cache: the status of each group
    aged,       \* fresh groups older than the TTL
    pending,    \* the pending groups, by updatedAt
    recorded,   \* rows of job_search_calls for each country
    calls,      \* calls that did go out
    sweeping,   \* processes whose flag is set
    sweep,      \* the local state of each sweep
    ask,        \* of each call of ensureRoleIngested
    faults

vars == <<indexVars, cache, aged, pending, recorded, calls, sweeping, sweep, ask, faults>>

(* The rows of job_search_calls are counted, whether succeeded or not.     *)
Ledger == [Countries -> Nat]

Statuses == {"absent", "pending", "fresh", "failed"}

Sweep == [at : {"idle", "group", "skip", "keyword", "call", "record", "store", "upsert",
                "recordFailure", "enrich", "enriching"},
          todo : Seq(Groups), keyword : 0 .. KEYWORDS + 1, allSucceeded : BOOLEAN]
NoSweep == [at |-> "idle", todo |-> <<>>, keyword |-> 0, allSucceeded |-> TRUE]

Ask   == [at : {"idle", "create", "requeue"}, group : Groups \cup {None}]
NoAsk == [at |-> "idle", group |-> None]

Init ==
    /\ IndexInit
    /\ cache = [g \in Groups |-> "absent"]
    /\ aged = {} /\ pending = <<>>
    /\ recorded = [c \in Countries |-> 0] /\ calls = [c \in Countries |-> 0]
    /\ sweeping = {}
    /\ sweep = [s \in Sweeps |-> NoSweep]
    /\ ask = [a \in Asks |-> NoAsk]
    /\ faults = 0

Fault == faults < MaxFaults /\ faults' = faults + 1

(* The queue without g.                                                    *)
Without(g) ==
    LET place == CHOOSE i \in DOMAIN pending : pending[i] = g
    IN  IF cache[g] # "pending" THEN pending
        ELSE SubSeq(pending, 1, place - 1) \o SubSeq(pending, place + 1, Len(pending))

(* saveCache: a row that becomes pending is the youngest of them.          *)
SaveStatus(g, status) ==
    /\ cache' = [cache EXCEPT ![g] = status]
    /\ pending' = IF status # "pending" THEN Without(g)
                  ELSE IF cache[g] = "pending" THEN pending ELSE Append(pending, g)
    /\ aged' = aged \ {g}

table == <<cache, aged, pending>>
ledger == <<recorded, calls>>

-----------------------------------------------------------------------------
(* ensureRoleIngested, at any match request or from the seed script.       *)

(* Neither queued already nor fresh enough.                                *)
Wanted(g) == cache[g] = "failed" \/ (cache[g] = "fresh" /\ g \in aged)

AskReads(a, g) ==
    /\ ask[a] = NoAsk
    /\ \/ cache[g] = "absent" /\ ask' = [ask EXCEPT ![a] = [at |-> "create", group |-> g]]
       \/ Wanted(g) /\ ask' = [ask EXCEPT ![a] = [at |-> "requeue", group |-> g]]
    /\ UNCHANGED <<indexVars, table, ledger, sweeping, sweep, faults>>

(* A row created meanwhile makes this insert fail: one row per group.      *)
AskSaves(a) ==
    /\ ask[a].at # "idle"
    /\ IF ask[a].at = "create" /\ cache[ask[a].group] # "absent"
       THEN UNCHANGED table
       ELSE SaveStatus(ask[a].group, "pending")
    /\ ask' = [ask EXCEPT ![a] = NoAsk]
    /\ UNCHANGED <<indexVars, ledger, sweeping, sweep, faults>>

Age(g) ==
    /\ cache[g] = "fresh" /\ g \notin aged
    /\ aged' = aged \cup {g}
    /\ UNCHANGED <<indexVars, cache, pending, ledger, sweeping, sweep, ask, faults>>

-----------------------------------------------------------------------------
(* runSweepOnce and sweep.                                                 *)

(* Mutant of Sweeping: the timer does not look at the flag.                *)
NeverSweeping(s) == FALSE

Sweeping(s) == ProcessOf[s] \in sweeping

(* Mutant of Oldest: the youngest pending groups.                          *)
Youngest == SubSeq(pending, IF Len(pending) > BATCH_SIZE THEN Len(pending) - BATCH_SIZE + 1 ELSE 1, Len(pending))

(* findPendingCache.                                                       *)
Oldest == SubSeq(pending, 1, IF Len(pending) > BATCH_SIZE THEN BATCH_SIZE ELSE Len(pending))

SweepStarts(s) ==
    /\ sweep[s].at = "idle" /\ ~Sweeping(s)
    /\ pending # <<>>
    /\ sweeping' = sweeping \cup {ProcessOf[s]}
    /\ sweep' = [sweep EXCEPT ![s] = [NoSweep EXCEPT !.at = "group", !.todo = Oldest]]
    /\ UNCHANGED <<indexVars, table, ledger, ask, faults>>

Group(s) == Head(sweep[s].todo)

Goes(s, at) == sweep' = [sweep EXCEPT ![s].at = at]
NextGroup(s) == sweep' = [sweep EXCEPT ![s] = [NoSweep EXCEPT !.at = "group", !.todo = Tail(sweep[s].todo)]]
NextKeyword(s, succeeded) ==
    sweep' = [sweep EXCEPT ![s].at = "keyword", ![s].keyword = @ + 1,
                           ![s].allSucceeded = @ /\ succeeded]

(* Mutant of HasBudget: one call more.                                     *)
HasBudgetAtMost(c) == recorded[c] <= MAX_CALLS

HasBudget(c) == recorded[c] < MAX_CALLS

(* A group of a country without provider or budget is given up at once.    *)
TakeGroup(s) ==
    /\ sweep[s].at = "group"
    /\ IF sweep[s].todo = <<>> THEN Goes(s, "enrich")
       ELSE IF CountryOf[Group(s)] \in Supported /\ HasBudget(CountryOf[Group(s)])
            THEN sweep' = [sweep EXCEPT ![s].at = "keyword", ![s].keyword = 1]
            ELSE Goes(s, "skip")
    /\ UNCHANGED <<indexVars, table, ledger, sweeping, ask, faults>>

SkipGroup(s) ==
    /\ sweep[s].at = "skip"
    /\ SaveStatus(Group(s), "failed")
    /\ NextGroup(s)
    /\ UNCHANGED <<indexVars, ledger, sweeping, ask, faults>>

-----------------------------------------------------------------------------
(* ingestGroup.                                                            *)

(* The budget is looked at before every keyword; without it the rest of    *)
(* the group is not called for.                                            *)
CheckBudget(s) ==
    /\ sweep[s].at = "keyword" /\ sweep[s].keyword <= KEYWORDS
    /\ IF HasBudget(CountryOf[Group(s)]) THEN Goes(s, "call")
       ELSE sweep' = [sweep EXCEPT ![s].keyword = KEYWORDS + 1, ![s].allSucceeded = FALSE]
    /\ UNCHANGED <<indexVars, table, ledger, sweeping, ask, faults>>

Search(s) ==
    /\ sweep[s].at = "call"
    /\ calls' = [calls EXCEPT ![CountryOf[Group(s)]] = @ + 1]
    /\ Goes(s, "record") \/ Goes(s, "recordFailure")
    /\ UNCHANGED <<indexVars, table, recorded, sweeping, ask, faults>>

Recorded(s) == recorded' = [recorded EXCEPT ![CountryOf[Group(s)]] = @ + 1]

RecordCall(s) ==
    /\ sweep[s].at = "record"
    /\ \/ Recorded(s) /\ Goes(s, "store") /\ UNCHANGED faults
       \/ Fault /\ Goes(s, "recordFailure") /\ UNCHANGED recorded
    /\ UNCHANGED <<indexVars, table, calls, sweeping, ask>>

(* upsertProviderJobs of a result with one posting, or with none in the    *)
(* market.                                                                 *)
Store(s) ==
    /\ sweep[s].at = "store"
    /\ \/ NextKeyword(s, TRUE) /\ UNCHANGED upsert
       \/ UpsertReads(s) /\ Goes(s, "upsert")
    /\ UNCHANGED <<jobs, enrich, table, ledger, sweeping, ask, faults>>

StoreSaves(s) ==
    /\ sweep[s].at = "upsert"
    /\ UpsertSaves(s) \/ UpsertClears(s)
    /\ IF upsert'[s] = NoUpsert THEN NextKeyword(s, TRUE) ELSE UNCHANGED sweep
    /\ UNCHANGED <<enrich, table, ledger, sweeping, ask, faults>>

(* An error of the database between the call's record and the end of its   *)
(* storing: the call is recorded once more, as failed.                     *)
StoreThrows(s) ==
    /\ sweep[s].at \in {"store", "upsert"}
    /\ \/ Fault
       \/ upsert[s].at = "save" /\ UpsertCollides(s) /\ UNCHANGED faults
    /\ upsert' = [upsert EXCEPT ![s] = NoUpsert]
    /\ Goes(s, "recordFailure")
    /\ UNCHANGED <<jobs, enrich, table, ledger, sweeping, ask>>

RecordFailure(s) ==
    /\ sweep[s].at = "recordFailure"
    /\ Recorded(s)
    /\ NextKeyword(s, FALSE)
    /\ UNCHANGED <<indexVars, table, calls, sweeping, ask, faults>>

CloseGroup(s) ==
    /\ sweep[s].at = "keyword" /\ sweep[s].keyword > KEYWORDS
    /\ SaveStatus(Group(s), IF sweep[s].allSucceeded THEN "fresh" ELSE "failed")
    /\ NextGroup(s)
    /\ UNCHANGED <<indexVars, ledger, sweeping, ask, faults>>

-----------------------------------------------------------------------------
(* The end of a sweep.                                                     *)

(* Mutant of SweepEnds: the `finally` that clears the flag is missing.     *)
SweepEndsFlagged(s) == sweep' = [sweep EXCEPT ![s] = NoSweep] /\ UNCHANGED sweeping

SweepEnds(s) == sweep' = [sweep EXCEPT ![s] = NoSweep] /\ sweeping' = sweeping \ {ProcessOf[s]}

SweepEnriches(s) ==
    /\ \/ /\ sweep[s].at = "enrich" /\ EnrichFinds(s)
          /\ Goes(s, "enriching") /\ UNCHANGED sweeping
       \/ /\ sweep[s].at = "enriching" /\ enrich[s] # Nothing
          /\ \E j \in Postings : EnrichSaves(s, j)
          /\ UNCHANGED <<sweep, sweeping>>
       \/ /\ sweep[s].at = "enriching" /\ enrich[s] = Nothing
          /\ SweepEnds(s) /\ UNCHANGED indexVars
    /\ UNCHANGED <<table, ledger, ask, faults>>

(* An error where nothing catches it: the sweep is over, its group stays   *)
(* pending, and a call that went out may not be recorded.                  *)
SweepThrows(s) ==
    /\ sweep[s].at \in {"group", "skip", "keyword", "recordFailure", "enrich", "enriching"}
    /\ Fault
    /\ SweepEnds(s)
    /\ IF enrich[s] = Nothing THEN UNCHANGED indexVars ELSE EnrichThrows(s)
    /\ UNCHANGED <<table, ledger, ask>>

(* A match request enriches too.                                           *)
MatchEnriches(e) ==
    /\ e \notin Sweeps
    /\ (EnrichFinds(e) /\ Unenriched # {}) \/ \E j \in Postings : EnrichSaves(e, j)
    /\ UNCHANGED <<table, ledger, sweeping, sweep, ask, faults>>

MatchEnrichThrows(e) ==
    /\ e \notin Sweeps
    /\ Fault /\ EnrichThrows(e)
    /\ UNCHANGED <<table, ledger, sweeping, sweep, ask>>

Crash(p) ==
    /\ Fault
    /\ sweeping' = sweeping \ {p}
    /\ sweep' = [s \in Sweeps |-> IF ProcessOf[s] = p THEN NoSweep ELSE sweep[s]]
    /\ upsert' = [s \in Sweeps |-> IF ProcessOf[s] = p THEN NoUpsert ELSE upsert[s]]
    /\ enrich' = [e \in Enrichers |-> IF e \in Sweeps /\ ProcessOf[e] # p THEN enrich[e] ELSE Nothing]
    /\ ask' = [a \in Asks |-> NoAsk]
    /\ UNCHANGED <<jobs, table, ledger>>

-----------------------------------------------------------------------------
SweepStep(s) ==
    SweepStarts(s) \/ TakeGroup(s) \/ SkipGroup(s) \/ CheckBudget(s) \/ Search(s) \/ RecordCall(s)
    \/ Store(s) \/ StoreSaves(s) \/ RecordFailure(s) \/ CloseGroup(s) \/ SweepEnriches(s)

Next ==
    \/ \E a \in Asks, g \in Groups : AskReads(a, g)
    \/ \E a \in Asks : AskSaves(a)
    \/ \E g \in Groups : Age(g)
    \/ \E s \in Sweeps : SweepStep(s) \/ StoreThrows(s) \/ SweepThrows(s)
    \/ \E e \in Enrichers : MatchEnriches(e) \/ MatchEnrichThrows(e)
    \/ \E p \in Processes : Crash(p)

Spec == Init /\ [][Next]_vars

(* The timer fires every SWEEP_INTERVAL_MS, and every call a sweep makes   *)
(* ends.                                                                   *)
Fairness == WF_vars(\E s \in Sweeps : SweepStep(s) \/ (StoreThrows(s) /\ faults' = faults))

FairSpec == Spec /\ Fairness

-----------------------------------------------------------------------------
(* Properties.                                                             *)

(* Every variable keeps its type, a group is in the queue exactly while    *)
(* its row is pending, and a process has its flag set exactly while it     *)
(* sweeps (a flag left behind would end all fetching).                     *)
TypeOK ==
    /\ IndexTypeOK
    /\ cache \in [Groups -> Statuses] /\ aged \subseteq Groups
    /\ pending \in Seq(Groups)
    /\ \A g \in Groups : cache[g] = "pending" <=> Cardinality({i \in DOMAIN pending : pending[i] = g}) = 1
    /\ recorded \in Ledger /\ calls \in [Countries -> Nat]
    /\ sweeping = {ProcessOf[s] : s \in {t \in Sweeps : sweep[t].at # "idle"}}
    /\ sweep \in [Sweeps -> Sweep]
    /\ ask \in [Asks -> Ask]
    /\ faults \in 0 .. MaxFaults

(* "Every call is budget-checked first and logged either way"              *)
(* (job-ingestion.service.ts:26): no more calls go out than the country's  *)
(* key allows, but for one per call whose record was lost in an error or a *)
(* crash and one per further process (each checks before it records).      *)
BudgetHolds ==
    \A c \in Countries : calls[c] <= MAX_CALLS + faults + Cardinality(Processes) - 1

(* "Never run two at once, or a pending group would be fetched (and paid   *)
(* for) twice" (line 34): no two sweeps of a process have one group before *)
(* them.                                                                   *)
NotFetchedTwice ==
    \A s, t \in Sweeps : (s # t /\ ProcessOf[s] = ProcessOf[t]) =>
        \A i \in DOMAIN sweep[s].todo, k \in DOMAIN sweep[t].todo : sweep[s].todo[i] # sweep[t].todo[k]

(* The app polls while a group is `pending`: it does not stay so, through  *)
(* crashes and errors, however long the queue and often others are asked   *)
(* for (findPendingCache's order).                                         *)
EveryGroupEnds ==
    \A g \in Groups : (cache[g] = "pending") ~> (cache[g] # "pending")
=============================================================================
