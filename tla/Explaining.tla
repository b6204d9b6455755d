------------------------------ MODULE Explaining ------------------------------
(***************************************************************************)
(* What the explanations of a batch of jobs may say:                       *)
(* src/ai/services/job-match.service.ts, explainBatch.                     *)
(*                                                                         *)
(* The model is asked up to MAX_ATTEMPTS (3) times, each time for the jobs *)
(* that have no valid explanation yet; code validates its reply item by    *)
(* item and line by line.  Matching's BatchLands saves what comes out and  *)
(* leaves open only for which jobs.                                        *)
(*                                                                         *)
(* A line is whether it is Arabic, whether all its facts are the           *)
(* candidate's (isTraceableReason), the least number of years it names     *)
(* (NoYears without) and whether it asks for a junior.  A candidate is its *)
(* years (NoYears when unknown) and whether it is past junior.  A reply is *)
(* its items; one that failed or is not the JSON asked for has none.       *)
(***************************************************************************)
EXTENDS Integers, Sequences, FiniteSets

NoYears == -1

Arabic(lines) == {line \in lines : line.arabic}

(* Reasons, but none in Arabic: asked again rather than kept as a non-fit. *)
OnlyEnglish(item) == item.whyMatch # {} /\ Arabic(item.whyMatch) = {}

Valid(item, wanted) == item.wellFormed /\ item.jobId \in wanted /\ ~OnlyEnglish(item)

(* The items that count are the first valid ones of their jobs: a further  *)
(* one is a duplicate.                                                     *)
Counts(items, wanted, i) ==
    /\ Valid(items[i], wanted)
    /\ \A k \in 1 .. i - 1 : ~(Valid(items[k], wanted) /\ items[k].jobId = items[i].jobId)

Answered(items, wanted) == {items[i].jobId : i \in {k \in DOMAIN items : Valid(items[k], wanted)}}

(* dropMetYearsGaps and dropJuniorGaps.                                    *)
Met(gap, candidate) ==
    \/ candidate.years # NoYears /\ gap.years # NoYears /\ gap.years <= candidate.years
    \/ candidate.pastJunior /\ gap.junior

Explanation(item, candidate) ==
    [whyMatch |-> {line \in Arabic(item.whyMatch) : line.traced},
     gaps |-> {gap \in Arabic(item.gaps) : ~Met(gap, candidate)}]

(* One attempt.                                                            *)
ReadReply(explained, batch, items, candidate) ==
    LET wanted == batch \ DOMAIN explained
        answered == Answered(items, wanted)
        of(j) == items[CHOOSE i \in DOMAIN items : items[i].jobId = j /\ Counts(items, wanted, i)]
    IN  [j \in DOMAIN explained \cup answered |->
            IF j \in DOMAIN explained THEN explained[j] ELSE Explanation(of(j), candidate)]

(* explainBatch: MAX_ATTEMPTS of them; one with nothing missing is not     *)
(* made, and would add nothing.                                            *)
ExplainBatch(batch, replies, candidate) ==
    LET first  == ReadReply([j \in {} |-> {}], batch, replies[1], candidate)
        second == ReadReply(first, batch, replies[2], candidate)
    IN  ReadReply(second, batch, replies[3], candidate)

-----------------------------------------------------------------------------
(* Every explanation is of a job that was asked for, every line shown is   *)
(* Arabic, every reason the candidate's own ("never shown", line 283), and *)
(* no gap one the candidate meets.                                         *)
Honest(batch, explained, candidate) ==
    /\ DOMAIN explained \subseteq batch
    /\ \A j \in DOMAIN explained :
        /\ \A line \in explained[j].whyMatch : line.arabic /\ line.traced
        /\ \A gap \in explained[j].gaps : gap.arabic /\ ~Met(gap, candidate)

(* "Passing it through with no reasons would cache it as a non-fit" (line  *)
(* 136): a job the reply gives only English reasons for stays unexplained. *)
NotCachedForLanguage(items, explained, after) ==
    \A j \in DOMAIN after \ DOMAIN explained :
        \E i \in DOMAIN items : items[i].jobId = j /\ items[i].wellFormed /\ ~OnlyEnglish(items[i])
=============================================================================
