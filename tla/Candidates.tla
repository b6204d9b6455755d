------------------------------ MODULE Candidates ------------------------------
(***************************************************************************)
(* Whom jobs are matched for: src/modules/matching/candidate-profile.ts    *)
(* and src/modules/jobs/roles.ts, with resolveTargetRole of                *)
(* src/modules/jobs/jobs.service.ts.                                       *)
(*                                                                         *)
(* A CV is its name, its title, its past titles and skills, and the months *)
(* each experience lasted (0 when its dates cannot be read or do not       *)
(* follow each other).  An upload's analysis has a CV of its own, and      *)
(* skills, years (in tenths), a seniority and domains.  Blank is any text  *)
(* that is missing; names and titles differ in more than case.  A CV, an   *)
(* analysis or a candidate that may be missing is a set of at most one.    *)
(*                                                                         *)
(* A title is its words.  The curated roles are their phrases in the order *)
(* of the list: the role, the words, and how long the phrase is.           *)
(***************************************************************************)
EXTENDS Integers, Sequences

Blank      == ""
YearsBlank == -1

-----------------------------------------------------------------------------
(* yearsFromExperience: whole years, rounded.                              *)
YearsOf(spans) ==
    LET months[n \in 0 .. Len(spans)] == IF n = 0 THEN 0 ELSE months[n - 1] + spans[n]
    IN  IF \A n \in DOMAIN spans : spans[n] = 0 THEN YearsBlank
        ELSE (months[Len(spans)] + 6) \div 12

SeniorityOf(years, hasExperience) ==
    IF ~hasExperience \/ years = YearsBlank \/ years < 2 THEN "junior"
    ELSE IF years < 5 THEN "mid" ELSE "senior"

(* The analysis, unless the CV names somebody else.                        *)
Usable(cvs, analyses) ==
    {analysis \in analyses : \A cv \in cvs : cv.name \in {Blank, analysis.cv.name}}

(* The device's CV, else the analysis's.                                   *)
Basis(cvs, analyses) == IF cvs # {} THEN cvs ELSE {analysis.cv : analysis \in Usable(cvs, analyses)}

Skills(cv, usable) ==
    IF cv.skills # {} THEN cv.skills ELSE UNION {analysis.skills : analysis \in usable}

(* The analysis's seniority, else one from the years.                      *)
Seniority(usable, years, hasExperience) ==
    LET rated == {analysis.seniority : analysis \in usable} \ {Blank}
    IN  IF rated = {} THEN SeniorityOf(years, hasExperience) ELSE CHOOSE value \in rated : TRUE

Years(cv, usable) ==
    IF usable = {} THEN YearsOf(cv.spans)
    ELSE CHOOSE years \in {IF analysis.years = YearsBlank THEN YearsBlank
                           ELSE (analysis.years + 5) \div 10 : analysis \in usable} : TRUE

CandidateOf(cv, usable) ==
    [title |-> cv.title, past |-> cv.past, skills |-> Skills(cv, usable),
     years |-> Years(cv, usable),
     seniority |-> Seniority(usable, Years(cv, usable), cv.past # <<>>),
     domains |-> UNION {analysis.domains : analysis \in usable}]

(* buildMatchCandidate: nobody without a title, a past title or a skill.   *)
MatchCandidate(cvs, analyses) ==
    {candidate \in {CandidateOf(cv, Usable(cvs, analyses)) : cv \in Basis(cvs, analyses)} :
        candidate.title # Blank \/ candidate.past # <<>> \/ candidate.skills # {}}

-----------------------------------------------------------------------------
NoRole == "no role"

(* The phrase stands in the title as whole words.                          *)
Says(title, phrase) ==
    \E k \in 0 .. Len(title) - Len(phrase.words) :
        \A i \in DOMAIN phrase.words : title[k + i] = phrase.words[i]

(* resolveRoleFromCvTitle: one pass over the phrases, keeping the best.    *)
ResolveRole(phrases, title) ==
    LET length(n) == IF n = 0 THEN 0 ELSE phrases[n].length
        best[n \in 0 .. Len(phrases)] ==
            IF n = 0 THEN 0
            ELSE IF Says(title, phrases[n]) /\ phrases[n].length > length(best[n - 1]) THEN n
            ELSE best[n - 1]
        chosen == best[Len(phrases)]
    IN  IF chosen = 0 THEN NoRole ELSE phrases[chosen].role

(* resolveTargetRole: the headline's, else that of the first past title    *)
(* that has one.                                                           *)
TargetRole(phrases, headline, past) ==
    LET resolved == {i \in DOMAIN past : ResolveRole(phrases, past[i]) # NoRole}
    IN  IF ResolveRole(phrases, headline) # NoRole THEN ResolveRole(phrases, headline)
        ELSE IF resolved = {} THEN NoRole
        ELSE ResolveRole(phrases, past[CHOOSE i \in resolved : \A k \in resolved : i <= k])

-----------------------------------------------------------------------------
(* "That old analysis must not leak into the new CV's matches"             *)
(* (candidate-profile.ts:79): beside a CV that names somebody else it      *)
(* changes nothing.                                                        *)
NoLeak(cvs, analyses) ==
    (\E cv \in cvs : cv.name # Blank /\ \A analysis \in analyses : analysis.cv.name # cv.name)
        => MatchCandidate(cvs, analyses) = MatchCandidate(cvs, {})

(* "The confirmed CV is the source of truth" (line 76): what an analysis   *)
(* adds never replaces what the user's own CV says.                        *)
CvIsTruth(cvs, analyses) ==
    \A candidate \in MatchCandidate(cvs, analyses) : \A cv \in cvs :
        /\ candidate.title = cv.title /\ candidate.past = cv.past
        /\ cv.skills # {} => candidate.skills = cv.skills

(* "The longest matching phrase wins, and among equally long ones the      *)
(* first role in the list" (roles.ts:238-240).                             *)
MostSpecific(phrases, title) ==
    LET said == {i \in DOMAIN phrases : Says(title, phrases[i])}
    IN  IF said = {} THEN ResolveRole(phrases, title) = NoRole
        ELSE \E i \in said :
                /\ ResolveRole(phrases, title) = phrases[i].role
                /\ \A k \in said : phrases[k].length < phrases[i].length
                                   \/ (phrases[k].length = phrases[i].length /\ i <= k)
=============================================================================
