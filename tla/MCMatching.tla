----------------------------- MODULE MCMatching -----------------------------
(* Small instances of Matching for TLC, and of what a batch may answer     *)
(* (Explaining, ReasonGuard), what is found and in which order it is shown *)
(* (Ranking, MatchCards) and whom it is for (Candidates).                  *)
EXTENDS Matching

CONSTANTS q1, q2, q3, h1, h2, none

E == INSTANCE Explaining
C == INSTANCE MatchCards
N == INSTANCE Candidates

Upto(S, n) == UNION {[1 .. k -> S] : k \in 0 .. n}

-----------------------------------------------------------------------------
(* Two jobs, one item or two in the first reply, one at most in the second.*)
Own      == [arabic |-> TRUE, traced |-> TRUE]
Borrowed == [arabic |-> TRUE, traced |-> FALSE]
English  == [arabic |-> FALSE, traced |-> TRUE]
Asks(years, junior) == [arabic |-> TRUE, years |-> years, junior |-> junior]

Items == [wellFormed : BOOLEAN, jobId : {1, 2},
          whyMatch : {{}, {English}, {Own, English}, {Borrowed}},
          gaps : {{}, {Asks(2, FALSE), Asks(7, FALSE), Asks(E!NoYears, TRUE)}}]
Candidates == [years : {E!NoYears, 3}, pastJunior : BOOLEAN]

Whole(reply) == \A i \in DOMAIN reply : reply[i].wellFormed

(* Whatever the replies, the explanations are honest, and a job without a  *)
(* reason in Arabic is left to a later reply (explainBatch).               *)
ASSUME RepliesAreChecked ==
    \A first \in Upto(Items, 2) : \A second \in {r \in Upto(Items, 1) : Whole(r)} :
        \A candidate \in Candidates :
            LET after == E!ReadReply([j \in {} |-> {}], {1, 2}, first, candidate)
            IN  /\ E!Honest({1, 2}, E!ExplainBatch({1, 2}, <<first, second, <<>>>>, candidate), candidate)
                /\ E!NotCachedForLanguage(first, [j \in {} |-> {}], after)

(* Any part of a batch may be explained: what BatchLands leaves open is    *)
(* what explainBatch leaves open.                                          *)
ASSUME AnyPartIsAnswered ==
    {DOMAIN E!ExplainBatch({1, 2}, <<first, second, <<>>>>, [years |-> 3, pastJunior |-> TRUE]) :
        first \in Upto(Items, 1), second \in Upto(Items, 1)} = SUBSET {1, 2}

-----------------------------------------------------------------------------
(* Every list of three listings of two known jobs or of nobody's.          *)
Lists ==
    {[i \in 1 .. 3 |-> [id |-> i, identity |-> kinds[i][1], email |-> kinds[i][2], place |-> kinds[i][3]]] :
        kinds \in [1 .. 3 -> {"a", "b", C!Anonymous} \X BOOLEAN \X {"Cairo", C!Nowhere}]}

(* Collapsing shows every job once, hides no application and loses no      *)
(* place.                                                                  *)
ASSUME CollapsingIsSafe ==
    \A found \in Lists : \A applied \in SUBSET (1 .. 3) :
        /\ C!OneCardEach(found, applied) /\ C!NothingHidden(found, applied)
        /\ C!PlacesKept(found, applied)

-----------------------------------------------------------------------------
(* A CV and an analysis, each perhaps missing, of the same or of another   *)
(* name.                                                                   *)
OwnCvs == [name : {N!Blank, "Mona", "Ali"}, title : {N!Blank, "cook"}, past : {<<>>, <<"waiter">>},
           skills : {{}, {"tea"}}, spans : {<<>>, <<30, 0>>}]
Analyses == [cv : OwnCvs, skills : {{}, {"bread"}}, years : {N!YearsBlank, 25},
             seniority : {N!Blank, "senior"}, domains : {{"food"}}]

ASSUME OldAnalysesStayOut ==
    \A owned \in {{}} \cup {{own} : own \in OwnCvs} : \A analysis \in Analyses :
        N!NoLeak(owned, {analysis}) /\ N!CvIsTruth(owned, {analysis})

(* Titles of up to three words against a list with a phrase inside         *)
(* another and two of one length; the pass finds the most specific.        *)
Phrases == <<[role |-> "teacher", words |-> <<"instructor">>, length |-> 10],
             [role |-> "coach", words |-> <<"gym", "instructor">>, length |-> 14],
             [role |-> "clerk", words |-> <<"entry">>, length |-> 5],
             [role |-> "analyst", words |-> <<"data", "entry">>, length |-> 10]>>

ASSUME RolesAreSpecific ==
    \A title \in Upto({"gym", "instructor", "data", "entry"}, 3) : N!MostSpecific(Phrases, title)

(* A headline that says nothing leaves the first past title that does.     *)
ASSUME PastTitlesCount ==
    N!TargetRole(Phrases, <<"barista">>, <<<<"cook">>, <<"entry">>, <<"instructor">>>>) = "clerk"

-----------------------------------------------------------------------------
G == INSTANCE ReasonGuard

(* A text of some of these words, its parts and numbers; a line of some of *)
(* four terms: a short one, a long one, one that is no fact and a number.  *)
Letters(text) == [text |-> text, short |-> TRUE, spellings |-> {text}]
Word(text)    == [text |-> text, short |-> FALSE, spellings |-> {text}]
Terms == {[number |-> FALSE, value |-> "ml", forms |-> {Letters("ml")}],
          [number |-> FALSE, value |-> "machines", forms |-> {Word("machines"), Word("machine")}],
          [number |-> FALSE, value |-> "experience", forms |-> {Word("experience")}],
          [number |-> TRUE, value |-> "3", forms |-> {}]}
Facts == [words : SUBSET {"ml", "html"}, parts : SUBSET {"ml", "machine", "machine learning"},
          numbers : {{}, {"3"}}]
Short == {[short |-> [text |-> "ml", words |-> {"ml"}, parts |-> {"ml"}],
           long |-> [text |-> "machine learning", words |-> {"machine", "learning"},
                     parts |-> {"machine", "machine learning"}]]}

ASSUME ReasonsAreGrounded ==
    \A text \in Facts :
        /\ G!EitherSpelling(text, Short)
        /\ \A line \in SUBSET Terms, years \in {G!NoYears, "3"} :
            /\ G!NothingInvented(line, text, Short, years, {"experience"})
            /\ G!MoreFactsHelp(line, text, G!CandidateFacts(text, Short), years, {"experience"})

-----------------------------------------------------------------------------
K == INSTANCE Ranking

(* Any of six listings: of the role or only of its group, abroad, in       *)
(* another city, tied in how near they are, and one of another group.      *)
Posted(id, country, city, role, group, near, inMarket) ==
    [id |-> id, country |-> country, workType |-> "on_site", city |-> city, role |-> role, group |-> group,
     searchable |-> TRUE, near |-> near, inMarket |-> inMarket]
Postings == {Posted(1, "EG", "cairo", "cook", "kitchen", 2, TRUE), Posted(2, "EG", K!AnyCity, "baker", "kitchen", 2, TRUE),
             Posted(3, "EG", "giza", "cook", "kitchen", 1, TRUE), Posted(4, "EG", "cairo", "clerk", "office", 3, TRUE),
             Posted(5, "DE", K!AnyCity, "cook", "kitchen", 3, FALSE), Posted(6, "DE", "berlin", "baker", "kitchen", 1, TRUE)}
Wishes == {[country |-> country, city |-> city, workTypes |-> {"on_site"}] :
                country \in {"EG", "DE", K!Worldwide}, city \in {K!AnyCity, "cairo"}}
Targets == {K!NoRole, [code |-> "cook", group |-> "kitchen"]}
Verdicts == [match : {39, 40, 80}, reasons : {TRUE}] \cup {[match |-> 80, reasons |-> FALSE]}

ASSUME AnswersAreOrdered ==
    \A listings \in SUBSET Postings, target \in Targets : \A wish \in {w \in Wishes : K!MaySave(w)} :
        /\ \A listing \in listings : K!GroupsAgree(listing, wish, target)
        /\ \A search \in K!Searches(listings, wish, target, 2) :
            \A verdicts \in [K!Found(search) -> Verdicts] : \A answer \in K!Answers(K!Found(search), verdicts, target) :
                K!ScoreFirst(answer, verdicts) /\ K!AsPreferred(answer, wish)

Keys == [match : {40, 80}, rank : 0 .. 2, near : {1, 2}]
ASSUME SortIsSound == \A a, b, c \in Keys : K!StrictlyOrders(a, b, c)

(* Without preferences a device of no known country is given Egypt's jobs. *)
ASSUME DefaultsAreSourced ==
    /\ K!Sourced(K!Preferences({}, K!NoRegion)) /\ K!MaySave(K!Preferences({}, K!NoRegion))
    /\ ~K!Sourced(K!Preferences({}, "US"))
=============================================================================
