--------------------------- MODULE MCApplications ---------------------------
(* Small instances of Applications for TLC, of the tailoring it calls      *)
(* (Tailoring) and of the CV sent for it (SentCv).                         *)
EXTENDS Applications, Sequences

CONSTANTS j1, j2, j3, q1, q2, q3, s1, s2, p1, p2, v1, v2, none

T == INSTANCE Tailoring

Upto(S, n) == UNION {[1 .. k -> S] : k \in 0 .. n}

(* One entry of up to two bullets and up to three skills; a reply proposes *)
(* up to two bullets and names up to two skills, one of them not listed;   *)
(* a skill may be listed twice, or differ from another only in case.       *)
Texts   == {[claims |-> {}, holds |-> {"team"}], [claims |-> {"sql"}, holds |-> {"sql", "team"}],
            [claims |-> {"java"}, holds |-> {"java"}]}
Skill(key, text) == [key |-> key, text |-> text]
Written == {[entries |-> <<[holds |-> said, bullets |-> texts]>>, skills |-> skills] :
                said \in {{}, {"java"}}, texts \in Upto(Texts, 2),
                skills \in Upto({Skill("go", "Go"), Skill("go", "GO"), Skill("c", "C")}, 3)}
Answers == {[bullets |-> texts, order |-> order] :
                texts \in Upto({1}, 0) \cup [{1} -> Upto(Texts, 2)],
                order \in Upto({"go", "c", "rust"}, 2)}

(* A tailored CV says nothing new, keeps every skill and is called         *)
(* tailored when something changed, whatever the model answers.            *)
ASSUME TailoringIsSafe ==
    \A before \in Written : \A answer \in Answers : \A usable \in {{}, {1}, {2}} :
        LET after == T!Tailored(before, <<answer, answer>>, usable)
        IN  /\ T!IsCv(before) /\ T!IsReply(answer)
            /\ T!NothingInvented(before, after) /\ T!SkillsReordered(before, after) /\ T!HonestFlag(before, after)

(* What it is not: a CV that lists a skill twice loses one of the two and  *)
(* is not called tailored.                                                 *)
ASSUME ListedTwiceGoesUnseen ==
    LET before == [entries |-> <<>>, skills |-> <<Skill("c", "C"), Skill("go", "Go"), Skill("go", "Go")>>]
        answer == [bullets |-> <<>>, order |-> <<"c", "go">>]
        after  == T!Tailored(before, <<answer, answer>>, {1})
    IN  after.skills = <<Skill("c", "C"), Skill("go", "Go")>> /\ ~after.tailored

-----------------------------------------------------------------------------
V == INSTANCE SentCv

(* CVs of up to two entries and three skills, two of them perhaps of one   *)
(* name, at home or abroad, with every kind of phone.                      *)
Phones    == [begins : {"nothing", "0", "0020", "+20", "else"}, mobile : BOOLEAN]
Locations == [home : {V!Unknown, "EG", "DE"}, latin : BOOLEAN, spelled : {{}, {"EG"}}]
Skills    == [name : {V!NoName, "go", "c"}, level : {1, 2}]
Parts     == Upto({[listed |-> TRUE, bullets |-> <<"b">>], [listed |-> FALSE, bullets |-> <<>>]}, 2)

SomeCvs == {[entries |-> entries, skills |-> skills, phone |-> V!NoPhone, location |-> [home |-> "EG", latin |-> TRUE, spelled |-> {}]] :
            entries \in Parts, skills \in Upto(Skills, 3)}

(* The names in any order, as a tailoring returns them.                    *)
Orders(names) ==
    {order \in [DOMAIN names -> {names[i] : i \in DOMAIN names}] :
        \A i \in DOMAIN names : \E k \in DOMAIN names : order[k] = names[i]}

ASSUME NothingIsLost ==
    \A cv \in {c \in SomeCvs : V!DistinctSkills(c)} :
        /\ V!UntouchedIsSent(cv)
        /\ \A order \in Orders(V!TailorInput(cv).skills) : V!EverySkillOnce(cv, order)

ASSUME ContactsAreStable ==
    \A phone \in Phones, location \in Locations, jobCountry \in {"EG", "DE", "US"} :
        V!ContactIsStable([phone |-> phone, location |-> location], jobCountry)

(* Two places where the code does less than its comments say.  A CV with   *)
(* one skill named twice, which nothing refuses, is sent with three        *)
(* skills.                                                                 *)
ASSUME NamedTwiceIsSentThrice ==
    LET cv == [entries |-> <<>>, skills |-> <<[name |-> "go", level |-> 1], [name |-> "go", level |-> 2]>>]
        sent == V!WithTailoring(cv, [bullets |-> <<>>, order |-> V!TailorInput(cv).skills])
    IN  Len(sent.skills) = 3 /\ ~V!EverySkillOnce(cv, V!TailorInput(cv).skills)

(* Of the phones only a landline written with 0020 loses its country.      *)
ASSUME OnlyLandlinesLoseTheirCountry ==
    {phone \in Phones : ~V!StaysDialable(phone)} = {[begins |-> "0020", mobile |-> FALSE]}
=============================================================================
