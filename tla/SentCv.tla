-------------------------------- MODULE SentCv --------------------------------
(***************************************************************************)
(* The CV a company gets: toTailorInput and applyTailoring of              *)
(* src/modules/applications/applications.service.ts, and                   *)
(* application-contact.ts.                                                 *)
(*                                                                         *)
(* A CV here is its entries (experience and projects alike), each with its *)
(* bullets and whether it has a list of them at all, its skills in order,  *)
(* each with its name (NoName without one), its phone and its location.    *)
(* What the tailoring returns is of module Tailoring: bullets for every    *)
(* entry and an order of the skills' names.                                *)
(***************************************************************************)
EXTENDS Integers, Sequences, FiniteSets

NoName == ""

-----------------------------------------------------------------------------
(* toTailorInput: entries without a list have no bullets, skills without a *)
(* name are not offered.                                                   *)
TailorInput(cv) ==
    [bullets |-> [e \in DOMAIN cv.entries |-> IF cv.entries[e].listed THEN cv.entries[e].bullets ELSE <<>>],
     skills |-> SelectSeq([i \in DOMAIN cv.skills |-> cv.skills[i].name], LAMBDA name : name # NoName)]

(* skillsByName: of skills with one name the last.                         *)
ByName(skills, name) ==
    CHOOSE i \in DOMAIN skills : skills[i].name = name /\ \A k \in i + 1 .. Len(skills) : skills[k].name # name

(* Positions of the skills in the CV sent: those ordered, then the others. *)
Arranged(skills, order) ==
    LET ordered == [i \in DOMAIN order |-> ByName(skills, order[i])]
        all == [i \in DOMAIN skills |-> i]
    IN  ordered \o SelectSeq(all, LAMBDA i : \A k \in DOMAIN ordered : ordered[k] # i)

(* applyTailoring.                                                         *)
WithTailoring(cv, tailored) ==
    [cv EXCEPT
        !.entries = [e \in DOMAIN cv.entries |->
                        IF cv.entries[e].listed THEN [cv.entries[e] EXCEPT !.bullets = tailored.bullets[e]]
                        ELSE cv.entries[e]],
        !.skills = LET arranged == Arranged(cv.skills, tailored.order)
                   IN  [i \in DOMAIN arranged |-> cv.skills[arranged[i]]]]

-----------------------------------------------------------------------------
(* application-contact.ts.  A phone is how it begins ("0" locally, "0020", *)
(* "+20" or anything else) and whether it is a mobile number.              *)
NoPhone == [begins |-> "nothing", mobile |-> FALSE]

LocalPhone(phone) ==
    IF phone.begins = "0" /\ phone.mobile THEN [phone EXCEPT !.begins = "+20"] ELSE phone

InternationalPhone(phone) ==
    IF phone.begins = "0020" THEN LocalPhone([phone EXCEPT !.begins = "0"]) ELSE LocalPhone(phone)

(* A location is the country of a city in it (Unknown without one),        *)
(* whether it is in Latin script, and the countries it spells out.         *)
Unknown == "unknown"

WithCountry(location, jobCountry) ==
    IF location.latin /\ location.home \notin {Unknown, jobCountry} \cup location.spelled
    THEN [location EXCEPT !.spelled = @ \cup {location.home}]
    ELSE location

ContactForJobCountry(cv, jobCountry) ==
    [cv EXCEPT !.phone = InternationalPhone(@), !.location = WithCountry(@, jobCountry)]

Sent(cv, tailored, jobCountry) == ContactForJobCountry(WithTailoring(cv, tailored), jobCountry)

-----------------------------------------------------------------------------
(* "The user's CV with only what tailoring may change swapped in" (line    *)
(* 83): while no two skills have one name, each skill of the CV is in the  *)
(* CV sent exactly once, the nameless ones too (line 106).                 *)
DistinctSkills(cv) ==
    \A i, k \in DOMAIN cv.skills : (i # k /\ cv.skills[i].name = cv.skills[k].name) => cv.skills[i].name = NoName

EverySkillOnce(cv, order) ==
    LET arranged == Arranged(cv.skills, order)
    IN  /\ Len(arranged) = Len(cv.skills)
        /\ {arranged[i] : i \in DOMAIN arranged} = DOMAIN cv.skills

(* A tailoring that changes nothing sends the CV as it is, but for skills  *)
(* without a name, which come last.                                        *)
UntouchedIsSent(cv) ==
    WithTailoring(cv, [bullets |-> TailorInput(cv).bullets, order |-> TailorInput(cv).skills])
        = [cv EXCEPT !.skills = SelectSeq(cv.skills, LAMBDA skill : skill.name # NoName)
                                \o SelectSeq(cv.skills, LAMBDA skill : skill.name = NoName)]

(* "Anything already international is left exactly as the candidate wrote  *)
(* it" (application-contact.ts:9-10): who could be called from abroad      *)
(* still can.                                                              *)
StaysDialable(phone) ==
    phone.begins \in {"0020", "+20"} => InternationalPhone(phone).begins \in {"0020", "+20"}

(* Making the contact international twice adds nothing: a CV tailored for  *)
(* one job abroad may be read again for it.                                *)
ContactIsStable(cv, jobCountry) ==
    ContactForJobCountry(ContactForJobCountry(cv, jobCountry), jobCountry) = ContactForJobCountry(cv, jobCountry)
=============================================================================
