------------------------------- MODULE Tailoring -------------------------------
(***************************************************************************)
(* What a tailored CV may contain: src/ai/services/cv-tailor.service.ts.   *)
(*                                                                         *)
(* The model proposes bullets for the CV's entries and an order of its     *)
(* skills; code decides what of it is used.  Applications tailors with     *)
(* this and sees only whether anything was changed.                        *)
(*                                                                         *)
(* A bullet is its text, the facts it CLAIMS (factTokens: numbers, names,  *)
(* tools) and the facts its text HOLDS, anything that may be found in it.  *)
(* A CV is its entries (experience and projects alike, by kind and index)  *)
(* and its skills, each its text and the KEY it is found by (trimmed and   *)
(* in lower case); nothing keeps a CV from listing a skill twice.  A reply *)
(* of the model is what it proposes for some entries, and an order of      *)
(* skills' keys; a call that fails and a reply that is not JSON or not of  *)
(* the schema are the same.                                                *)
(***************************************************************************)
EXTENDS Integers, Sequences, FiniteSets

MAX_ATTEMPTS == 2

(* What an entry says: its title, company or description, and its bullets. *)
Source(entry) == entry.holds \cup UNION {entry.bullets[i].holds : i \in DOMAIN entry.bullets}

IntroducesNewFacts(bullet, entry) == ~(bullet.claims \subseteq Source(entry))

(* acceptBullets: all or nothing.                                          *)
Acceptable(entry, proposed) ==
    /\ Len(proposed) = Len(entry.bullets)
    /\ \A i \in DOMAIN proposed : ~IntroducesNewFacts(proposed[i], entry)

Accepts(cv, reply, e) == e \in DOMAIN reply.bullets /\ Acceptable(cv.entries[e], reply.bullets[e])

Bullets(cv, reply, e) == IF Accepts(cv, reply, e) THEN reply.bullets[e] ELSE cv.entries[e].bullets

(* acceptedEntries > 0.                                                    *)
Rewords(cv, reply) ==
    \E e \in DOMAIN cv.entries :
        /\ Accepts(cv, reply, e)
        /\ \E i \in DOMAIN reply.bullets[e] : reply.bullets[e][i] # cv.entries[e].bullets[i]

(* The numbers of a set in ascending order.                                *)
InOrder(S) == [k \in 1 .. Cardinality(S) |-> CHOOSE i \in S : Cardinality({j \in S : j <= i}) = k]

(* byKey: of skills that differ only in case the last.                     *)
LastOf(skills, key) ==
    CHOOSE i \in DOMAIN skills : skills[i].key = key /\ \A k \in i + 1 .. Len(skills) : skills[k].key # key

(* Where the reply names a skill of the CV for the first time, and where   *)
(* the CV has one the reply does not name.                                 *)
Picks(skills, order) ==
    {i \in DOMAIN order : /\ \E k \in DOMAIN skills : skills[k].key = order[i]
                          /\ \A j \in 1 .. i - 1 : order[j] # order[i]}
Picked(skills, order) == {skills[LastOf(skills, order[i])] : i \in Picks(skills, order)}
Others(skills, order) == {i \in DOMAIN skills : skills[i] \notin Picked(skills, order)}

(* acceptSkillOrder: the skills the reply names, once each and in its      *)
(* order, then the others in theirs.  A skill listed twice is thus once in *)
(* the result if it is named, and twice if not.                            *)
SkillOrder(skills, order) ==
    LET picks  == InOrder(Picks(skills, order))
        others == InOrder(Others(skills, order))
    IN  [i \in DOMAIN picks |-> skills[LastOf(skills, order[picks[i]])]]
            \o [i \in DOMAIN others |-> skills[others[i]]]

(* skillsChanged looks at the places of the new order only, so a shorter   *)
(* one that begins like the old one counts as unchanged.                   *)
SkillsChanged(skills, ordered) ==
    \E i \in DOMAIN ordered : i \notin DOMAIN skills \/ ordered[i] # skills[i]

Untouched(cv) ==
    [bullets |-> [e \in DOMAIN cv.entries |-> cv.entries[e].bullets], skills |-> cv.skills, tailored |-> FALSE]

WorthTailoring(cv) ==
    (\E e \in DOMAIN cv.entries : Len(cv.entries[e].bullets) > 1) \/ Len(cv.skills) > 1

(* A usable reply's outcome.                                               *)
Outcome(cv, reply) ==
    [bullets |-> [e \in DOMAIN cv.entries |-> Bullets(cv, reply, e)],
     skills |-> SkillOrder(cv.skills, reply.order),
     tailored |-> Rewords(cv, reply) \/ SkillsChanged(cv.skills, SkillOrder(cv.skills, reply.order))]

(* tailor: `replies` are the answers to the attempts, `usable` which of    *)
(* them are.  The first usable one counts.                                 *)
Tailored(cv, replies, usable) ==
    IF ~WorthTailoring(cv) \/ (1 .. MAX_ATTEMPTS) \cap usable = {} THEN Untouched(cv)
    ELSE Outcome(cv, replies[CHOOSE i \in (1 .. MAX_ATTEMPTS) \cap usable :
                                \A j \in 1 .. i - 1 : j \notin usable])

-----------------------------------------------------------------------------
(* A CV as read from the database: a bullet's facts are found in its text. *)
IsSequence(s) == s \in Seq({s[i] : i \in DOMAIN s})
IsBullet(bullet) == bullet.claims \subseteq bullet.holds
IsCv(cv) ==
    /\ IsSequence(cv.skills)
    /\ \A e \in DOMAIN cv.entries :
        /\ IsSequence(cv.entries[e].bullets)
        /\ \A i \in DOMAIN cv.entries[e].bullets : IsBullet(cv.entries[e].bullets[i])

(* A reply of the schema.                                                  *)
IsReply(reply) ==
    /\ IsSequence(reply.order)
    /\ \A e \in DOMAIN reply.bullets : IsSequence(reply.bullets[e])

Distinct(s) == \A i, j \in DOMAIN s : i # j => s[i] # s[j]

(* "Nothing that isn't already in the CV" (cv-tailor.service.ts:86): no    *)
(* bullet of the result claims a fact its own entry did not hold, each     *)
(* entry has as many bullets as before, and every skill is the CV's.       *)
NothingInvented(cv, result) ==
    /\ \A e \in DOMAIN cv.entries :
        /\ Len(result.bullets[e]) = Len(cv.entries[e].bullets)
        /\ \A i \in DOMAIN result.bullets[e] : result.bullets[e][i].claims \subseteq Source(cv.entries[e])
    /\ \A i \in DOMAIN result.skills : \E k \in DOMAIN cv.skills : result.skills[i] = cv.skills[k]

(* "A pure reorder of the real skills" (line 71): none is lost, and if the *)
(* CV lists each once, so does the result.                                 *)
SkillsReordered(cv, result) ==
    /\ \A k \in DOMAIN cv.skills : \E i \in DOMAIN result.skills : result.skills[i] = cv.skills[k]
    /\ Distinct(cv.skills) => Distinct(result.skills)

(* The CV goes out as written.                                             *)
AsWritten(cv, result) ==
    /\ \A e \in DOMAIN cv.entries : result.bullets[e] = cv.entries[e].bullets
    /\ result.skills = cv.skills

(* The flag the user is shown, "False when nothing the model produced      *)
(* survived validation" and the CV goes out as written                     *)
(* (cv-tailor.schema.ts:26): it is not true of a CV that did not change,   *)
(* nor false of one that did, if no skill is listed twice.  If one is, the *)
(* skills begin as they did, and listings at their end may be gone.        *)
HonestFlag(cv, result) ==
    /\ result.tailored => ~AsWritten(cv, result)
    /\ ~result.tailored =>
        /\ \A e \in DOMAIN cv.entries : result.bullets[e] = cv.entries[e].bullets
        /\ ~SkillsChanged(cv.skills, result.skills)
        /\ Distinct(cv.skills) => AsWritten(cv, result)
=============================================================================
