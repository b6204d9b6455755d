------------------------------ MODULE MatchCards ------------------------------
(***************************************************************************)
(* One card per job: src/modules/matching/collapse-duplicates.ts, with     *)
(* listingIdentity of src/modules/jobs/listing-identity.ts.                *)
(*                                                                         *)
(* `found` are the listings a search found, the best first, each its id,   *)
(* its identity (employer and title; Anonymous without an employer),       *)
(* whether it takes applications by email, and its place (Nowhere without   *)
(* one).  `applied` are the ids the device has applied to.                 *)
(***************************************************************************)
EXTENDS Integers, Sequences, FiniteSets

Anonymous == "anonymous"
Nowhere   == "nowhere"

(* The same job posted twice; an anonymous listing is only itself.         *)
SameJob(found, i, k) ==
    i = k \/ (found[i].identity = found[k].identity /\ found[i].identity # Anonymous)

Members(found, i) == {k \in DOMAIN found : SameJob(found, i, k)}

Least(S) == CHOOSE k \in S : \A m \in S : k <= m

(* The card of the listing at i: what was applied to, else what takes      *)
(* applications by email, else the best.                                   *)
CardOf(found, applied, i) ==
    LET members == Members(found, i)
        chosen  == {k \in members : found[k].id \in applied}
        mailed  == {k \in members : found[k].email}
    IN  Least(IF chosen # {} THEN chosen ELSE IF mailed # {} THEN mailed ELSE members)

Cards(found, applied) == {CardOf(found, applied, i) : i \in DOMAIN found}

(* A card sits where its best member was.                                  *)
PlaceInList(found, card) == Least(Members(found, card))

(* The places a card names: those of its members that have one.            *)
Places(found, card) == {found[k].place : k \in Members(found, card)} \ {Nowhere}

-----------------------------------------------------------------------------
(* Every listing found is shown by exactly one card, of the same job.      *)
OneCardEach(found, applied) ==
    \A i \in DOMAIN found :
        \E card \in Cards(found, applied) :
            /\ SameJob(found, i, card)
            /\ \A other \in Cards(found, applied) : SameJob(found, i, other) => other = card

(* "Collapsing must never turn a real application into a `prepared` one"   *)
(* (lines 22-23): where the user applied the card shows it, and where some *)
(* listing takes email the card does, unless it shows an application.      *)
NothingHidden(found, applied) ==
    \A i \in DOMAIN found :
        LET card == CardOf(found, applied, i)
        IN  /\ found[i].id \in applied => found[card].id \in applied
            /\ found[i].email => found[card].email \/ found[card].id \in applied

(* "Ordered best-first; the order of the returned cards follows it" (line  *)
(* 10): a card that was chosen for its application or its email keeps the  *)
(* position of the best listing of its job, and names every place.         *)
PlacesKept(found, applied) ==
    \A i \in DOMAIN found :
        LET card == CardOf(found, applied, i)
        IN  /\ PlaceInList(found, card) <= i
            /\ SameJob(found, i, PlaceInList(found, card))
            /\ found[i].place # Nowhere => found[i].place \in Places(found, card)
=============================================================================
